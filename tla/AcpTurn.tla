------------------------------- MODULE AcpTurn -------------------------------
(***************************************************************************)
(* The turns of one desktop chat session: OpenBBAgentProvider.prompt of    *)
(* acp/provider.py, which reads on the loop of its caller, the pump that   *)
(* runs the turn on the loop of the provider, and EmbeddedRuntime.run_turn *)
(* of runtime/embedded.py.  The caller asks one thing at a time; a turn it *)
(* has given up may still be running when it asks the next: closing the    *)
(* stream of prompt does not close the generators under it, which Python   *)
(* leaves to the loop they were begun on.                                  *)
(***************************************************************************)
EXTENDS Naturals, Sequences, FiniteSets, SequencesExt

CONSTANTS
    MaxTurns  \* bound: prompts

AcpTurnAssumption == MaxTurns \in Nat

Turn == 1..MaxTurns  \* in the order they are asked
Nobody == 0
Event == {"text", "status", "call"}

VARIABLES
    path,      \* "direct": the caller is on the provider's own loop
    reader,    \* what prompt does; "left" when it is closed and _run_turn_bridged is not
    messages,  \* session.messages: role and turn
    owner,     \* whose event session.cancel_event is
    set,       \* whether that event is set
    told,      \* the turns at work that have been told to stop: lc, or the event itself
    pump,      \* what the turn does, on the provider's loop
    status,    \* status of run_turn
    said,      \* whether assembled holds text
    unread,    \* whether the queue holds what prompt has not read
    asked,     \* history: the last message the run was given
    trace,     \* the trace in the history store
    rows,      \* rows of messages in the history store: role and turn
    abandoned, \* history: the turns that were running when their caller left
    failed     \* history: the turns that ended with an error

vars == <<path, reader, messages, owner, set, told, pump, status, said, unread, asked,
          trace, rows, abandoned, failed>>
consumer == <<reader, abandoned>>
store == <<trace, rows, failed>>
run == <<pump, status, said, unread, asked, store>>

(* The type of every variable; a turn that is not over has not answered.   *)
TypeOK ==
    /\ path \in {"direct", "bridged"}
    /\ reader \in [Turn -> {"out", "announcing", "reading", "closing", "left", "returned",
                           "raised"}]
    /\ messages \in Seq({"human", "ai"} \X Turn) /\ rows \in Seq({"human", "ai"} \X Turn)
    /\ owner \in Turn \cup {Nobody}
    /\ set \in BOOLEAN /\ told \in SUBSET Turn
    /\ pump \in [Turn -> {"out", "sent", "setup", "human", "agent",
                          "closing", "answered", "ending", "ended", "shown", "over"}]
    /\ status \in [Turn -> {"completed", "cancelled", "dispatched"}]
    /\ said \in [Turn -> BOOLEAN]
    /\ unread \in [Turn -> BOOLEAN]
    /\ asked \in [Turn -> ({"human", "ai"} \X Turn) \cup {<<>>}]
    /\ trace \in [Turn -> {"none", "running", "completed", "cancelled", "dispatched",
                           "unended"}]
    /\ abandoned \in SUBSET Turn /\ failed \in SUBSET Turn
    /\ \A t \in Turn : Contains(messages, <<"ai", t>>) => pump[t] = "over"

Init ==
    /\ path \in {"direct", "bridged"}
    /\ reader = [t \in Turn |-> "out"] /\ pump = [t \in Turn |-> "out"]
    /\ messages = <<>> /\ rows = <<>>
    /\ owner = Nobody /\ set = FALSE /\ told = {}
    /\ status = [t \in Turn |-> "completed"]
    /\ said = [t \in Turn |-> FALSE]
    /\ unread = [t \in Turn |-> FALSE]
    /\ asked = [t \in Turn |-> <<>>] /\ trace = [t \in Turn |-> "none"]
    /\ abandoned = {} /\ failed = {}

-----------------------------------------------------------------------------
Back == {"out", "left", "returned", "raised"}

(* prompt: the event of the session is the one of the newest turn.  It may *)
(* have modes and options to announce first.                               *)
Prompt(t) ==
    /\ reader[t] = "out" /\ \A u \in Turn : reader[u] \in Back
    /\ \A u \in 1..(t - 1) : reader[u] # "out"
    /\ reader' = [reader EXCEPT ![t] = "announcing"]
    /\ owner' = t /\ set' = FALSE
    /\ UNCHANGED <<path, messages, told, run, abandoned>>

(* The caller closes the stream at an announcement: nothing was asked.     *)
LeaveAnnouncing(t) ==
    /\ reader[t] = "announcing"
    /\ reader' = [reader EXCEPT ![t] = "returned"]
    /\ UNCHANGED <<path, messages, owner, set, told, run, abandoned>>

(* The question joins the session and the turn is sent to its loop; on the *)
(* direct path it starts at once.                                          *)
Send(t) ==
    /\ reader[t] = "announcing"
    /\ messages' = Append(messages, <<"human", t>>)
    /\ reader' = [reader EXCEPT ![t] = "reading"]
    /\ IF path = "direct"
       THEN /\ pump' = [pump EXCEPT ![t] = "setup"]
            /\ asked' = [asked EXCEPT ![t] = <<"human", t>>]
            /\ told' = IF set THEN told \cup {t} ELSE told
       ELSE /\ pump' = [pump EXCEPT ![t] = "sent"]
            /\ UNCHANGED <<asked, told>>
    /\ UNCHANGED <<path, owner, set, status, said, unread, store, abandoned>>

(* cancel, or the caller's own event.  The run of the direct path looks at *)
(* this very event.                                                        *)
Cancel ==
    /\ owner # Nobody /\ ~set
    /\ set' = TRUE
    /\ told' = IF path = "direct" /\ pump[owner] \notin {"out", "over"} THEN told \cup {owner}
               ELSE told
    /\ UNCHANGED <<path, consumer, messages, owner, run>>

-----------------------------------------------------------------------------
(* What a turn shows goes to its reader, if there still is one: at once,   *)
(* or by the queue.                                                        *)
Show(t) == [unread EXCEPT ![t] = path = "bridged" /\ reader[t] = "reading"]

(* _pump begins: its own event is in the box, the messages are copied.     *)
PumpStarts(t) ==
    /\ pump[t] = "sent"
    /\ pump' = [pump EXCEPT ![t] = "setup"]
    /\ asked' = [asked EXCEPT ![t] = Last(messages)]
    /\ UNCHANGED <<path, consumer, messages, owner, set, told, status, said, unread, store>>

(* run_turn starts the runtime, the user, the uploads, and the trace ...   *)
BeginTrace(t) ==
    /\ pump[t] = "setup"
    /\ trace' = [trace EXCEPT ![t] = "running"]
    /\ pump' = [pump EXCEPT ![t] = "human"]
    /\ UNCHANGED <<path, consumer, messages, owner, set, told, status, said, unread, asked,
                   rows, failed>>

(* ... the message, when the last one is the user's, and what memory takes *)
(* from the request, whose errors do not matter.                           *)
AppendHuman(t) ==
    /\ pump[t] = "human"
    /\ rows' = IF asked[t][1] = "human" THEN Append(rows, asked[t]) ELSE rows
    /\ pump' = [pump EXCEPT ![t] = "agent"]
    /\ UNCHANGED <<path, consumer, messages, owner, set, told, status, said, unread, asked,
                   trace, failed>>

(* A step before the agent raises: the turn leaves without ending what it  *)
(* began.                                                                  *)
SetupFails(t) ==
    /\ pump[t] \in {"setup", "human"}
    /\ pump' = [pump EXCEPT ![t] = "ended"]
    /\ failed' = failed \cup {t}
    /\ UNCHANGED <<path, consumer, messages, owner, set, told, status, said, unread, asked,
                   trace, rows>>

(* One event of the agent: the first one after the turn was told to stop   *)
(* is dropped and ends it, a function call is passed on and ends it.       *)
AgentEmits(t, event) ==
    /\ pump[t] = "agent"
    /\ IF t \in told
       THEN /\ status' = [status EXCEPT ![t] = "cancelled"]
            /\ pump' = [pump EXCEPT ![t] = "answered"]
            /\ UNCHANGED <<said, unread>>
       ELSE /\ said' = [said EXCEPT ![t] = @ \/ event = "text"]
            /\ unread' = Show(t)
            /\ IF event = "call"
               THEN /\ status' = [status EXCEPT ![t] = "dispatched"]
                    /\ pump' = [pump EXCEPT ![t] = "answered"]
               ELSE UNCHANGED <<status, pump>>
    /\ UNCHANGED <<path, consumer, messages, owner, set, told, asked, store>>

AgentEnds(t) ==
    /\ pump[t] = "agent"
    /\ pump' = [pump EXCEPT ![t] = "answered"]
    /\ UNCHANGED <<path, consumer, messages, owner, set, told, status, said, unread, asked,
                   store>>

(* The agent raises; the status stays what it is.                          *)
AgentRaises(t) ==
    /\ pump[t] = "agent"
    /\ pump' = [pump EXCEPT ![t] = "ending"]
    /\ failed' = failed \cup {t}
    /\ UNCHANGED <<path, consumer, messages, owner, set, told, status, said, unread, asked,
                   trace, rows>>

(* Mutant: the answer of any run is kept.                                  *)
AppendAnswer_Always(t) ==
    /\ pump[t] = "answered"
    /\ rows' = IF said[t] THEN Append(rows, <<"ai", t>>) ELSE rows
    /\ pump' = [pump EXCEPT ![t] = "ending"]
    /\ UNCHANGED <<path, consumer, messages, owner, set, told, status, said, unread, asked,
                   trace, failed>>

(* Mutant: the answer joins the session with its row.                      *)
AppendAnswer_Joins(t) ==
    /\ pump[t] = "answered"
    /\ rows' = IF said[t] /\ status[t] = "completed" THEN Append(rows, <<"ai", t>>) ELSE rows
    /\ messages' = IF said[t] THEN Append(messages, <<"ai", t>>) ELSE messages
    /\ pump' = [pump EXCEPT ![t] = "ending"]
    /\ UNCHANGED <<path, consumer, owner, set, told, status, said, unread, asked, trace, failed>>

(* The text of a completed run becomes a row.                              *)
AppendAnswer(t) ==
    /\ pump[t] = "answered"
    /\ rows' = IF said[t] /\ status[t] = "completed" THEN Append(rows, <<"ai", t>>) ELSE rows
    /\ pump' = [pump EXCEPT ![t] = "ending"]
    /\ UNCHANGED <<path, consumer, messages, owner, set, told, status, said, unread, asked,
                   trace, failed>>

AppendFails(t) ==
    /\ pump[t] = "answered" /\ said[t] /\ status[t] = "completed"
    /\ pump' = [pump EXCEPT ![t] = "ending"]
    /\ failed' = failed \cup {t}
    /\ UNCHANGED <<path, consumer, messages, owner, set, told, status, said, unread, asked,
                   trace, rows>>

(* The trace is ended when the agent was started; an error of end_trace is *)
(* suppressed and leaves its row as it was.                                *)
EndTrace(t) ==
    /\ pump[t] = "ending"
    /\ \E s \in {status[t], "unended"} : trace' = [trace EXCEPT ![t] = s]
    /\ pump' = [pump EXCEPT ![t] = "ended"]
    /\ UNCHANGED <<path, consumer, messages, owner, set, told, status, said, unread, asked,
                   rows, failed>>

(* Did run_turn leave with an exception, or was its generator closed?      *)
Interrupted(t) == t \in failed \/ reader[t] # "reading"

(* A run can be told once it has an event to be told with.                 *)
Boxed(t) == pump[t] \notin {"out", "sent"}
Told(t) == IF pump[t] # "over" /\ Boxed(t) THEN told \cup {t} ELSE told

(* A reader looks twice at the event of the session: whether there is one, *)
(* and whether it is set.  If it is taken away in between, None has no     *)
(* is_set, and before the reader raises it tells its own run and waits.    *)
Misses(r) ==
    /\ path = "bridged" /\ reader[r] = "reading" /\ ~unread[r] /\ owner # Nobody
    /\ reader' = [reader EXCEPT ![r] = "closing"]

(* An error is shown before the turn is over, and its caller may act on it *)
(* by then.                                                                *)
ShowError(t) ==
    /\ pump[t] = "ended" /\ t \in failed
    /\ pump' = [pump EXCEPT ![t] = "shown"]
    /\ unread' = Show(t)
    /\ UNCHANGED <<path, consumer, messages, owner, set, told, status, said, asked, store>>

(* What the agent said joins the session: whatever became of the run on    *)
(* the bridged path, on the direct one if nothing was raised.  The session *)
(* is left without an event, whoever owns it.                              *)
TurnOver(t) ==
    /\ pump[t] = IF t \in failed THEN "shown" ELSE "ended"
    /\ pump' = [pump EXCEPT ![t] = "over"]
    /\ IF path = "direct" /\ t \in abandoned THEN UNCHANGED <<owner, set>>
       ELSE owner' = Nobody /\ set' = FALSE
    /\ messages' = IF said[t] /\ ~(path = "direct" /\ Interrupted(t))
                   THEN Append(messages, <<"ai", t>>) ELSE messages
    /\ \/ \E r \in Turn : Misses(r) /\ told' = Told(r) \ {t}
       \/ /\ told' = told \ {t}
          /\ reader' = IF path = "direct" /\ reader[t] \in {"reading", "closing"}
                       THEN [reader EXCEPT ![t] = IF @ = "reading" THEN "returned" ELSE "raised"]
                       ELSE reader
    /\ UNCHANGED <<path, status, said, unread, asked, store, abandoned>>

-----------------------------------------------------------------------------
(* Mutant: the mark is only put when nothing was raised.                   *)
Read_Clean(t) ==
    /\ path = "bridged" /\ reader[t] = "reading"
    /\ \/ /\ unread[t]
          /\ unread' = [unread EXCEPT ![t] = FALSE]
          /\ UNCHANGED reader
       \/ /\ ~unread[t] /\ pump[t] = "over" /\ t \notin failed
          /\ reader' = [reader EXCEPT ![t] = "returned"]
          /\ UNCHANGED unread
    /\ UNCHANGED <<path, messages, owner, set, told, pump, status, said, asked, store, abandoned>>

(* The bridged reader takes what is there, up to the mark the pump leaves  *)
(* at its end ...                                                          *)
Read(t) ==
    /\ path = "bridged" /\ reader[t] = "reading"
    /\ \/ /\ unread[t]
          /\ unread' = [unread EXCEPT ![t] = FALSE]
          /\ UNCHANGED reader
       \/ /\ ~unread[t] /\ pump[t] = "over"
          /\ reader' = [reader EXCEPT ![t] = "returned"]
          /\ UNCHANGED unread
    /\ UNCHANGED <<path, messages, owner, set, told, pump, status, said, asked, store, abandoned>>

(* ... and when there is nothing looks at the event of the session.        *)
Poll(t) ==
    /\ path = "bridged" /\ reader[t] = "reading" /\ ~unread[t]
    /\ set /\ t \notin told /\ t \in Told(t)
    /\ told' = Told(t)
    /\ UNCHANGED <<path, consumer, messages, owner, set, run>>

(* Mutant: it does not wait.                                               *)
ReaderCancelled_NoWait(t) ==
    /\ path = "bridged" /\ reader[t] = "reading" /\ ~unread[t]
    /\ told' = Told(t)
    /\ reader' = [reader EXCEPT ![t] = "raised"]
    /\ UNCHANGED <<path, messages, owner, set, run, abandoned>>

(* The task of the caller is cancelled while the reader sleeps: it, too,   *)
(* tells the run and waits.                                                *)
ReaderCancelled(t) ==
    /\ path = "bridged" /\ reader[t] = "reading" /\ ~unread[t]
    /\ told' = Told(t)
    /\ reader' = [reader EXCEPT ![t] = "closing"]
    /\ UNCHANGED <<path, messages, owner, set, run, abandoned>>

Left(t) ==
    /\ reader[t] = "closing" /\ pump[t] = "over"
    /\ reader' = [reader EXCEPT ![t] = "raised"]
    /\ UNCHANGED <<path, messages, owner, set, told, run, abandoned>>

(* pump_future.result(timeout=10): the run goes on without a reader.       *)
LeaveTimesOut(t) ==
    /\ path = "bridged" /\ reader[t] = "closing" /\ pump[t] # "over"
    /\ reader' = [reader EXCEPT ![t] = "raised"]
    /\ abandoned' = abandoned \cup {t}
    /\ UNCHANGED <<path, messages, owner, set, told, run>>

(* The caller closes the stream at something it was shown.  prompt is over *)
(* at once, and nothing has been told to the run ...                       *)
Leave(t) ==
    /\ path = "bridged" /\ reader[t] = "reading" /\ unread[t]
    /\ reader' = [reader EXCEPT ![t] = "left"]
    /\ unread' = [unread EXCEPT ![t] = FALSE]
    /\ abandoned' = IF pump[t] = "over" THEN abandoned ELSE abandoned \cup {t}
    /\ UNCHANGED <<path, messages, owner, set, told, pump, status, said, asked, store>>

(* ... before the loop of the caller closes the bridge, if it lives that   *)
(* long; it is blocked while the bridge waits for the run.                 *)
CloseBridge(t) ==
    /\ reader[t] = "left"
    /\ told' = Told(t)
    /\ reader' = [reader EXCEPT ![t] = "returned"]
    /\ UNCHANGED <<path, messages, owner, set, run, abandoned>>

(* On the direct path, too, the generators of the turn are left to the     *)
(* loop, at what the agent has just shown, a function call as well ...     *)
LeaveDirect(t, event) ==
    /\ path = "direct" /\ reader[t] = "reading"
    /\ pump[t] = "agent" /\ t \notin told
    /\ reader' = [reader EXCEPT ![t] = "returned"]
    /\ said' = [said EXCEPT ![t] = @ \/ event = "text"]
    /\ pump' = [pump EXCEPT ![t] = "closing"]
    /\ abandoned' = abandoned \cup {t}
    /\ UNCHANGED <<path, messages, owner, set, told, status, unread, asked, store>>

(* ... or at the error that has ended it ...                               *)
LeaveAtError(t) ==
    /\ path = "direct" /\ reader[t] = "reading"
    /\ pump[t] = "shown"
    /\ reader' = [reader EXCEPT ![t] = "returned"]
    /\ pump' = [pump EXCEPT ![t] = "closing"]
    /\ abandoned' = abandoned \cup {t}
    /\ UNCHANGED <<path, messages, owner, set, told, status, said, unread, asked, store>>

(* ... and the loop closes them after the caller has its answer ...        *)
CloseDirect(t) ==
    /\ pump[t] = "closing"
    /\ owner' = Nobody /\ set' = FALSE
    /\ IF t \in failed
       THEN /\ pump' = [pump EXCEPT ![t] = "over"]
            /\ told' = told \ {t}
            /\ UNCHANGED status
       ELSE /\ pump' = [pump EXCEPT ![t] = "ending"]
            /\ status' = [status EXCEPT ![t] = "cancelled"]
            /\ UNCHANGED told
    /\ UNCHANGED <<path, consumer, messages, said, unread, asked, store>>

(* ... while the cancellation of the task goes through all of them, where  *)
(* the turn waits; the row it waits for may have been written, and the     *)
(* trace is ended all the same.                                            *)
TaskCancelled(t) ==
    /\ path = "direct" /\ reader[t] = "reading"
    /\ pump[t] \in {"setup", "human", "agent", "answered", "ending"}
    /\ reader' = [reader EXCEPT ![t] = "closing"]
    /\ status' = IF pump[t] \in {"agent", "answered"}
                 THEN [status EXCEPT ![t] = "cancelled"] ELSE status
    /\ pump' = [pump EXCEPT ![t] = IF @ \in {"setup", "human"} THEN "ended" ELSE "ending"]
    /\ \/ UNCHANGED rows
       \/ /\ pump[t] = "answered" /\ said[t] /\ status[t] = "completed"
          /\ rows' = Append(rows, <<"ai", t>>)
       \/ pump[t] = "human" /\ rows' = Append(rows, asked[t])
    /\ UNCHANGED <<path, messages, owner, set, told, said, unread, asked, trace, failed,
                   abandoned>>

PumpStep(t) ==
    \/ PumpStarts(t) \/ BeginTrace(t) \/ AppendHuman(t) \/ SetupFails(t)
    \/ \E event \in Event : AgentEmits(t, event)
    \/ AgentEnds(t) \/ AgentRaises(t)
    \/ AppendAnswer(t) \/ AppendFails(t) \/ EndTrace(t)
    \/ ShowError(t) \/ TurnOver(t) \/ CloseDirect(t)

ReaderStep(t) == Send(t) \/ Read(t) \/ Poll(t) \/ Left(t) \/ LeaveTimesOut(t)

Next ==
    \/ Cancel
    \/ \E t \in Turn :
          \/ Prompt(t) \/ LeaveAnnouncing(t)
          \/ Leave(t) \/ CloseBridge(t)
          \/ \E event \in Event : LeaveDirect(t, event)
          \/ LeaveAtError(t) \/ ReaderCancelled(t) \/ TaskCancelled(t)
          \/ PumpStep(t) \/ ReaderStep(t)

Spec == Init /\ [][Next]_vars

(* Both loops go on, and the agent does not run for ever: its calls are    *)
(* limited.                                                                *)
FairSpec ==
    /\ Spec
    /\ \A t \in Turn :
          /\ WF_vars(PumpStep(t)) /\ WF_vars(ReaderStep(t))
          /\ WF_vars(AgentEnds(t) \/ AgentRaises(t))

-----------------------------------------------------------------------------
(* The last thing a run is given is the question it was started for, or    *)
(* the answer of an earlier turn that was left at work, which came after   *)
(* that question.  Only a turn that was itself left before it began is     *)
(* given what came later.                                                  *)
OwnQuestion ==
    \A t \in Turn \ abandoned : asked[t] # <<>> =>
        \/ asked[t] = <<"human", t>>
        \/ \E u \in abandoned : u < t /\ asked[t] = <<"ai", u>>

(* What history has of the conversation is what the session remembers, in  *)
(* its order: a question whenever the run got that far, an answer exactly  *)
(* when the trace is completed and nothing was raised.  Only a task that   *)
(* is cancelled while it writes its answer may keep what the session does  *)
(* not, and only a turn that was left at work gets in between.             *)
HistoryIsRemembered ==
    LET whole == {t \in Turn : ~(path = "direct" /\ reader[t] \in {"closing", "raised"})}
    IN  /\ \A i \in DOMAIN rows : LET t == rows[i][2] IN
              t \in whole /\ pump[t] = "over" => Contains(messages, rows[i])
        /\ \A t \in whole \ failed : trace[t] \in {"completed", "cancelled", "dispatched"} =>
              (Contains(rows, <<"ai", t>>) <=> trace[t] = "completed" /\ said[t])
        /\ abandoned = {} =>
              \A i, j \in DOMAIN rows, k, l \in DOMAIN messages :
                 rows[i] = messages[k] /\ rows[j] = messages[l] => (i < j <=> k < l)

(* While a turn is read and is not over, the event of the session is its   *)
(* own, unless one before it that was left at work has taken it away.      *)
CancelReachesTurn ==
    \A t \in Turn : reader[t] = "reading" /\ pump[t] # "over" =>
        owner = t \/ \E u \in abandoned : u < t

(* Everyone who asks comes back, and what was asked ends.                  *)
TurnEnds ==
    \A t \in Turn : reader[t] = "announcing" ~> reader[t] \in Back /\ pump[t] \in {"out", "over"}
=============================================================================
