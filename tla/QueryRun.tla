------------------------------ MODULE QueryRun ------------------------------
(***************************************************************************)
(* The life of /v1/query exchanges in app/router.py: the request handler   *)
(* _run_query, the generator stream() that drives the agent and feeds the  *)
(* SSE response, the in-process registry _cancellations, the trace and     *)
(* message rows they write, and the endpoints that act on other people's   *)
(* exchanges: POST /v1/conversations/{id}/cancel and DELETE /v1/me.        *)
(*                                                                         *)
(* One Run is one HTTP exchange, which is also one trace row.  Exchanges   *)
(* of the same Turn carry the same run_id "<conversation>:turn<N>": the    *)
(* retry of a request, and the follow-up in which the client returns the   *)
(* result of a function call.  The agent behind run_agent is external; its *)
(* events come in the order protocol/adapter.py gives them: status rows    *)
(* and function calls while it works, then at most one answer, then its    *)
(* artifacts and citations.                                                *)
(***************************************************************************)
EXTENDS Naturals, FiniteSets

CONSTANTS
    Run, Turn, User,
    TurnOf,      \* the turn an exchange belongs to
    UserOf,      \* the user a turn belongs to
    Leaver,      \* the users who may delete their data
    NoRun,       \* an empty slot of the cancellation registry
    MaxEvents,   \* bound: status rows and function calls of one run
    MaxFaults,   \* bound: store calls that fail
    MaxCrashes   \* bound: crashes of the server process

ASSUME QueryRunAssumption ==
    /\ TurnOf \in [Run -> Turn]
    /\ UserOf \in [Turn -> User]
    /\ Leaver \subseteq User
    /\ NoRun \notin Run
    /\ MaxEvents \in Nat /\ MaxFaults \in Nat /\ MaxCrashes \in Nat

Owner(r) == UserOf[TurnOf[r]]

VARIABLES
    run,      \* the handler and its generator: program counter and locals
    stop,     \* the asyncio.Event of the run
    reg,      \* _cancellations: the run whose event is filed under the turn
    trace,    \* the status column of the run's trace row
    msgs,     \* the messages table: <<run, role>>
    ending,   \* end_trace calls that outlive their exchange: <<run, status>>
    called,   \* exchanges from which a client received a function call
    erased,   \* history: users deleted and not seen in a request since
    doomed,   \* history: runs that were in flight when their user was deleted
    faults, crashes

store == <<trace, msgs>>
ghost == <<erased, doomed>>
spent == <<faults, crashes>>
vars  == <<run, stop, reg, store, ending, called, ghost, spent>>

Event   == {"status", "call", "answer", "extra"}
Handler == {"admitted", "opened", "recorded"}
Stream  == {"registered", "pulling", "checking", "sending", "failing",
            "appending", "completing", "closing"}
PC      == {"idle", "done"} \cup Handler \cup Stream
Final   == {"completed", "cancelled", "error", "paused", "dispatched"}
Status  == {"none", "running", "erased"} \cup Final
Exit    == {"none", "closed", "dispatched", "preempted", "rejected", "unstarted",
            "abandoned", "unrecorded", "crashed"}

RunState == [pc : PC,
             up : BOOLEAN,                \* the client is still connected
             last : {"human", "tool"},    \* role of the last message sent
             phase : {"working", "answered", "over"},
             budget : 0..MaxEvents,
             ev : Event,                  \* the event in hand
             gone : BOOLEAN,              \* client_gone
             verdict : Status,            \* the status end_trace is called with
             late : 0..3,                 \* history: frames sent after the event
                                          \* of the run was set, three for "more"
             shared : BOOLEAN,            \* history: another live run used the key
             exit : Exit]                 \* how the exchange ended

(* An exchange outside of its stream: the stream's own locals are unset.   *)
Outside(pc, last, phase, budget, exit) ==
    [pc |-> pc, up |-> TRUE, last |-> last, phase |-> phase, budget |-> budget,
     ev |-> "status", gone |-> FALSE, verdict |-> "none", late |-> 0,
     shared |-> FALSE, exit |-> exit]

Fresh == Outside("idle", "human", "working", MaxEvents, "none")

(* Every variable stays within its type: in particular only the statuses   *)
(* and roles of the source are ever written to the tables.                 *)
TypeOK ==
    /\ run \in [Run -> RunState]
    /\ stop \in [Run -> BOOLEAN]
    /\ reg \in [Turn -> Run \cup {NoRun}]
    /\ trace \in [Run -> Status]
    /\ msgs \in SUBSET (Run \X {"human", "ai"})
    /\ ending \in SUBSET (Run \X Status)
    /\ called \in SUBSET Run
    /\ erased \in SUBSET User
    /\ doomed \in SUBSET Run
    /\ faults \in 0..MaxFaults
    /\ crashes \in 0..MaxCrashes

Init ==
    /\ run = [r \in Run |-> Fresh]
    /\ stop = [r \in Run |-> FALSE]
    /\ reg = [t \in Turn |-> NoRun]
    /\ trace = [r \in Run |-> "none"]
    /\ msgs = {}
    /\ ending = {}
    /\ called = {}
    /\ erased = {}
    /\ doomed = {}
    /\ faults = 0
    /\ crashes = 0

At(r, pc) == run[r].pc = pc
Become(r, local) == run' = [run EXCEPT ![r] = local]
Goto(r, pc) == Become(r, [run[r] EXCEPT !.pc = pc])

(* On the way to end_trace with this status.                               *)
Close(r, status) ==
    Become(r, [run[r] EXCEPT !.pc = "closing", !.verdict = status])

(* assembled is not empty.                                                 *)
Answered(r) == run[r].phase # "working"

(* The exchange is over: what is left of its locals is what the invariants *)
(* still speak of.                                                         *)
Over(r, why) ==
    Outside("done", run[r].last, IF Answered(r) THEN "over" ELSE "working", 0, why)

(* The generator's finally: the slot is emptied whoever's event is in it.  *)
Leave(r, why) ==
    /\ Become(r, Over(r, why))
    /\ reg' = [reg EXCEPT ![TurnOf[r]] = NoRun]

(* Mutant: a status the schema does not know.                              *)
EndTrace_Aborted(r, status) ==
    trace' = [trace EXCEPT ![r] = IF @ \in {"none", "erased"} THEN @
                                  ELSE IF status = "paused" THEN "aborted" ELSE status]

(* Mutant: end_trace writes the row whether or not it is still there.      *)
EndTrace_Upserts(r, status) ==
    trace' = [trace EXCEPT ![r] = IF @ = "none" THEN @ ELSE status]

(* end_trace finds the row by id and owner and does nothing without it.    *)
EndTrace(r, status) ==
    trace' = [trace EXCEPT ![r] = IF @ \in {"none", "erased"} THEN @ ELSE status]

-----------------------------------------------------------------------------
(* _run_query, up to the point where it returns the SSE response.          *)

(* A client sends a turn's human message, now or again, or the result of a *)
(* function call it received in an earlier exchange of the turn.           *)
Receive(r) ==
    /\ At(r, "idle")
    /\ \E role \in {"human", "tool"} :
          /\ role = "tool" => \E q \in called : TurnOf[q] = TurnOf[r]
          /\ Become(r, [run[r] EXCEPT !.pc = "admitted", !.last = role])
    /\ erased' = erased \ {Owner(r)}
    /\ UNCHANGED <<stop, reg, store, ending, called, doomed, spent>>

(* Fetchable primary widgets and no tool result yet: the response is a     *)
(* get_widget_data call, written without a trace, a message or an agent.   *)
Preempt(r) ==
    /\ At(r, "idle")
    /\ Become(r, Over(r, "preempted"))
    /\ called' = called \cup {r}
    /\ erased' = erased \ {Owner(r)}
    /\ UNCHANGED <<stop, reg, store, ending, doomed, spent>>

OpenTrace(r) ==
    /\ At(r, "admitted")
    /\ Goto(r, "opened")
    /\ trace' = [trace EXCEPT ![r] = "running"]
    /\ UNCHANGED <<stop, reg, msgs, ending, called, ghost, spent>>

(* Mutant: the retry of a turn does not record its human message again.    *)
RecordHuman_Once(r) ==
    /\ At(r, "opened")
    /\ Goto(r, "recorded")
    /\ msgs' = IF run[r].last = "human" /\ \A q \in Run : TurnOf[q] = TurnOf[r] =>
                                                   <<q, "human">> \notin msgs
               THEN msgs \cup {<<r, "human">>} ELSE msgs
    /\ UNCHANGED <<stop, reg, trace, ending, called, ghost, spent>>

RecordHuman(r) ==
    /\ At(r, "opened")
    /\ Goto(r, "recorded")
    /\ msgs' = IF run[r].last = "human" THEN msgs \cup {<<r, "human">>} ELSE msgs
    /\ UNCHANGED <<stop, reg, trace, ending, called, ghost, spent>>

(* A store call raises before the response exists: HTTP 500.               *)
Reject(r) ==
    /\ run[r].pc \in {"admitted", "opened"}
    /\ faults < MaxFaults
    /\ faults' = faults + 1
    /\ Become(r, Over(r, "rejected"))
    /\ UNCHANGED <<stop, reg, store, ending, called, ghost, crashes>>

(* The live runs that use the registry key of r.                           *)
Rivals(r) == {q \in Run \ {r} : TurnOf[q] = TurnOf[r] /\ run[q].pc \in Stream}

Registered(r) ==
    run' = [q \in Run |->
              IF q = r THEN [run[r] EXCEPT !.pc = "registered",
                                           !.shared = Rivals(r) # {}]
              ELSE IF q \in Rivals(r) THEN [run[q] EXCEPT !.shared = TRUE]
              ELSE run[q]]

(* Mutant: setdefault, an event that is already filed stays.               *)
Register_SetDefault(r) ==
    /\ At(r, "recorded")
    /\ Registered(r)
    /\ reg' = [reg EXCEPT ![TurnOf[r]] = IF @ = NoRun THEN r ELSE @]
    /\ UNCHANGED <<stop, store, ending, called, ghost, spent>>

(* The run's event is filed under its run_id, over whatever was there.     *)
Register(r) ==
    /\ At(r, "recorded")
    /\ Registered(r)
    /\ reg' = [reg EXCEPT ![TurnOf[r]] = r]
    /\ UNCHANGED <<stop, store, ending, called, ghost, spent>>

-----------------------------------------------------------------------------
(* stream(): one turn of the loop over run_agent's events.                 *)

StartStream(r) ==
    /\ At(r, "registered")
    /\ Goto(r, "pulling")
    /\ UNCHANGED <<stop, reg, store, ending, called, ghost, spent>>

(* What the agent may yield next.                                          *)
Emits(r) ==
    CASE run[r].phase = "working"  -> {"answer"} \cup
                                      (IF run[r].budget > 0 THEN {"status", "call"} ELSE {})
      [] run[r].phase = "answered" -> {"extra"}
      [] run[r].phase = "over"     -> {}

Pulled(r, k) ==
    [run[r] EXCEPT !.pc = "checking", !.ev = k,
                   !.phase = CASE k = "answer" -> "answered"
                               [] k = "extra"  -> "over"
                               [] OTHER        -> "working",
                   !.budget = IF k \in {"status", "call"} THEN @ - 1 ELSE @]

(* Mutant: the cancel event is looked at only before the agent's first     *)
(* event.                                                                  *)
Emit_UncheckedLater(r, k) ==
    /\ At(r, "pulling") /\ (stop[r] => run[r].budget < MaxEvents \/ Answered(r))
    /\ k \in Emits(r)
    /\ Become(r, Pulled(r, k))
    /\ UNCHANGED <<stop, reg, store, ending, called, ghost, spent>>

(* An event arrives, the cancel event is not set; the loop now awaits      *)
(* request.is_disconnected() unless the client is known to be gone.        *)
Emit(r, k) ==
    /\ At(r, "pulling") /\ ~stop[r]
    /\ k \in Emits(r)
    /\ Become(r, Pulled(r, k))
    /\ UNCHANGED <<stop, reg, store, ending, called, ghost, spent>>

(* An event arrives and the cancel event is set: the event is dropped.     *)
StopAtEvent(r) ==
    /\ At(r, "pulling") /\ stop[r]
    /\ Emits(r) # {}
    /\ Close(r, "cancelled")
    /\ UNCHANGED <<stop, reg, store, ending, called, ghost, spent>>

(* Mutant: the stream ends with the function call, its trace stays open.   *)
AfterEvent_Unclosed(r, local) ==
    IF run[r].ev = "call"
    THEN /\ Leave(r, "dispatched")
         /\ UNCHANGED ending
    ELSE /\ Become(r, [local EXCEPT !.pc = "pulling", !.ev = "status"])
         /\ UNCHANGED <<reg, ending>>

(* After the event was sent or withheld: a function call ends the stream,  *)
(* and its trace is closed by a task nobody waits for.                     *)
AfterEvent(r, local) ==
    IF run[r].ev = "call"
    THEN /\ Leave(r, "dispatched")
         /\ ending' = ending \cup {<<r, "dispatched">>}
    ELSE /\ Become(r, [local EXCEPT !.pc = "pulling", !.ev = "status"])
         /\ UNCHANGED <<reg, ending>>

(* The frames sent after the stop, when one more goes out.                 *)
OneMore(r) == IF stop[r] /\ run[r].late < 3 THEN run[r].late + 1 ELSE run[r].late

BeginSend(r) ==
    /\ At(r, "checking") /\ ~run[r].gone /\ run[r].up
    /\ Become(r, [run[r] EXCEPT !.pc = "sending",
                                !.late = OneMore(r)])
    /\ UNCHANGED <<stop, reg, store, ending, called, ghost, spent>>

(* is_disconnected() answers True, or did before: keep draining.           *)
SkipSend(r) ==
    /\ At(r, "checking") /\ (run[r].gone \/ ~run[r].up)
    /\ AfterEvent(r, [run[r] EXCEPT !.gone = TRUE])
    /\ UNCHANGED <<stop, store, called, ghost, spent>>

(* The frame is written and the generator resumes after its yield.         *)
Sent(r) ==
    /\ At(r, "sending")
    /\ AfterEvent(r, run[r])
    /\ called' = IF run[r].ev = "call" /\ run[r].up THEN called \cup {r} ELSE called
    /\ UNCHANGED <<stop, store, ghost, spent>>

-----------------------------------------------------------------------------
(* How the loop ends.                                                      *)

(* The agent is exhausted.  The cancel event is not looked at again.       *)
AgentEnds(r) ==
    /\ At(r, "pulling")
    /\ Goto(r, IF Answered(r) THEN "appending" ELSE "completing")
    /\ UNCHANGED <<stop, reg, store, ending, called, ghost, spent>>

AppendAnswer(r) ==
    /\ At(r, "appending")
    /\ Goto(r, "completing")
    /\ msgs' = msgs \cup {<<r, "ai">>}
    /\ UNCHANGED <<stop, reg, trace, ending, called, ghost, spent>>

Complete(r) ==
    /\ At(r, "completing")
    /\ EndTrace(r, "completed")
    /\ Leave(r, "closed")
    /\ UNCHANGED <<stop, msgs, ending, called, ghost, spent>>

(* The agent raises: GraphBubbleUp pauses the run, anything else is an     *)
(* error that is first reported to a client that is still there, in a      *)
(* frame for which nobody looks at the cancel event.                       *)
AgentInterrupts(r) ==
    /\ At(r, "pulling") /\ run[r].phase = "working"
    /\ Close(r, "paused")
    /\ UNCHANGED <<stop, reg, store, ending, called, ghost, spent>>

Fail(r) ==
    Become(r, IF run[r].gone
              THEN [run[r] EXCEPT !.pc = "closing", !.verdict = "error"]
              ELSE [run[r] EXCEPT !.pc = "failing", !.verdict = "error",
                                  !.late = OneMore(r)])

AgentRaises(r) ==
    /\ At(r, "pulling") /\ run[r].phase = "working"
    /\ Fail(r)
    /\ UNCHANGED <<stop, reg, store, ending, called, ghost, spent>>

(* A store call in the loop's tail fails and takes the same path.          *)
TailFails(r) ==
    /\ run[r].pc \in {"appending", "completing"}
    /\ faults < MaxFaults
    /\ faults' = faults + 1
    /\ Fail(r)
    /\ UNCHANGED <<stop, reg, store, ending, called, ghost, crashes>>

(* Mutant: the error frame waits for a client that is there to take it.    *)
ErrorFrameDone_Taken(r) ==
    /\ At(r, "failing") /\ run[r].up
    /\ Goto(r, "closing")
    /\ UNCHANGED <<stop, reg, store, ending, called, ghost, spent>>

(* The error frame is out, or its GeneratorExit was swallowed.             *)
ErrorFrameDone(r) ==
    /\ At(r, "failing")
    /\ Goto(r, "closing")
    /\ UNCHANGED <<stop, reg, store, ending, called, ghost, spent>>

(* end_trace with the verdict of an exception handler, and the finally.    *)
CloseTrace(r) ==
    /\ At(r, "closing")
    /\ EndTrace(r, run[r].verdict)
    /\ Leave(r, "closed")
    /\ UNCHANGED <<stop, msgs, ending, called, ghost, spent>>

(* end_trace itself fails: logged, and the row stays as it was.            *)
CloseFails(r) ==
    /\ At(r, "closing")
    /\ faults < MaxFaults
    /\ faults' = faults + 1
    /\ Leave(r, "unrecorded")
    /\ UNCHANGED <<stop, store, ending, called, ghost, crashes>>

(* An end_trace that goes on when the exchange is over: _safe_end_trace,   *)
(* or the shielded call of a handler that was cancelled while it waited.   *)
EndInBackground(r) ==
    \E s \in Status :
        /\ <<r, s>> \in ending
        /\ ending' = ending \ {<<r, s>>}
        /\ \/ EndTrace(r, s) /\ UNCHANGED <<run, faults>>
           \/ /\ faults < MaxFaults
              /\ faults' = faults + 1
              /\ Become(r, [run[r] EXCEPT !.exit = "unrecorded"])
              /\ UNCHANGED trace
        /\ UNCHANGED <<stop, reg, msgs, called, ghost, crashes>>

-----------------------------------------------------------------------------
(* The client and the server process.                                      *)

Disconnect(r) ==
    /\ run[r].up
    /\ run[r].pc \in Handler \cup Stream
    /\ Become(r, [run[r] EXCEPT !.up = FALSE])
    /\ UNCHANGED <<stop, reg, store, ending, called, ghost, spent>>

(* The SSE response notices the disconnect too and cancels its task.  If   *)
(* the generator awaits something, CancelledError surfaces there; the      *)
(* write it was waiting for may have been committed all the same.          *)
TearDown(r) ==
    /\ ~run[r].up
    /\ run[r].pc \in {"pulling", "checking", "appending", "completing"}
    /\ At(r, "checking") => ~run[r].gone
    /\ Close(r, "cancelled")
    /\ \/ UNCHANGED store
       \/ /\ At(r, "appending")
          /\ msgs' = msgs \cup {<<r, "ai">>}
          /\ UNCHANGED trace
       \/ /\ At(r, "completing")
          /\ EndTrace(r, "completed")
          /\ UNCHANGED msgs
    /\ UNCHANGED <<stop, reg, ending, called, ghost, spent>>

(* If it awaits the shielded end_trace of a handler, only the wait ends.   *)
Detach(r) ==
    /\ ~run[r].up
    /\ At(r, "closing")
    /\ Leave(r, "closed")
    /\ ending' = ending \cup {<<r, run[r].verdict>>}
    /\ UNCHANGED <<stop, store, called, ghost, spent>>

(* If it is suspended at a yield it is closed there: GeneratorExit passes  *)
(* every except clause and only the finally runs.                          *)
Abandon(r) ==
    /\ ~run[r].up
    /\ At(r, "sending")
    /\ Leave(r, "abandoned")
    /\ UNCHANGED <<stop, store, ending, called, ghost, spent>>

(* If it was never started there is no finally to run.                     *)
NeverStart(r) ==
    /\ ~run[r].up
    /\ At(r, "registered")
    /\ Become(r, Over(r, "unstarted"))
    /\ UNCHANGED <<stop, reg, store, ending, called, ghost, spent>>

Ending(r) == \E s \in Status : <<r, s>> \in ending

Crash ==
    /\ crashes < MaxCrashes
    /\ crashes' = crashes + 1
    /\ run' = [r \in Run |-> IF run[r].pc \in Handler \cup Stream \/ Ending(r)
                             THEN Over(r, "crashed") ELSE run[r]]
    /\ reg' = [t \in Turn |-> NoRun]
    /\ ending' = {}
    /\ UNCHANGED <<stop, store, called, ghost, faults>>

-----------------------------------------------------------------------------
(* The endpoints.                                                          *)

(* POST /v1/conversations/{id}/cancel sets every event filed for the user, *)
(* whatever conversation the path names.                                   *)
Cancel(u) ==
    /\ stop' = [r \in Run |-> stop[r] \/ (reg[TurnOf[r]] = r /\ Owner(r) = u)]
    /\ UNCHANGED <<run, reg, store, ending, called, ghost, spent>>

(* Mutant: the messages are left to a foreign key that does not cascade.   *)
DeleteMe_KeepsMessages(u) ==
    /\ trace' = [r \in Run |-> IF Owner(r) = u /\ trace[r] # "none"
                               THEN "erased" ELSE trace[r]]
    /\ erased' = erased \cup {u}
    /\ doomed' = {r \in Run : IF Owner(r) = u THEN run[r].pc \in Handler \cup Stream
                                              ELSE r \in doomed}
    /\ UNCHANGED <<run, stop, reg, msgs, ending, called, spent>>

(* DELETE /v1/me: one transaction over the rows that exist now.            *)
DeleteMe(u) ==
    /\ trace' = [r \in Run |-> IF Owner(r) = u /\ trace[r] # "none"
                               THEN "erased" ELSE trace[r]]
    /\ msgs' = {m \in msgs : Owner(m[1]) # u}
    /\ erased' = erased \cup {u}
    /\ doomed' = {r \in Run : IF Owner(r) = u THEN run[r].pc \in Handler \cup Stream
                                              ELSE r \in doomed}
    /\ UNCHANGED <<run, stop, reg, ending, called, spent>>

-----------------------------------------------------------------------------
HandlerStep(r) == OpenTrace(r) \/ RecordHuman(r) \/ Reject(r) \/ Register(r)

StreamStep(r) ==
    \/ StartStream(r) \/ (\E k \in Event : Emit(r, k)) \/ StopAtEvent(r)
    \/ BeginSend(r) \/ SkipSend(r) \/ Sent(r)
    \/ AgentEnds(r) \/ AgentInterrupts(r) \/ AgentRaises(r)
    \/ AppendAnswer(r) \/ Complete(r) \/ TailFails(r)
    \/ ErrorFrameDone(r) \/ CloseTrace(r) \/ CloseFails(r)
    \/ TearDown(r) \/ Detach(r) \/ Abandon(r) \/ NeverStart(r)

ClientStep(r) == Receive(r) \/ Preempt(r) \/ Disconnect(r)

Next ==
    \/ \E r \in Run : ClientStep(r) \/ HandlerStep(r) \/ StreamStep(r)
                      \/ EndInBackground(r)
    \/ \E u \in User : Cancel(u)
    \/ \E u \in Leaver : DeleteMe(u)
    \/ Crash

Spec == Init /\ [][Next]_vars

(* The event loop keeps running a handler and its generator, the agent     *)
(* yields, ends or raises, and a frame is either taken by the client or    *)
(* its connection is found dead; clients and crashes owe nothing.          *)
Fairness == \A r \in Run : /\ WF_vars(HandlerStep(r) \/ StreamStep(r))
                           /\ WF_vars(EndInBackground(r))

FairSpec == Spec /\ Fairness

-----------------------------------------------------------------------------
Live(r) == run[r].pc \in Stream

(* The registry never holds the event of a run that is over, except of one *)
(* whose generator was never started: no entry outlives its run.           *)
RegistryHoldsLive ==
    \A t \in Turn : reg[t] # NoRun =>
        /\ TurnOf[reg[t]] = t
        /\ Live(reg[t]) \/ run[reg[t]].exit = "unstarted"

(* A streaming run that never shared its run_id with another live run can  *)
(* be cancelled, until the moment it is over.                              *)
SoleRunIsCancellable ==
    \A r \in Run : (Live(r) /\ ~run[r].shared) => reg[TurnOf[r]] = r

(* The ends of an exchange that leave its trace row "running" for good.    *)
Lossy == {"rejected", "unstarted", "abandoned", "unrecorded", "crashed"}

(* A trace whose exchange is over is left "running" only by a crash, a     *)
(* store failure, a generator that was never started or was closed at a    *)
(* yield, or for the moment in which its background task is still to run.  *)
LeftRunningOnlyIf ==
    \A r \in Run : (At(r, "done") /\ trace[r] = "running") =>
        run[r].exit \in Lossy \/ Ending(r)

(* A completed exchange whose agent answered has its answer in the log,    *)
(* and it is the whole answer also for a client that left half-way.        *)
CompletedIsRecorded ==
    \A r \in Run : (trace[r] = "completed" /\ Answered(r)) => <<r, "ai">> \in msgs

(* After the cancel event is set at most the one frame that was already    *)
(* past the check goes out, and after it only the report of an error: a    *)
(* run that raises instead of yielding is not seen to be cancelled.        *)
LateFrames == \A r \in Run : run[r].late <= IF run[r].verdict = "error" THEN 2 ELSE 1

(* An answer without the human message of its exchange in the log comes    *)
(* from a follow-up, or from a run that outlived the deletion of its user. *)
AnswerFollowsQuestion ==
    \A r \in Run : (<<r, "ai">> \in msgs /\ <<r, "human">> \notin msgs) =>
        run[r].last = "tool" \/ trace[r] = "erased"

(* Whatever the tables still hold of a deleted user, who has not come back *)
(* since, was written by a request that was in flight at the deletion.     *)
ResidueIsInFlight ==
    \A r \in Run :
        (Owner(r) \in erased /\ (\/ trace[r] \notin {"none", "erased"}
                                 \/ \E role \in {"human", "ai"} : <<r, role>> \in msgs))
            => r \in doomed

(* Every exchange that reaches the agent comes to an end: an answer, an    *)
(* error, a cancellation or a client that is gone always ends the stream.  *)
StreamsEnd == \A r \in Run : Live(r) ~> At(r, "done")

(* No trace stays open: each one that was opened is closed in the end, by  *)
(* the generator or by a background task, unless its end was a lossy one.  *)
TracesClose ==
    \A r \in Run : trace[r] = "running" ~>
                       (trace[r] # "running" \/ run[r].exit \in Lossy)

(* The rows of the traces table follow the abstract life of a trace.       *)
Lifecycle == INSTANCE TraceLifecycle
ImplementsLifecycle == Lifecycle!Spec

-----------------------------------------------------------------------------
(* A claim of the documentation that the code does not keep.               *)

(* "Cancels any in-flight run for the caller on the same worker process."  *)
CancelReachesAll ==
    [][\A u \in User : Cancel(u) =>
          \A r \in Run : (Live(r) /\ Owner(r) = u) => stop'[r]]_vars
=============================================================================
