--------------------------- MODULE RequestsProofs ---------------------------
(***************************************************************************)
(* What requests do to each other, for any exchanges, turns, users, keys,  *)
(* widgets and conversations and any bounds.  First the life of /v1/query  *)
(* exchanges in QueryRun.tla: an inductive invariant, the traces they      *)
(* leave, the registry, and the abstract lifecycle that they implement;    *)
(* then their past - the frames sent after a cancellation, the question    *)
(* before its answer, the deletion of a user.  Then the keys and users of  *)
(* Accounts.tla; the data of widgets in WidgetData.tla, where chats and    *)
(* tables of any length are read by folds; and all as parts of Requests.   *)
(***************************************************************************)
EXTENDS Requests, FiniteSetTheorems, SequenceTheorems, TLAPS

-----------------------------------------------------------------------------
(* The exchanges, one by one.                                              *)

(* What is known of one exchange between any two steps.                    *)
RunInv(r) ==
    /\ ~At(r, "done") => run[r].exit = "none"
    /\ run[r].pc \in {"idle", "admitted"} => trace[r] = "none"
    /\ run[r].pc \in {"opened", "recorded"} \cup Stream => trace[r] # "none"
    /\ run[r].pc \in {"opened", "recorded"} \cup (Stream \ {"closing"}) =>
           trace[r] \in {"running", "erased"}
    /\ At(r, "closing") =>
           \/ trace[r] \in {"running", "erased"}
           \/ trace[r] = "completed" /\ run[r].verdict = "cancelled"
    /\ run[r].pc \in {"failing", "closing"} => run[r].verdict \in Final \ {"completed"}
    /\ At(r, "completing") /\ Answered(r) /\ trace[r] # "erased" =>
           <<r, "ai">> \in msgs
    /\ trace[r] = "completed" /\ Answered(r) => <<r, "ai">> \in msgs
    /\ At(r, "done") /\ trace[r] = "running" => run[r].exit \in Lossy \/ Ending(r)

(* An end_trace that outlives its exchange is the only one of its trace.   *)
EndingInv(r) ==
    \A s \in Status : <<r, s>> \in ending =>
        /\ At(r, "done") /\ s \in Final \ {"completed"}
        /\ run[r].exit # "unstarted"
        /\ \/ trace[r] \in {"running", "erased"}
           \/ trace[r] = "completed" /\ s = "cancelled"
        /\ \A z \in Status : <<r, z>> \in ending => z = s

(* Two live exchanges of one turn know of each other.                      *)
SharedInv ==
    \A q, r \in Run :
        (q # r /\ TurnOf[q] = TurnOf[r] /\ Live(q) /\ Live(r)) => run[r].shared

(* The inductive invariant.                                                *)
IInv ==
    /\ TypeOK
    /\ \A r \in Run : RunInv(r) /\ EndingInv(r)
    /\ RegistryHoldsLive
    /\ SharedInv
    /\ SoleRunIsCancellable

-----------------------------------------------------------------------------
(* A record of RunState stays one when a field gets a value of its type.   *)
LEMMA Put ==
    ASSUME NEW rec \in RunState
    PROVE  /\ \A x \in PC : [rec EXCEPT !.pc = x] \in RunState
           /\ \A x \in BOOLEAN : [rec EXCEPT !.up = x] \in RunState
           /\ \A x \in {"human", "tool"} : [rec EXCEPT !.last = x] \in RunState
           /\ \A x \in {"working", "answered", "over"} :
                  [rec EXCEPT !.phase = x] \in RunState
           /\ \A x \in 0..MaxEvents : [rec EXCEPT !.budget = x] \in RunState
           /\ \A x \in Event : [rec EXCEPT !.ev = x] \in RunState
           /\ \A x \in BOOLEAN : [rec EXCEPT !.gone = x] \in RunState
           /\ \A x \in Status : [rec EXCEPT !.verdict = x] \in RunState
           /\ \A x \in 0..3 : [rec EXCEPT !.late = x] \in RunState
           /\ \A x \in BOOLEAN : [rec EXCEPT !.shared = x] \in RunState
           /\ \A x \in Exit : [rec EXCEPT !.exit = x] \in RunState
  <1>1. ASSUME NEW x \in PC PROVE [rec EXCEPT !.pc = x] \in RunState
    BY DEF RunState
  <1>2. ASSUME NEW x \in BOOLEAN PROVE [rec EXCEPT !.up = x] \in RunState
    BY DEF RunState
  <1>3. ASSUME NEW x \in {"human", "tool"} PROVE [rec EXCEPT !.last = x] \in RunState
    BY DEF RunState
  <1>4. ASSUME NEW x \in {"working", "answered", "over"} PROVE [rec EXCEPT !.phase = x] \in RunState
    BY DEF RunState
  <1>5. ASSUME NEW x \in 0..MaxEvents PROVE [rec EXCEPT !.budget = x] \in RunState
    BY DEF RunState
  <1>6. ASSUME NEW x \in Event PROVE [rec EXCEPT !.ev = x] \in RunState
    BY DEF RunState
  <1>7. ASSUME NEW x \in BOOLEAN PROVE [rec EXCEPT !.gone = x] \in RunState
    BY DEF RunState
  <1>8. ASSUME NEW x \in Status PROVE [rec EXCEPT !.verdict = x] \in RunState
    BY DEF RunState
  <1>9. ASSUME NEW x \in 0..3 PROVE [rec EXCEPT !.late = x] \in RunState
    BY DEF RunState
  <1>10. ASSUME NEW x \in BOOLEAN PROVE [rec EXCEPT !.shared = x] \in RunState
    BY DEF RunState
  <1>11. ASSUME NEW x \in Exit PROVE [rec EXCEPT !.exit = x] \in RunState
    BY DEF RunState
  <1> QED
    BY <1>1, <1>2, <1>3, <1>4, <1>5, <1>6,
       <1>7, <1>8, <1>9, <1>10, <1>11

(* The combinations of fields that the steps write together.               *)
LEMMA PutTogether ==
    ASSUME NEW rec \in RunState, NEW p \in PC
    PROVE  /\ \A x \in {"human", "tool"} :
                  [rec EXCEPT !.pc = p, !.last = x] \in RunState
           /\ \A x \in BOOLEAN : [rec EXCEPT !.pc = p, !.shared = x] \in RunState
           /\ \A x \in Status : [rec EXCEPT !.pc = p, !.verdict = x] \in RunState
           /\ \A x \in 0..3 : [rec EXCEPT !.pc = p, !.late = x] \in RunState
           /\ \A x \in Status, l \in 0..3 :
                  [rec EXCEPT !.pc = p, !.verdict = x, !.late = l] \in RunState
           /\ \A x \in Event : [rec EXCEPT !.pc = p, !.ev = x] \in RunState
           /\ \A e \in Event, f \in {"working", "answered", "over"}, b \in 0..MaxEvents :
                  [rec EXCEPT !.pc = p, !.ev = e, !.phase = f, !.budget = b]
                      \in RunState
  <1>0. [rec EXCEPT !.pc = p] \in RunState
    BY Put
  <1>1. ASSUME NEW x \in {"human", "tool"}
        PROVE  [rec EXCEPT !.pc = p, !.last = x] \in RunState
    <2>1. [rec EXCEPT !.pc = p, !.last = x] = [[rec EXCEPT !.pc = p] EXCEPT !.last = x]
      BY Zenon
    <2> QED
      BY <1>0, <2>1, Put
  <1>2. ASSUME NEW x \in BOOLEAN
        PROVE  [rec EXCEPT !.pc = p, !.shared = x] \in RunState
    <2>1. [rec EXCEPT !.pc = p, !.shared = x] = [[rec EXCEPT !.pc = p] EXCEPT !.shared = x]
      BY Zenon
    <2> QED
      BY <1>0, <2>1, Put
  <1>3. ASSUME NEW x \in Status
        PROVE  [rec EXCEPT !.pc = p, !.verdict = x] \in RunState
    <2>1. [rec EXCEPT !.pc = p, !.verdict = x] = [[rec EXCEPT !.pc = p] EXCEPT !.verdict = x]
      BY Zenon
    <2> QED
      BY <1>0, <2>1, Put
  <1>4. ASSUME NEW x \in 0..3
        PROVE  [rec EXCEPT !.pc = p, !.late = x] \in RunState
    <2>1. [rec EXCEPT !.pc = p, !.late = x] = [[rec EXCEPT !.pc = p] EXCEPT !.late = x]
      BY Zenon
    <2> QED
      BY <1>0, <2>1, Put
  <1>5. ASSUME NEW x \in Event
        PROVE  [rec EXCEPT !.pc = p, !.ev = x] \in RunState
    <2>1. [rec EXCEPT !.pc = p, !.ev = x] = [[rec EXCEPT !.pc = p] EXCEPT !.ev = x]
      BY Zenon
    <2> QED
      BY <1>0, <2>1, Put
  <1>6. ASSUME NEW e \in Event, NEW f \in {"working", "answered", "over"},
               NEW b \in 0..MaxEvents
        PROVE  [rec EXCEPT !.pc = p, !.ev = e, !.phase = f, !.budget = b] \in RunState
    <2>1. [rec EXCEPT !.pc = p, !.ev = e] \in RunState
      BY <1>5
    <2>2. [[rec EXCEPT !.pc = p, !.ev = e] EXCEPT !.phase = f] \in RunState
      BY <2>1, Put
    <2>3. [[[rec EXCEPT !.pc = p, !.ev = e] EXCEPT !.phase = f] EXCEPT !.budget = b]
              \in RunState
      BY <2>2, Put
    <2>4. [rec EXCEPT !.pc = p, !.ev = e, !.phase = f, !.budget = b]
              = [[[rec EXCEPT !.pc = p, !.ev = e] EXCEPT !.phase = f] EXCEPT !.budget = b]
      BY Zenon
    <2> QED
      BY <2>3, <2>4
  <1>7. ASSUME NEW x \in Status, NEW l \in 0..3
        PROVE  [rec EXCEPT !.pc = p, !.verdict = x, !.late = l] \in RunState
    <2>1. [rec EXCEPT !.pc = p, !.verdict = x, !.late = l]
              = [[rec EXCEPT !.pc = p, !.verdict = x] EXCEPT !.late = l]
      BY Zenon
    <2> QED
      BY <1>3, <2>1, Put
  <1> QED
    BY <1>1, <1>2, <1>3, <1>4, <1>5, <1>6, <1>7

(* What is left of an exchange that is over is a RunState.                 *)
LEMMA OverType ==
    ASSUME TypeOK, NEW r \in Run, NEW why \in Exit
    PROVE  Over(r, why) \in RunState
  <1>1. run[r] \in RunState
    BY DEF TypeOK
  <1>3. /\ run[r].last \in {"human", "tool"}
        /\ 0 \in 0..MaxEvents
        /\ why \in Exit
        /\ "done" \in PC /\ "status" \in Event /\ "none" \in Status
    BY <1>1, QueryRunAssumption DEF RunState, PC, Event, Status
  <1>4. ASSUME NEW f \in {"working", "over"}
        PROVE  Outside("done", run[r].last, f, 0, why) \in RunState
    BY <1>3 DEF RunState, Outside
  <1>5. CASE Answered(r)
    BY <1>4, <1>5 DEF Over
  <1>6. CASE ~Answered(r)
    BY <1>4, <1>6 DEF Over
  <1> QED
    BY <1>5, <1>6

(* What a step makes of the locals of a run keeps their types.             *)
LEMMA BecomeType ==
    ASSUME TypeOK, NEW r \in Run, NEW local \in RunState, Become(r, local)
    PROVE  run' \in [Run -> RunState]
  BY DEF TypeOK, Become

(* Moving the program counter keeps the type of run.                       *)
LEMMA GotoType ==
    ASSUME TypeOK, NEW r \in Run, NEW p \in PC, Goto(r, p)
    PROVE  run' \in [Run -> RunState]
  <1>1. run[r] \in RunState
    BY DEF TypeOK
  <1>2. [run[r] EXCEPT !.pc = p] \in RunState
    BY <1>1, Put
  <1> QED
    BY <1>2, BecomeType DEF Goto

(* So does setting out for end_trace with a verdict.                       *)
LEMMA CloseType ==
    ASSUME TypeOK, NEW r \in Run, NEW s \in Status, Close(r, s)
    PROVE  run' \in [Run -> RunState]
  <1>1. run[r] \in RunState
    BY DEF TypeOK
  <1>2. [run[r] EXCEPT !.pc = "closing", !.verdict = s] \in RunState
    BY <1>1, PutTogether DEF PC, Stream
  <1> QED
    BY <1>2, BecomeType DEF Close

(* The count of late frames stays small.                                   *)
LEMMA OneMoreType ==
    ASSUME TypeOK, NEW r \in Run
    PROVE  OneMore(r) \in 0..3
  BY DEF TypeOK, RunState, OneMore

(* So does the exception handler, with an error frame or without.          *)
LEMMA FailType ==
    ASSUME TypeOK, NEW r \in Run, Fail(r)
    PROVE  run' \in [Run -> RunState]
  <1>1. run[r] \in RunState
    BY DEF TypeOK
  <1>2. /\ [run[r] EXCEPT !.pc = "closing", !.verdict = "error"] \in RunState
        /\ [run[r] EXCEPT !.pc = "failing", !.verdict = "error", !.late = OneMore(r)] \in RunState
    BY <1>1, PutTogether, OneMoreType DEF PC, Stream, Status, Final
  <1>3. CASE run[r].gone
    BY <1>2, <1>3, BecomeType DEF Fail
  <1>4. CASE ~run[r].gone
    BY <1>2, <1>4, BecomeType DEF Fail
  <1> QED
    BY <1>3, <1>4

(* The generator's finally keeps the types of run and of the registry.     *)
LEMMA LeaveType ==
    ASSUME TypeOK, NEW r \in Run, NEW why \in Exit, Leave(r, why)
    PROVE  run' \in [Run -> RunState] /\ reg' \in [Turn -> Run \cup {NoRun}]
  <1>1. run' \in [Run -> RunState]
    BY OverType, BecomeType DEF Leave
  <1> QED
    BY <1>1 DEF Leave, TypeOK

(* end_trace writes only statuses of the schema.                           *)
LEMMA EndTraceType ==
    ASSUME TypeOK, NEW r \in Run, NEW s \in Status, EndTrace(r, s)
    PROVE  trace' \in [Run -> Status]
  BY DEF EndTrace, TypeOK

(* What follows an event keeps the types of what it writes.                *)
LEMMA AfterEventType ==
    ASSUME TypeOK, NEW r \in Run, NEW local \in RunState, AfterEvent(r, local)
    PROVE  /\ run' \in [Run -> RunState]
           /\ reg' \in [Turn -> Run \cup {NoRun}]
           /\ ending' \in SUBSET (Run \X Status)
  <1>1. CASE run[r].ev = "call"
    <2>1. Leave(r, "dispatched") /\ ending' = ending \cup {<<r, "dispatched">>}
      BY <1>1 DEF AfterEvent
    <2>2. ending' \in SUBSET (Run \X Status)
      BY <2>1 DEF TypeOK, Status, Final
    <2> QED
      BY <2>1, <2>2, LeaveType DEF Exit
  <1>2. CASE run[r].ev # "call"
    <2>1. [local EXCEPT !.pc = "pulling", !.ev = "status"] \in RunState
      BY PutTogether DEF PC, Stream, Event
    <2> QED
      BY <1>2, <2>1, BecomeType DEF AfterEvent, TypeOK
  <1> QED
    BY <1>1, <1>2

(* The locals of a run that has just received an event are a RunState.     *)
LEMMA PulledType ==
    ASSUME TypeOK, NEW r \in Run, NEW k \in Emits(r)
    PROVE  Pulled(r, k) \in RunState
  <1>1. run[r] \in RunState
    BY DEF TypeOK
  <1>2. PICK f \in {"working", "answered", "over"} :
             f = CASE k = "answer" -> "answered"
                   [] k = "extra"  -> "over"
                   [] OTHER        -> "working"
    OBVIOUS
  <1>3. k \in Event /\ (k \in {"status", "call"} => run[r].budget > 0)
    BY <1>1 DEF Emits, Event, RunState
  <1>4. PICK b \in 0..MaxEvents :
             b = IF k \in {"status", "call"} THEN run[r].budget - 1 ELSE run[r].budget
    BY <1>1, <1>3, QueryRunAssumption DEF RunState
  <1> QED
    BY <1>1, <1>2, <1>3, <1>4, PutTogether DEF Pulled, PC, Stream

(* Every step keeps every variable within its type.                        *)
LEMMA TypeStep == TypeOK /\ [Next]_vars => TypeOK'
  <1> SUFFICES ASSUME TypeOK, [Next]_vars PROVE TypeOK'
    OBVIOUS
  <1>t. ASSUME NEW r \in Run PROVE run[r] \in RunState
    BY DEF TypeOK
  <1>1. ASSUME NEW r \in Run, Receive(r) PROVE TypeOK'
    <2>1. \A role \in {"human", "tool"} :
              [run[r] EXCEPT !.pc = "admitted", !.last = role] \in RunState
      BY <1>t, PutTogether DEF PC, Handler
    <2>2. run' \in [Run -> RunState]
      BY <1>1, <2>1, BecomeType DEF Receive
    <2> QED
      BY <1>1, <2>2 DEF Receive, TypeOK, store, ghost, spent
  <1>2. ASSUME NEW r \in Run, Preempt(r) PROVE TypeOK'
    <2>1. run' \in [Run -> RunState]
      BY <1>2, OverType, BecomeType DEF Preempt, Exit
    <2> QED
      BY <1>2, <2>1 DEF Preempt, TypeOK, store, ghost, spent
  <1>3. ASSUME NEW r \in Run, OpenTrace(r) PROVE TypeOK'
    <2>1. run' \in [Run -> RunState]
      BY <1>3, GotoType DEF OpenTrace, PC, Handler
    <2> QED
      BY <1>3, <2>1 DEF OpenTrace, Status, TypeOK, store, ghost, spent
  <1>4. ASSUME NEW r \in Run, RecordHuman(r) PROVE TypeOK'
    <2>1. run' \in [Run -> RunState]
      BY <1>4, GotoType DEF RecordHuman, PC, Handler
    <2> QED
      BY <1>4, <2>1 DEF RecordHuman, TypeOK, store, ghost, spent
  <1>5. ASSUME NEW r \in Run, Reject(r) PROVE TypeOK'
    <2>1. run' \in [Run -> RunState]
      BY <1>5, OverType, BecomeType DEF Reject, Exit
    <2> QED
      BY <1>5, <2>1, QueryRunAssumption DEF Reject, TypeOK, store, ghost, spent
  <1>6. ASSUME NEW r \in Run, Register(r) PROVE TypeOK'
    <2>1. \A q \in Run : /\ [run[q] EXCEPT !.shared = TRUE] \in RunState
                        /\ \A b \in BOOLEAN :
                              [run[q] EXCEPT !.pc = "registered", !.shared = b] \in RunState
      BY <1>t, Put, PutTogether DEF PC, Stream
    <2>2. run' \in [Run -> RunState]
      BY <1>6, <1>t, <2>1 DEF Register, Registered, Rivals
    <2> QED
      BY <1>6, <2>2, QueryRunAssumption DEF Register, TypeOK, store, ghost, spent
  <1>7. ASSUME NEW r \in Run, StartStream(r) PROVE TypeOK'
    <2>1. run' \in [Run -> RunState]
      BY <1>7, GotoType DEF StartStream, PC, Stream
    <2> QED
      BY <1>7, <2>1 DEF StartStream, TypeOK, store, ghost, spent
  <1>8. ASSUME NEW r \in Run, NEW k \in Event, Emit(r, k) PROVE TypeOK'
    <2>1. run' \in [Run -> RunState]
      BY <1>8, PulledType, BecomeType DEF Emit
    <2> QED
      BY <1>8, <2>1 DEF Emit, TypeOK, store, ghost, spent
  <1>9. ASSUME NEW r \in Run, StopAtEvent(r) PROVE TypeOK'
    <2>1. run' \in [Run -> RunState]
      BY <1>9, CloseType DEF StopAtEvent, Status, Final
    <2> QED
      BY <1>9, <2>1 DEF StopAtEvent, TypeOK, store, ghost, spent
  <1>10. ASSUME NEW r \in Run, BeginSend(r) PROVE TypeOK'
    <2>3. Become(r, [run[r] EXCEPT !.pc = "sending", !.late = OneMore(r)])
      BY <1>10 DEF BeginSend
    <2>4. [run[r] EXCEPT !.pc = "sending", !.late = OneMore(r)] \in RunState
      BY <1>t, OneMoreType, PutTogether DEF PC, Stream
    <2>5. run' \in [Run -> RunState]
      BY <2>3, <2>4, BecomeType
    <2> QED
      BY <1>10, <2>5 DEF BeginSend, TypeOK, store, ghost, spent
  <1>11. ASSUME NEW r \in Run, SkipSend(r) PROVE TypeOK'
    <2>1. [run[r] EXCEPT !.gone = TRUE] \in RunState
      BY <1>t, Put
    <2>2. /\ run' \in [Run -> RunState]
          /\ reg' \in [Turn -> Run \cup {NoRun}]
          /\ ending' \in SUBSET (Run \X Status)
      BY <1>11, <2>1, AfterEventType DEF SkipSend
    <2> QED
      BY <1>11, <2>2 DEF SkipSend, TypeOK, store, ghost, spent
  <1>12. ASSUME NEW r \in Run, Sent(r) PROVE TypeOK'
    <2>1. /\ run' \in [Run -> RunState]
          /\ reg' \in [Turn -> Run \cup {NoRun}]
          /\ ending' \in SUBSET (Run \X Status)
      BY <1>12, <1>t, AfterEventType DEF Sent
    <2> QED
      BY <1>12, <2>1 DEF Sent, TypeOK, store, ghost, spent
  <1>13. ASSUME NEW r \in Run, AgentEnds(r) PROVE TypeOK'
    <2>1. run' \in [Run -> RunState]
      BY <1>13, GotoType DEF AgentEnds, PC, Stream
    <2> QED
      BY <1>13, <2>1 DEF AgentEnds, TypeOK, store, ghost, spent
  <1>14. ASSUME NEW r \in Run, AgentInterrupts(r) PROVE TypeOK'
    <2>1. run' \in [Run -> RunState]
      BY <1>14, CloseType DEF AgentInterrupts, Status, Final
    <2> QED
      BY <1>14, <2>1 DEF AgentInterrupts, TypeOK, store, ghost, spent
  <1>15. ASSUME NEW r \in Run, AgentRaises(r) PROVE TypeOK'
    <2>1. run' \in [Run -> RunState]
      BY <1>15, FailType DEF AgentRaises
    <2> QED
      BY <1>15, <2>1 DEF AgentRaises, TypeOK, store, ghost, spent
  <1>16. ASSUME NEW r \in Run, AppendAnswer(r) PROVE TypeOK'
    <2>1. run' \in [Run -> RunState]
      BY <1>16, GotoType DEF AppendAnswer, PC, Stream
    <2> QED
      BY <1>16, <2>1 DEF AppendAnswer, TypeOK, store, ghost, spent
  <1>17. ASSUME NEW r \in Run, Complete(r) PROVE TypeOK'
    <2>1. run' \in [Run -> RunState] /\ reg' \in [Turn -> Run \cup {NoRun}]
      BY <1>17, LeaveType DEF Complete, Exit
    <2>2. trace' \in [Run -> Status]
      BY <1>17, <1>t, EndTraceType DEF Complete, Status, Final
    <2> QED
      BY <1>17, <2>1, <2>2 DEF Complete, TypeOK, store, ghost, spent
  <1>18. ASSUME NEW r \in Run, TailFails(r) PROVE TypeOK'
    <2>1. run' \in [Run -> RunState]
      BY <1>18, FailType DEF TailFails
    <2> QED
      BY <1>18, <2>1, QueryRunAssumption DEF TailFails, TypeOK, store, ghost, spent
  <1>19. ASSUME NEW r \in Run, ErrorFrameDone(r) PROVE TypeOK'
    <2>1. run' \in [Run -> RunState]
      BY <1>19, GotoType DEF ErrorFrameDone, PC, Stream
    <2> QED
      BY <1>19, <2>1 DEF ErrorFrameDone, TypeOK, store, ghost, spent
  <1>20. ASSUME NEW r \in Run, CloseTrace(r) PROVE TypeOK'
    <2>1. run' \in [Run -> RunState] /\ reg' \in [Turn -> Run \cup {NoRun}]
      BY <1>20, LeaveType DEF CloseTrace, Exit
    <2>2. trace' \in [Run -> Status]
      BY <1>20, <1>t, EndTraceType DEF CloseTrace, RunState
    <2> QED
      BY <1>20, <2>1, <2>2 DEF CloseTrace, TypeOK, store, ghost, spent
  <1>21. ASSUME NEW r \in Run, CloseFails(r) PROVE TypeOK'
    <2>1. run' \in [Run -> RunState] /\ reg' \in [Turn -> Run \cup {NoRun}]
      BY <1>21, LeaveType DEF CloseFails, Exit
    <2> QED
      BY <1>21, <2>1, QueryRunAssumption DEF CloseFails, TypeOK, store, ghost, spent
  <1>22. ASSUME NEW r \in Run, EndInBackground(r) PROVE TypeOK'
    <2>1. PICK s \in Status : \/ EndTrace(r, s) /\ UNCHANGED run
                             \/ /\ Become(r, [run[r] EXCEPT !.exit = "unrecorded"])
                                /\ UNCHANGED trace
      BY <1>22 DEF EndInBackground
    <2>2. trace' \in [Run -> Status]
      BY <2>1, EndTraceType DEF TypeOK, Status
    <2>3. [run[r] EXCEPT !.exit = "unrecorded"] \in RunState
      BY <1>t, Put DEF Exit
    <2>4. run' \in [Run -> RunState]
      BY <2>1, <2>3, BecomeType DEF TypeOK
    <2>5. ending' \in SUBSET ending
      BY <1>22 DEF EndInBackground
    <2>6. faults' \in 0..MaxFaults
      BY <1>22, QueryRunAssumption DEF EndInBackground, TypeOK
    <2> QED
      BY <1>22, <2>2, <2>4, <2>5, <2>6 DEF EndInBackground, TypeOK, store, ghost, spent
  <1>23. ASSUME NEW r \in Run, Disconnect(r) PROVE TypeOK'
    <2>1. [run[r] EXCEPT !.up = FALSE] \in RunState
      BY <1>t, Put
    <2>2. run' \in [Run -> RunState]
      BY <1>23, <2>1, BecomeType DEF Disconnect
    <2> QED
      BY <1>23, <2>2 DEF Disconnect, TypeOK, store, ghost, spent
  <1>24. ASSUME NEW r \in Run, TearDown(r) PROVE TypeOK'
    <2>1. run' \in [Run -> RunState]
      BY <1>24, CloseType DEF TearDown, Status, Final
    <2>2. trace' \in [Run -> Status]
      BY <1>24, EndTraceType DEF TearDown, TypeOK, store, Status, Final
    <2>3. msgs' \in SUBSET (Run \X {"human", "ai"})
      BY <1>24 DEF TearDown, TypeOK, store
    <2> QED
      BY <1>24, <2>1, <2>2, <2>3 DEF TearDown, TypeOK, store, ghost, spent
  <1>25. ASSUME NEW r \in Run, Detach(r) PROVE TypeOK'
    <2>1. run' \in [Run -> RunState] /\ reg' \in [Turn -> Run \cup {NoRun}]
      BY <1>25, LeaveType DEF Detach, Exit
    <2>2. run[r].verdict \in Status
      BY <1>t DEF RunState
    <2> QED
      BY <1>25, <2>1, <2>2 DEF Detach, TypeOK, store, ghost, spent
  <1>26. ASSUME NEW r \in Run, Abandon(r) PROVE TypeOK'
    <2>1. run' \in [Run -> RunState] /\ reg' \in [Turn -> Run \cup {NoRun}]
      BY <1>26, LeaveType DEF Abandon, Exit
    <2> QED
      BY <1>26, <2>1 DEF Abandon, TypeOK, store, ghost, spent
  <1>27. ASSUME NEW r \in Run, NeverStart(r) PROVE TypeOK'
    <2>1. run' \in [Run -> RunState]
      BY <1>27, OverType, BecomeType DEF NeverStart, Exit
    <2> QED
      BY <1>27, <2>1 DEF NeverStart, TypeOK, store, ghost, spent
  <1>28. ASSUME NEW u \in User, Cancel(u) PROVE TypeOK'
    BY <1>28 DEF Cancel, TypeOK, store, ghost, spent
  <1>29. ASSUME NEW u \in Leaver, DeleteMe(u) PROVE TypeOK'
    BY <1>29, QueryRunAssumption DEF DeleteMe, Status, TypeOK, store, ghost, spent
  <1>30. ASSUME Crash PROVE TypeOK'
    <2>1. run' \in [Run -> RunState]
      BY <1>30, <1>t, OverType DEF Crash, Exit
    <2> QED
      BY <1>30, <2>1, QueryRunAssumption DEF Crash, TypeOK, store, ghost, spent
  <1>31. CASE UNCHANGED vars
    BY <1>31 DEF vars, TypeOK, store, ghost, spent
  <1> QED
    BY <1>1, <1>2, <1>3, <1>4, <1>5, <1>6, <1>7, <1>8, <1>9,
       <1>10, <1>11, <1>12, <1>13, <1>14, <1>15, <1>16, <1>17, <1>18,
       <1>19, <1>20, <1>21, <1>22, <1>23, <1>24, <1>25, <1>26, <1>27,
       <1>28, <1>29, <1>30, <1>31
       DEF Next, ClientStep, HandlerStep, StreamStep

(* A step that leaves everything that concerns the exchange q as it was.   *)
Kept(q) ==
    /\ run'[q].pc = run[q].pc /\ run'[q].verdict = run[q].verdict
    /\ run'[q].phase = run[q].phase /\ run'[q].exit = run[q].exit
    /\ trace'[q] = trace[q]
    /\ <<q, "ai">> \in msgs => <<q, "ai">> \in msgs'
    /\ \A s \in Status : <<q, s>> \in ending' <=> <<q, s>> \in ending

(* Such a step keeps what is known of q.                                   *)
LEMMA Untouched ==
    ASSUME NEW q \in Run, RunInv(q), EndingInv(q), Kept(q)
    PROVE  RunInv(q)' /\ EndingInv(q)'
  BY DEF Kept, RunInv, EndingInv, Ending, At, Answered

(* Every step keeps RunInv and EndingInv of every exchange.                *)
LEMMA RunStep ==
    ASSUME TypeOK, [Next]_vars, \A r \in Run : RunInv(r) /\ EndingInv(r),
           NEW q \in Run
    PROVE  RunInv(q)' /\ EndingInv(q)'
  <1>i. RunInv(q) /\ EndingInv(q)
    OBVIOUS
  <1>t. /\ run \in [Run -> RunState]
        /\ trace \in [Run -> Status]
        /\ run[q] \in RunState
    BY DEF TypeOK
  <1> USE DEF store, Handler, Stream, At, Answered, Final
  <1>1. ASSUME NEW r \in Run, Receive(r) PROVE RunInv(q)' /\ EndingInv(q)'
    <2>1. CASE q # r
      <3>1. Kept(q)
        BY <1>1, <2>1, <1>t DEF Receive, Become, Kept
      <3> QED
        BY <1>i, <3>1, Untouched
    <2>2. CASE q = r
      BY <1>1, <2>2, <1>i, <1>t
         DEF Receive, Become, RunInv, EndingInv, Ending, Lossy, RunState
    <2> QED
      BY <2>1, <2>2
  <1>2. ASSUME NEW r \in Run, Preempt(r) PROVE RunInv(q)' /\ EndingInv(q)'
    <2>1. CASE q # r
      <3>1. Kept(q)
        BY <1>2, <2>1, <1>t DEF Preempt, Become, Over, Outside, Kept
      <3> QED
        BY <1>i, <3>1, Untouched
    <2>2. CASE q = r
      BY <1>2, <2>2, <1>i, <1>t
         DEF Preempt, Become, Over, Outside, RunInv, EndingInv, Ending, Lossy, RunState
    <2> QED
      BY <2>1, <2>2
  <1>3. ASSUME NEW r \in Run, OpenTrace(r) PROVE RunInv(q)' /\ EndingInv(q)'
    <2>1. CASE q # r
      <3>1. Kept(q)
        BY <1>3, <2>1, <1>t DEF OpenTrace, Goto, Become, Kept
      <3> QED
        BY <1>i, <3>1, Untouched
    <2>2. CASE q = r
      BY <1>3, <2>2, <1>i, <1>t
         DEF OpenTrace, Goto, Become, RunInv, EndingInv, Ending, Lossy, RunState
    <2> QED
      BY <2>1, <2>2
  <1>4. ASSUME NEW r \in Run, RecordHuman(r) PROVE RunInv(q)' /\ EndingInv(q)'
    <2>1. CASE q # r
      <3>1. Kept(q)
        BY <1>4, <2>1, <1>t DEF RecordHuman, Goto, Become, Kept
      <3> QED
        BY <1>i, <3>1, Untouched
    <2>2. CASE q = r
      BY <1>4, <2>2, <1>i, <1>t
         DEF RecordHuman, Goto, Become, RunInv, EndingInv, Ending, Lossy, RunState
    <2> QED
      BY <2>1, <2>2
  <1>5. ASSUME NEW r \in Run, Reject(r) PROVE RunInv(q)' /\ EndingInv(q)'
    <2>1. CASE q # r
      <3>1. Kept(q)
        BY <1>5, <2>1, <1>t DEF Reject, Become, Over, Outside, Kept
      <3> QED
        BY <1>i, <3>1, Untouched
    <2>2. CASE q = r
      BY <1>5, <2>2, <1>i, <1>t
         DEF Reject, Become, Over, Outside, RunInv, EndingInv, Ending, Lossy, RunState
    <2> QED
      BY <2>1, <2>2
  <1>6. ASSUME NEW r \in Run, Register(r) PROVE RunInv(q)' /\ EndingInv(q)'
    <2>1. CASE q # r
      <3>1. run'[q] = run[q] \/ run'[q] = [run[q] EXCEPT !.shared = TRUE]
        BY <1>6, <2>1, <1>t DEF Register, Registered
      <3>2. Kept(q)
        BY <1>6, <3>1, <1>t DEF Register, RunState, Kept
      <3> QED
        BY <1>i, <3>2, Untouched
    <2>2. CASE q = r
      BY <1>6, <2>2, <1>i, <1>t
         DEF Register, Registered, RunInv, EndingInv, Ending, Lossy, RunState
    <2> QED
      BY <2>1, <2>2
  <1>7. ASSUME NEW r \in Run, StartStream(r) PROVE RunInv(q)' /\ EndingInv(q)'
    <2>1. CASE q # r
      <3>1. Kept(q)
        BY <1>7, <2>1, <1>t DEF StartStream, Goto, Become, Kept
      <3> QED
        BY <1>i, <3>1, Untouched
    <2>2. CASE q = r
      BY <1>7, <2>2, <1>i, <1>t
         DEF StartStream, Goto, Become, RunInv, EndingInv, Ending, Lossy, RunState
    <2> QED
      BY <2>1, <2>2
  <1>8. ASSUME NEW r \in Run, StopAtEvent(r) PROVE RunInv(q)' /\ EndingInv(q)'
    <2>1. CASE q # r
      <3>1. Kept(q)
        BY <1>8, <2>1, <1>t DEF StopAtEvent, Close, Become, Kept
      <3> QED
        BY <1>i, <3>1, Untouched
    <2>2. CASE q = r
      BY <1>8, <2>2, <1>i, <1>t
         DEF StopAtEvent, Close, Become, RunInv, EndingInv, Ending, Lossy, RunState
    <2> QED
      BY <2>1, <2>2
  <1>9. ASSUME NEW r \in Run, BeginSend(r) PROVE RunInv(q)' /\ EndingInv(q)'
    <2>1. CASE q # r
      <3>1. Kept(q)
        BY <1>9, <2>1, <1>t DEF BeginSend, Become, Kept
      <3> QED
        BY <1>i, <3>1, Untouched
    <2>2. CASE q = r
      BY <1>9, <2>2, <1>i, <1>t
         DEF BeginSend, Become, RunInv, EndingInv, Ending, Lossy, RunState
    <2> QED
      BY <2>1, <2>2
  <1>10. ASSUME NEW r \in Run, SkipSend(r) PROVE RunInv(q)' /\ EndingInv(q)'
    <2>1. CASE q # r
      <3>1. Kept(q)
        BY <1>10, <2>1, <1>t DEF SkipSend, AfterEvent, Leave, Become, Over, Outside, Kept
      <3> QED
        BY <1>i, <3>1, Untouched
    <2>2. CASE q = r
      <3>1. CASE run[r].ev = "call"
        <4>1. /\ run'[r].pc = "done" /\ run'[r].exit = "dispatched"
              /\ <<r, "dispatched">> \in ending'
              /\ \A s \in Status : <<r, s>> \in ending' => s = "dispatched"
          BY <1>10, <2>2, <3>1, <1>i, <1>t
             DEF SkipSend, AfterEvent, Leave, Become, Over, Outside, EndingInv
        <4>2. run'[r].phase # "working" => Answered(r)
          BY <1>10, <2>2, <3>1, <1>t
             DEF SkipSend, AfterEvent, Leave, Become, Over, Outside
        <4>3. trace'[r] \in {"running", "erased"} /\ "dispatched" \in Status
          BY <1>10, <2>2, <1>i DEF SkipSend, RunInv, Status
        <4> QED
          BY <2>2, <4>1, <4>2, <4>3 DEF RunInv, EndingInv, Ending
      <3>2. CASE run[r].ev # "call"
        <4>1. /\ run'[r].pc = "pulling" /\ run'[r].phase = run[r].phase
              /\ run'[r].exit = run[r].exit /\ UNCHANGED <<trace, msgs, ending>>
          <5> DEFINE local == [run[r] EXCEPT !.gone = TRUE]
          <5>1. /\ run' = [run EXCEPT ![r] = [local EXCEPT !.pc = "pulling", !.ev = "status"]]
                /\ UNCHANGED <<trace, msgs, ending>>
            BY <1>10, <3>2 DEF SkipSend, AfterEvent, Become
          <5>2. local \in RunState /\ local.phase = run[r].phase /\ local.exit = run[r].exit
            BY <2>2, <1>t DEF RunState
          <5> HIDE DEF local
          <5> QED
            BY <5>1, <5>2, <2>2, <1>t DEF RunState
        <4> QED
          BY <1>10, <2>2, <4>1, <1>i DEF SkipSend, RunInv, EndingInv, Ending
      <3> QED
        BY <3>1, <3>2
    <2> QED
      BY <2>1, <2>2
  <1>11. ASSUME NEW r \in Run, Sent(r) PROVE RunInv(q)' /\ EndingInv(q)'
    <2>1. CASE q # r
      <3>1. Kept(q)
        BY <1>11, <2>1, <1>t DEF Sent, AfterEvent, Leave, Become, Over, Outside, Kept
      <3> QED
        BY <1>i, <3>1, Untouched
    <2>2. CASE q = r
      <3>1. CASE run[r].ev = "call"
        <4>1. /\ run'[r].pc = "done" /\ run'[r].exit = "dispatched"
              /\ <<r, "dispatched">> \in ending'
              /\ \A s \in Status : <<r, s>> \in ending' => s = "dispatched"
          BY <1>11, <2>2, <3>1, <1>i, <1>t
             DEF Sent, AfterEvent, Leave, Become, Over, Outside, EndingInv
        <4>2. run'[r].phase # "working" => Answered(r)
          BY <1>11, <2>2, <3>1, <1>t
             DEF Sent, AfterEvent, Leave, Become, Over, Outside
        <4>3. trace'[r] \in {"running", "erased"} /\ "dispatched" \in Status
          BY <1>11, <2>2, <1>i DEF Sent, RunInv, Status
        <4> QED
          BY <2>2, <4>1, <4>2, <4>3 DEF RunInv, EndingInv, Ending
      <3>2. CASE run[r].ev # "call"
        <4>1. /\ run'[r].pc = "pulling" /\ run'[r].phase = run[r].phase
              /\ run'[r].exit = run[r].exit /\ UNCHANGED <<trace, msgs, ending>>
          <5> DEFINE local == run[r]
          <5>1. /\ run' = [run EXCEPT ![r] = [local EXCEPT !.pc = "pulling", !.ev = "status"]]
                /\ UNCHANGED <<trace, msgs, ending>>
            BY <1>11, <3>2 DEF Sent, AfterEvent, Become
          <5>2. local \in RunState /\ local.phase = run[r].phase /\ local.exit = run[r].exit
            BY <2>2, <1>t DEF RunState
          <5> HIDE DEF local
          <5> QED
            BY <5>1, <5>2, <2>2, <1>t DEF RunState
        <4> QED
          BY <1>11, <2>2, <4>1, <1>i DEF Sent, RunInv, EndingInv, Ending
      <3> QED
        BY <3>1, <3>2
    <2> QED
      BY <2>1, <2>2
  <1>12. ASSUME NEW r \in Run, AgentEnds(r) PROVE RunInv(q)' /\ EndingInv(q)'
    <2>1. CASE q # r
      <3>1. Kept(q)
        BY <1>12, <2>1, <1>t DEF AgentEnds, Goto, Become, Kept
      <3> QED
        BY <1>i, <3>1, Untouched
    <2>2. CASE q = r
      BY <1>12, <2>2, <1>i, <1>t
         DEF AgentEnds, Goto, Become, RunInv, EndingInv, Ending, Lossy, RunState
    <2> QED
      BY <2>1, <2>2
  <1>13. ASSUME NEW r \in Run, AgentInterrupts(r) PROVE RunInv(q)' /\ EndingInv(q)'
    <2>1. CASE q # r
      <3>1. Kept(q)
        BY <1>13, <2>1, <1>t DEF AgentInterrupts, Close, Become, Kept
      <3> QED
        BY <1>i, <3>1, Untouched
    <2>2. CASE q = r
      BY <1>13, <2>2, <1>i, <1>t
         DEF AgentInterrupts, Close, Become, RunInv, EndingInv, Ending, Lossy, RunState
    <2> QED
      BY <2>1, <2>2
  <1>14. ASSUME NEW r \in Run, AgentRaises(r) PROVE RunInv(q)' /\ EndingInv(q)'
    <2>1. CASE q # r
      <3>1. Kept(q)
        BY <1>14, <2>1, <1>t DEF AgentRaises, Fail, Become, Kept
      <3> QED
        BY <1>i, <3>1, Untouched
    <2>2. CASE q = r
      BY <1>14, <2>2, <1>i, <1>t
         DEF AgentRaises, Fail, Become, RunInv, EndingInv, Ending, Lossy, RunState
    <2> QED
      BY <2>1, <2>2
  <1>15. ASSUME NEW r \in Run, AppendAnswer(r) PROVE RunInv(q)' /\ EndingInv(q)'
    <2>1. CASE q # r
      <3>1. Kept(q)
        BY <1>15, <2>1, <1>t DEF AppendAnswer, Goto, Become, Kept
      <3> QED
        BY <1>i, <3>1, Untouched
    <2>2. CASE q = r
      BY <1>15, <2>2, <1>i, <1>t
         DEF AppendAnswer, Goto, Become, RunInv, EndingInv, Ending, Lossy, RunState
    <2> QED
      BY <2>1, <2>2
  <1>16. ASSUME NEW r \in Run, Complete(r) PROVE RunInv(q)' /\ EndingInv(q)'
    <2>1. CASE q # r
      <3>1. Kept(q)
        BY <1>16, <2>1, <1>t DEF Complete, EndTrace, Leave, Become, Over, Outside, Kept
      <3> QED
        BY <1>i, <3>1, Untouched
    <2>2. CASE q = r
      BY <1>16, <2>2, <1>i, <1>t
         DEF Complete, EndTrace, Leave, Become, Over, Outside, RunInv, EndingInv, Ending, Lossy, RunState
    <2> QED
      BY <2>1, <2>2
  <1>17. ASSUME NEW r \in Run, TailFails(r) PROVE RunInv(q)' /\ EndingInv(q)'
    <2>1. CASE q # r
      <3>1. Kept(q)
        BY <1>17, <2>1, <1>t DEF TailFails, Fail, Become, Kept
      <3> QED
        BY <1>i, <3>1, Untouched
    <2>2. CASE q = r
      BY <1>17, <2>2, <1>i, <1>t
         DEF TailFails, Fail, Become, RunInv, EndingInv, Ending, Lossy, RunState
    <2> QED
      BY <2>1, <2>2
  <1>18. ASSUME NEW r \in Run, ErrorFrameDone(r) PROVE RunInv(q)' /\ EndingInv(q)'
    <2>1. CASE q # r
      <3>1. Kept(q)
        BY <1>18, <2>1, <1>t DEF ErrorFrameDone, Goto, Become, Kept
      <3> QED
        BY <1>i, <3>1, Untouched
    <2>2. CASE q = r
      BY <1>18, <2>2, <1>i, <1>t
         DEF ErrorFrameDone, Goto, Become, RunInv, EndingInv, Ending, Lossy, RunState
    <2> QED
      BY <2>1, <2>2
  <1>19. ASSUME NEW r \in Run, CloseTrace(r) PROVE RunInv(q)' /\ EndingInv(q)'
    <2>1. CASE q # r
      <3>1. Kept(q)
        BY <1>19, <2>1, <1>t DEF CloseTrace, EndTrace, Leave, Become, Over, Outside, Kept
      <3> QED
        BY <1>i, <3>1, Untouched
    <2>2. CASE q = r
      <3>1. /\ run'[r].pc = "done"
            /\ run'[r].phase # "working" => Answered(r)
        BY <1>19, <2>2, <1>t DEF CloseTrace, Leave, Become, Over, Outside
      <3>2. /\ run[r].verdict \in Final \ {"completed"}
            /\ trace'[r] = "erased" \/ trace'[r] = run[r].verdict
        BY <1>19, <2>2, <1>i, <1>t DEF CloseTrace, EndTrace, RunInv
      <3>3. \A s \in Status : <<r, s>> \notin ending
        BY <1>19, <2>2, <1>i DEF CloseTrace, EndingInv
      <3> QED
        BY <1>19, <2>2, <3>1, <3>2, <3>3, <1>i
           DEF CloseTrace, RunInv, EndingInv
    <2> QED
      BY <2>1, <2>2
  <1>20. ASSUME NEW r \in Run, CloseFails(r) PROVE RunInv(q)' /\ EndingInv(q)'
    <2>1. CASE q # r
      <3>1. Kept(q)
        BY <1>20, <2>1, <1>t DEF CloseFails, Leave, Become, Over, Outside, Kept
      <3> QED
        BY <1>i, <3>1, Untouched
    <2>2. CASE q = r
      BY <1>20, <2>2, <1>i, <1>t
         DEF CloseFails, Leave, Become, Over, Outside, RunInv, EndingInv, Ending, Lossy, RunState
    <2> QED
      BY <2>1, <2>2
  <1>21. ASSUME NEW r \in Run, EndInBackground(r) PROVE RunInv(q)' /\ EndingInv(q)'
    <2>1. CASE q # r
      <3>1. Kept(q)
        BY <1>21, <2>1, <1>t DEF EndInBackground, EndTrace, Become, Kept
      <3> QED
        BY <1>i, <3>1, Untouched
    <2>2. CASE q = r
      <3>1. PICK s \in Status :
                 /\ <<r, s>> \in ending
                 /\ ending' = ending \ {<<r, s>>}
                 /\ \/ EndTrace(r, s) /\ UNCHANGED run
                    \/ /\ Become(r, [run[r] EXCEPT !.exit = "unrecorded"])
                       /\ UNCHANGED trace
        BY <1>21 DEF EndInBackground
      <3>2. At(r, "done") /\ UNCHANGED msgs
        BY <1>21, <2>2, <3>1, <1>i DEF EndInBackground, EndingInv
      <3>3. \A z \in Status : <<r, z>> \notin ending'
        BY <2>2, <3>1, <1>i DEF EndingInv
      <3>4. CASE EndTrace(r, s) /\ UNCHANGED run
        <4>1. trace'[r] = "erased" \/ trace'[r] = s
          BY <2>2, <3>1, <3>4, <1>i, <1>t DEF EndTrace, EndingInv
        <4> QED
          <5>1. trace'[r] # "running" /\ trace'[r] # "completed"
            BY <2>2, <3>1, <4>1, <1>i DEF EndingInv
          <5> QED
            BY <2>2, <3>2, <3>3, <3>4, <5>1 DEF RunInv, EndingInv
      <3>5. CASE /\ Become(r, [run[r] EXCEPT !.exit = "unrecorded"])
                 /\ UNCHANGED trace
        <4>1. /\ run'[r].pc = "done" /\ run'[r].exit = "unrecorded"
              /\ run'[r].phase = run[r].phase
          BY <2>2, <3>2, <3>5, <1>t DEF Become, RunState
        <4> QED
          BY <2>2, <3>2, <3>3, <3>5, <4>1, <1>i DEF RunInv, EndingInv, Lossy
      <3> QED
        BY <3>1, <3>4, <3>5
    <2> QED
      BY <2>1, <2>2
  <1>22. ASSUME NEW r \in Run, Disconnect(r) PROVE RunInv(q)' /\ EndingInv(q)'
    <2>1. CASE q # r
      <3>1. Kept(q)
        BY <1>22, <2>1, <1>t DEF Disconnect, Become, Kept
      <3> QED
        BY <1>i, <3>1, Untouched
    <2>2. CASE q = r
      BY <1>22, <2>2, <1>i, <1>t
         DEF Disconnect, Become, RunInv, EndingInv, Ending, Lossy, RunState
    <2> QED
      BY <2>1, <2>2
  <1>23. ASSUME NEW r \in Run, TearDown(r) PROVE RunInv(q)' /\ EndingInv(q)'
    <2>1. CASE q # r
      <3>1. Kept(q)
        BY <1>23, <2>1, <1>t DEF TearDown, Close, EndTrace, Become, Kept
      <3> QED
        BY <1>i, <3>1, Untouched
    <2>2. CASE q = r
      BY <1>23, <2>2, <1>i, <1>t
         DEF TearDown, Close, EndTrace, Become, RunInv, EndingInv, Ending, Lossy, RunState
    <2> QED
      BY <2>1, <2>2
  <1>24. ASSUME NEW r \in Run, Detach(r) PROVE RunInv(q)' /\ EndingInv(q)'
    <2>1. CASE q # r
      <3>1. Kept(q)
        BY <1>24, <2>1, <1>t DEF Detach, Leave, Become, Over, Outside, Kept
      <3> QED
        BY <1>i, <3>1, Untouched
    <2>2. CASE q = r
      BY <1>24, <2>2, <1>i, <1>t
         DEF Detach, Leave, Become, Over, Outside, RunInv, EndingInv, Ending, Lossy, RunState
    <2> QED
      BY <2>1, <2>2
  <1>25. ASSUME NEW r \in Run, Abandon(r) PROVE RunInv(q)' /\ EndingInv(q)'
    <2>1. CASE q # r
      <3>1. Kept(q)
        BY <1>25, <2>1, <1>t DEF Abandon, Leave, Become, Over, Outside, Kept
      <3> QED
        BY <1>i, <3>1, Untouched
    <2>2. CASE q = r
      BY <1>25, <2>2, <1>i, <1>t
         DEF Abandon, Leave, Become, Over, Outside, RunInv, EndingInv, Ending, Lossy, RunState
    <2> QED
      BY <2>1, <2>2
  <1>26. ASSUME NEW r \in Run, NeverStart(r) PROVE RunInv(q)' /\ EndingInv(q)'
    <2>1. CASE q # r
      <3>1. Kept(q)
        BY <1>26, <2>1, <1>t DEF NeverStart, Become, Over, Outside, Kept
      <3> QED
        BY <1>i, <3>1, Untouched
    <2>2. CASE q = r
      BY <1>26, <2>2, <1>i, <1>t
         DEF NeverStart, Become, Over, Outside, RunInv, EndingInv, Ending, Lossy, RunState
    <2> QED
      BY <2>1, <2>2
  <1>27. ASSUME NEW r \in Run, NEW k \in Event, Emit(r, k) PROVE RunInv(q)' /\ EndingInv(q)'
    <2>1. CASE q # r
      <3>1. Kept(q)
        BY <1>27, <2>1, <1>t DEF Emit, Pulled, Become, Emits, Kept
      <3> QED
        BY <1>i, <3>1, Untouched
    <2>2. CASE q = r
      BY <1>27, <2>2, <1>i, <1>t
         DEF Emit, Pulled, Become, Emits, RunInv, EndingInv, Ending, Lossy, RunState
    <2> QED
      BY <2>1, <2>2
  <1>28. ASSUME NEW u \in User, Cancel(u) PROVE RunInv(q)' /\ EndingInv(q)'
    BY <1>28, <1>i, Untouched DEF Cancel, Kept
  <1>29. ASSUME NEW u \in Leaver, DeleteMe(u) PROVE RunInv(q)' /\ EndingInv(q)'
    <2>1. UNCHANGED <<run, ending>>
      BY <1>29 DEF DeleteMe
    <2>2. CASE Owner(q) = u
      <3>1. trace'[q] = IF trace[q] = "none" THEN "none" ELSE "erased"
        BY <1>29, <2>2 DEF DeleteMe
      <3> QED
        BY <2>1, <3>1, <1>i DEF RunInv, EndingInv, Ending
    <2>3. CASE Owner(q) # u
      <3>1. trace'[q] = trace[q] /\ (<<q, "ai">> \in msgs => <<q, "ai">> \in msgs')
        BY <1>29, <2>3 DEF DeleteMe
      <3> QED
        BY <2>1, <3>1, <1>i, Untouched DEF Kept
    <2> QED
      BY <2>2, <2>3
  <1>30. ASSUME Crash PROVE RunInv(q)' /\ EndingInv(q)'
    <2>1. \A s \in Status : <<q, s>> \notin ending'
      BY <1>30 DEF Crash
    <2>2. UNCHANGED <<trace, msgs>>
      BY <1>30 DEF Crash
    <2>3. CASE run[q].pc \in Handler \cup Stream \/ Ending(q)
      <3>1. /\ run'[q].pc = "done" /\ run'[q].exit = "crashed"
            /\ run'[q].phase # "working" => Answered(q)
        BY <1>30, <2>3 DEF Crash, Over, Outside
      <3> QED
        BY <2>1, <2>2, <3>1, <1>i DEF RunInv, EndingInv, Lossy
    <2>4. CASE ~(run[q].pc \in Handler \cup Stream \/ Ending(q))
      <3>1. run'[q] = run[q]
        BY <1>30, <2>4 DEF Crash
      <3> QED
        BY <2>1, <2>2, <2>4, <3>1, <1>i DEF RunInv, EndingInv
    <2> QED
      BY <2>3, <2>4
  <1>31. CASE UNCHANGED vars
    BY <1>31, <1>i, Untouched DEF vars, Kept
  <1> HIDE DEF store, Handler, Stream, At, Answered, Final
  <1> QED
    BY <1>1, <1>2, <1>3, <1>4, <1>5, <1>6, <1>7, <1>8, <1>9,
       <1>10, <1>11, <1>12, <1>13, <1>14, <1>15, <1>16, <1>17, <1>18,
       <1>19, <1>20, <1>21, <1>22, <1>23, <1>24, <1>25, <1>26, <1>27,
       <1>28, <1>29, <1>30, <1>31
       DEF Next, ClientStep, HandlerStep, StreamStep

(* What the registry invariants see of a step: no exchange starts to       *)
(* stream, and none of those the registry may hold slips out of it ...     *)
Steady ==
    /\ UNCHANGED reg
    /\ \A q \in Run :
          /\ Live(q)' => Live(q) /\ run'[q].shared = run[q].shared
          /\ Live(q) \/ run[q].exit = "unstarted" =>
                 Live(q)' \/ run'[q].exit = "unstarted"

(* ... or one exchange leaves its stream and empties the slot of its turn. *)
Leaves(r) ==
    /\ Live(r) /\ ~Live(r)'
    /\ reg' = [reg EXCEPT ![TurnOf[r]] = NoRun]
    /\ \A q \in Run \ {r} : run'[q] = run[q]

RegInv == RegistryHoldsLive /\ SharedInv /\ SoleRunIsCancellable

(* A steady step keeps the registry invariants.                            *)
LEMMA SteadyStep ==
    ASSUME TypeOK, RegInv, Steady
    PROVE  RegInv'
  <1> USE QueryRunAssumption DEF RegInv, TypeOK
  <1>1. RegistryHoldsLive'
    BY DEF Steady, RegistryHoldsLive
  <1>2. SharedInv'
    BY DEF Steady, SharedInv
  <1>3. SoleRunIsCancellable'
    BY DEF Steady, SoleRunIsCancellable
  <1> QED
    BY <1>1, <1>2, <1>3

(* So does the end of a stream: whoever is left without its slot shared it *)
(* with the run that has emptied it.                                       *)
LEMMA LeaveStep ==
    ASSUME TypeOK, RegInv, NEW r \in Run, Leaves(r)
    PROVE  RegInv'
  <1> USE QueryRunAssumption DEF RegInv, TypeOK
  <1>1. RegistryHoldsLive'
    <2> SUFFICES ASSUME NEW t \in Turn, reg'[t] # NoRun
                 PROVE  /\ TurnOf[reg'[t]] = t
                        /\ Live(reg[t])' \/ run'[reg'[t]].exit = "unstarted"
      BY DEF RegistryHoldsLive
    <2>1. t # TurnOf[r] /\ reg'[t] = reg[t] /\ reg[t] \in Run
      BY DEF Leaves
    <2>2. TurnOf[reg[t]] = t /\ reg[t] # r
      BY <2>1 DEF RegistryHoldsLive
    <2> QED
      BY <2>1, <2>2 DEF Leaves, RegistryHoldsLive, Live
  <1>2. SharedInv'
    BY DEF Leaves, SharedInv, Live
  <1>3. SoleRunIsCancellable'
    <2> SUFFICES ASSUME NEW q \in Run, Live(q)', ~run'[q].shared
                 PROVE  reg'[TurnOf[q]] = q
      BY DEF SoleRunIsCancellable
    <2>1. q # r /\ run'[q] = run[q] /\ Live(q)
      BY DEF Leaves, Live
    <2>2. TurnOf[q] # TurnOf[r]
      BY <2>1 DEF Leaves, SharedInv
    <2> QED
      BY <2>1, <2>2 DEF Leaves, SoleRunIsCancellable
  <1> QED
    BY <1>1, <1>2, <1>3

(* So does the registration of a run: it takes the slot of its turn, and   *)
(* every live run of that turn is marked as sharing it.                    *)
LEMMA RegisterStep ==
    ASSUME TypeOK, RegInv, NEW r \in Run, Register(r)
    PROVE  RegInv'
  <1> USE QueryRunAssumption DEF RegInv, TypeOK
  <1>1. /\ Live(r)' /\ ~Live(r) /\ run'[r].shared = (Rivals(r) # {})
        /\ reg' = [reg EXCEPT ![TurnOf[r]] = r]
    <2>1. /\ At(r, "recorded") /\ run[r] \in RunState
          /\ run'[r] = [run[r] EXCEPT !.pc = "registered",
                                       !.shared = Rivals(r) # {}]
      BY DEF Register, Registered
    <2>2. run'[r].pc = "registered" /\ run'[r].shared = (Rivals(r) # {})
      BY <2>1 DEF RunState
    <2> QED
      BY <2>1, <2>2 DEF Register, Live, At, Stream
  <1>2. ASSUME NEW q \in Run \ {r}
        PROVE  /\ run'[q] = run[q] \/ run'[q] = [run[q] EXCEPT !.shared = TRUE]
               /\ q \in Rivals(r) => run'[q] = [run[q] EXCEPT !.shared = TRUE]
    BY DEF Register, Registered
  <1>3. ASSUME NEW q \in Run \ {r}
        PROVE  /\ Live(q)' <=> Live(q)
               /\ run'[q].exit = run[q].exit
               /\ run[q].shared => run'[q].shared
               /\ q \in Rivals(r) => run'[q].shared
    <2>1. run[q] \in RunState
      OBVIOUS
    <2>2. CASE run'[q] = run[q]
      BY <1>2, <2>1, <2>2 DEF Live, RunState
    <2>3. CASE run'[q] = [run[q] EXCEPT !.shared = TRUE]
      <3>1. /\ run'[q].pc = run[q].pc /\ run'[q].exit = run[q].exit
            /\ run'[q].shared = TRUE
        BY <2>1, <2>3 DEF RunState
      <3> QED
        BY <3>1 DEF Live
    <2> QED
      BY <1>2, <2>2, <2>3
  <1>4. \A q \in Run \ {r} :
            q \in Rivals(r) <=> TurnOf[q] = TurnOf[r] /\ Live(q)
    BY DEF Rivals, Live
  <1>5. RegistryHoldsLive'
    <2> SUFFICES ASSUME NEW t \in Turn, reg'[t] # NoRun
                 PROVE  /\ TurnOf[reg'[t]] = t
                        /\ Live(reg[t])' \/ run'[reg'[t]].exit = "unstarted"
      BY DEF RegistryHoldsLive
    <2>1. CASE t = TurnOf[r]
      <3>1. reg'[t] = r
        BY <1>1, <2>1
      <3> QED
        BY <1>1, <2>1, <3>1 DEF Live
    <2>2. CASE t # TurnOf[r]
      <3>1. reg'[t] = reg[t] /\ reg[t] \in Run /\ reg[t] # r
        BY <1>1, <2>2 DEF RegistryHoldsLive
      <3> QED
        BY <1>3, <3>1 DEF RegistryHoldsLive, Live
    <2> QED
      BY <2>1, <2>2
  <1>6. SharedInv'
    <2> SUFFICES ASSUME NEW p \in Run, NEW q \in Run, p # q,
                        TurnOf[p] = TurnOf[q], Live(p)', Live(q)'
                 PROVE  run'[q].shared
      BY DEF SharedInv
    <2>1. CASE q = r
      BY <1>1, <1>3, <1>4, <2>1
    <2>2. CASE q # r /\ p = r
      BY <1>3, <1>4, <2>2
    <2>3. CASE q # r /\ p # r
      BY <1>3, <2>3 DEF SharedInv
    <2> QED
      BY <2>1, <2>2, <2>3
  <1>7. SoleRunIsCancellable'
    <2> SUFFICES ASSUME NEW q \in Run, Live(q)', ~run'[q].shared
                 PROVE  reg'[TurnOf[q]] = q
      BY DEF SoleRunIsCancellable
    <2>1. CASE q = r
      BY <1>1, <2>1
    <2>2. CASE q # r
      <3>1. TurnOf[q] # TurnOf[r] /\ Live(q) /\ ~run[q].shared
        BY <1>3, <1>4, <2>2
      <3> QED
        BY <1>1, <3>1 DEF SoleRunIsCancellable
    <2> QED
      BY <2>1, <2>2
  <1> QED
    BY <1>5, <1>6, <1>7

(* Every step is one of the three, or a crash that empties the registry.   *)
LEMMA RegistryStep ==
    ASSUME TypeOK, [Next]_vars, RegInv, \A r \in Run : RunInv(r) /\ EndingInv(r)
    PROVE  RegInv'
  <1>t. run \in [Run -> RunState] /\ reg \in [Turn -> Run \cup {NoRun}]
    BY DEF TypeOK
  <1>s. Steady => RegInv'
    BY SteadyStep
  <1>l. \A r \in Run : Leaves(r) => RegInv'
    BY LeaveStep
  <1> USE DEF store, Handler, Stream, At, Live
  <1>1. ASSUME NEW r \in Run, Receive(r) PROVE RegInv'
    <2>1. Steady
      BY <1>1, <1>t DEF Receive, Become, Steady, RunState
    <2> QED
      BY <1>s, <2>1
  <1>2. ASSUME NEW r \in Run, Preempt(r) PROVE RegInv'
    <2>1. Steady
      BY <1>2, <1>t DEF Preempt, Become, Over, Outside, Steady, RunState, RunInv
    <2> QED
      BY <1>s, <2>1
  <1>3. ASSUME NEW r \in Run, OpenTrace(r) PROVE RegInv'
    <2>1. Steady
      BY <1>3, <1>t DEF OpenTrace, Goto, Become, Steady, RunState
    <2> QED
      BY <1>s, <2>1
  <1>4. ASSUME NEW r \in Run, RecordHuman(r) PROVE RegInv'
    <2>1. Steady
      BY <1>4, <1>t DEF RecordHuman, Goto, Become, Steady, RunState
    <2> QED
      BY <1>s, <2>1
  <1>5. ASSUME NEW r \in Run, Reject(r) PROVE RegInv'
    <2>1. Steady
      BY <1>5, <1>t DEF Reject, Become, Over, Outside, Steady, RunState, RunInv
    <2> QED
      BY <1>s, <2>1
  <1>6. ASSUME NEW r \in Run, Register(r) PROVE RegInv'
    BY <1>6, RegisterStep
  <1>7. ASSUME NEW r \in Run, StartStream(r) PROVE RegInv'
    <2>1. Steady
      BY <1>7, <1>t DEF StartStream, Goto, Become, Steady, RunState
    <2> QED
      BY <1>s, <2>1
  <1>8. ASSUME NEW r \in Run, StopAtEvent(r) PROVE RegInv'
    <2>1. Steady
      BY <1>8, <1>t DEF StopAtEvent, Close, Become, Steady, RunState
    <2> QED
      BY <1>s, <2>1
  <1>9. ASSUME NEW r \in Run, BeginSend(r) PROVE RegInv'
    <2>1. Steady
      BY <1>9, <1>t DEF BeginSend, Become, Steady, RunState
    <2> QED
      BY <1>s, <2>1
  <1>10. ASSUME NEW r \in Run, SkipSend(r) PROVE RegInv'
    <2>1. CASE run[r].ev = "call"
      <3>1. Leaves(r)
        BY <1>10, <1>t, <2>1 DEF SkipSend, AfterEvent, Leave, Become, Over, Outside, Leaves
      <3> QED
        BY <1>l, <3>1
    <2>2. CASE run[r].ev # "call"
      <3>1. Steady
        <4> DEFINE local == [run[r] EXCEPT !.gone = TRUE]
        <4>1. /\ run' = [run EXCEPT ![r] = [local EXCEPT !.pc = "pulling", !.ev = "status"]]
              /\ run[r].pc \in Stream /\ UNCHANGED reg
          BY <1>10, <2>2 DEF SkipSend, AfterEvent, Become
        <4>2. local \in RunState /\ local.shared = run[r].shared
          BY <1>t DEF RunState
        <4> HIDE DEF local
        <4>3. /\ run'[r].pc = "pulling" /\ run'[r].shared = run[r].shared
              /\ \A q \in Run \ {r} : run'[q] = run[q]
          BY <4>1, <4>2, <1>t DEF RunState
        <4> QED
          BY <4>1, <4>3 DEF Steady
      <3> QED
        BY <1>s, <3>1
    <2> QED
      BY <2>1, <2>2
  <1>11. ASSUME NEW r \in Run, Sent(r) PROVE RegInv'
    <2>1. CASE run[r].ev = "call"
      <3>1. Leaves(r)
        BY <1>11, <1>t, <2>1 DEF Sent, AfterEvent, Leave, Become, Over, Outside, Leaves
      <3> QED
        BY <1>l, <3>1
    <2>2. CASE run[r].ev # "call"
      <3>1. Steady
        <4> DEFINE local == run[r]
        <4>1. /\ run' = [run EXCEPT ![r] = [local EXCEPT !.pc = "pulling", !.ev = "status"]]
              /\ run[r].pc \in Stream /\ UNCHANGED reg
          BY <1>11, <2>2 DEF Sent, AfterEvent, Become
        <4>2. local \in RunState /\ local.shared = run[r].shared
          BY <1>t DEF RunState
        <4> HIDE DEF local
        <4>3. /\ run'[r].pc = "pulling" /\ run'[r].shared = run[r].shared
              /\ \A q \in Run \ {r} : run'[q] = run[q]
          BY <4>1, <4>2, <1>t DEF RunState
        <4> QED
          BY <4>1, <4>3 DEF Steady
      <3> QED
        BY <1>s, <3>1
    <2> QED
      BY <2>1, <2>2
  <1>12. ASSUME NEW r \in Run, AgentEnds(r) PROVE RegInv'
    <2>1. Steady
      BY <1>12, <1>t DEF AgentEnds, Goto, Become, Steady, RunState
    <2> QED
      BY <1>s, <2>1
  <1>13. ASSUME NEW r \in Run, AgentInterrupts(r) PROVE RegInv'
    <2>1. Steady
      BY <1>13, <1>t DEF AgentInterrupts, Close, Become, Steady, RunState
    <2> QED
      BY <1>s, <2>1
  <1>14. ASSUME NEW r \in Run, AgentRaises(r) PROVE RegInv'
    <2>1. Steady
      BY <1>14, <1>t DEF AgentRaises, Fail, Become, Steady, RunState
    <2> QED
      BY <1>s, <2>1
  <1>15. ASSUME NEW r \in Run, AppendAnswer(r) PROVE RegInv'
    <2>1. Steady
      BY <1>15, <1>t DEF AppendAnswer, Goto, Become, Steady, RunState
    <2> QED
      BY <1>s, <2>1
  <1>16. ASSUME NEW r \in Run, Complete(r) PROVE RegInv'
    <2>1. Leaves(r)
      BY <1>16, <1>t DEF Complete, EndTrace, Leave, Become, Over, Outside, Leaves
    <2> QED
      BY <1>l, <2>1
  <1>17. ASSUME NEW r \in Run, TailFails(r) PROVE RegInv'
    <2>1. Steady
      BY <1>17, <1>t DEF TailFails, Fail, Become, Steady, RunState
    <2> QED
      BY <1>s, <2>1
  <1>18. ASSUME NEW r \in Run, ErrorFrameDone(r) PROVE RegInv'
    <2>1. Steady
      BY <1>18, <1>t DEF ErrorFrameDone, Goto, Become, Steady, RunState
    <2> QED
      BY <1>s, <2>1
  <1>19. ASSUME NEW r \in Run, CloseTrace(r) PROVE RegInv'
    <2>1. Leaves(r)
      BY <1>19, <1>t DEF CloseTrace, EndTrace, Leave, Become, Over, Outside, Leaves
    <2> QED
      BY <1>l, <2>1
  <1>20. ASSUME NEW r \in Run, CloseFails(r) PROVE RegInv'
    <2>1. Leaves(r)
      BY <1>20, <1>t DEF CloseFails, Leave, Become, Over, Outside, Leaves
    <2> QED
      BY <1>l, <2>1
  <1>21. ASSUME NEW r \in Run, EndInBackground(r) PROVE RegInv'
    <2>1. Steady
      BY <1>21, <1>t DEF EndInBackground, EndTrace, Become, Steady, RunState, EndingInv
    <2> QED
      BY <1>s, <2>1
  <1>22. ASSUME NEW r \in Run, Disconnect(r) PROVE RegInv'
    <2>1. Steady
      BY <1>22, <1>t DEF Disconnect, Become, Steady, RunState
    <2> QED
      BY <1>s, <2>1
  <1>23. ASSUME NEW r \in Run, TearDown(r) PROVE RegInv'
    <2>1. Steady
      BY <1>23, <1>t DEF TearDown, Close, EndTrace, Become, Steady, RunState
    <2> QED
      BY <1>s, <2>1
  <1>24. ASSUME NEW r \in Run, Detach(r) PROVE RegInv'
    <2>1. Leaves(r)
      BY <1>24, <1>t DEF Detach, Leave, Become, Over, Outside, Leaves
    <2> QED
      BY <1>l, <2>1
  <1>25. ASSUME NEW r \in Run, Abandon(r) PROVE RegInv'
    <2>1. Leaves(r)
      BY <1>25, <1>t DEF Abandon, Leave, Become, Over, Outside, Leaves
    <2> QED
      BY <1>l, <2>1
  <1>26. ASSUME NEW r \in Run, NeverStart(r) PROVE RegInv'
    <2>1. Steady
      BY <1>26, <1>t DEF NeverStart, Become, Over, Outside, Steady, RunState
    <2> QED
      BY <1>s, <2>1
  <1>27. ASSUME NEW r \in Run, NEW k \in Event, Emit(r, k) PROVE RegInv'
    <2>1. Steady
      BY <1>27, <1>t DEF Emit, Pulled, Become, Emits, Steady, RunState
    <2> QED
      BY <1>s, <2>1
  <1>28. ASSUME NEW u \in User, Cancel(u) PROVE RegInv'
    <2>1. Steady
      BY <1>28 DEF Cancel, Steady
    <2> QED
      BY <1>s, <2>1
  <1>29. ASSUME NEW u \in Leaver, DeleteMe(u) PROVE RegInv'
    <2>1. Steady
      BY <1>29 DEF DeleteMe, Steady
    <2> QED
      BY <1>s, <2>1
  <1>30. ASSUME Crash PROVE RegInv'
    <2>1. \A t \in Turn : reg'[t] = NoRun
      BY <1>30 DEF Crash
    <2>2. \A r \in Run : ~Live(r)'
      BY <1>30 DEF Crash, Over, Outside
    <2> QED
      BY <2>1, <2>2
         DEF RegInv, RegistryHoldsLive, SharedInv, SoleRunIsCancellable
  <1>31. CASE UNCHANGED vars
    <2>1. Steady
      BY <1>31 DEF vars, Steady
    <2> QED
      BY <1>s, <2>1
  <1> HIDE DEF store, Handler, Stream, At, Live
  <1> QED
    BY <1>1, <1>2, <1>3, <1>4, <1>5, <1>6, <1>7, <1>8, <1>9,
       <1>10, <1>11, <1>12, <1>13, <1>14, <1>15, <1>16, <1>17, <1>18,
       <1>19, <1>20, <1>21, <1>22, <1>23, <1>24, <1>25, <1>26, <1>27,
       <1>28, <1>29, <1>30, <1>31
       DEF Next, ClientStep, HandlerStep, StreamStep

-----------------------------------------------------------------------------
(* The initial state satisfies the inductive invariant.                    *)
LEMMA InitInv == Init => IInv
  <1> SUFFICES ASSUME Init PROVE IInv
    OBVIOUS
  <1> USE QueryRunAssumption
  <1>1. TypeOK
    <2>1. Fresh \in RunState
      BY DEF Fresh, Outside, RunState, PC, Exit, Event, Status
    <2> QED
      BY <2>1 DEF Init, TypeOK, Status
  <1>2. \A r \in Run : RunInv(r) /\ EndingInv(r)
    BY DEF Init, RunInv, EndingInv, Fresh, Outside, At, Stream
  <1>3. RegInv
    BY DEF Init, RegInv, RegistryHoldsLive, SharedInv, SoleRunIsCancellable,
           Live, Fresh, Outside, Stream
  <1> QED
    BY <1>1, <1>2, <1>3 DEF IInv, RegInv

(* The inductive invariant holds in every reachable state.                 *)
THEOREM Invariance == Spec => []IInv
  <1>1. IInv /\ [Next]_vars => IInv'
    <2> SUFFICES ASSUME IInv, [Next]_vars PROVE IInv'
      OBVIOUS
    <2>1. TypeOK /\ RegInv /\ \A r \in Run : RunInv(r) /\ EndingInv(r)
      BY DEF IInv, RegInv
    <2>2. TypeOK'
      BY <2>1, TypeStep
    <2>3. \A q \in Run : RunInv(q)' /\ EndingInv(q)'
      BY <2>1, RunStep
    <2>4. RegInv'
      BY <2>1, RegistryStep
    <2> QED
      BY <2>2, <2>3, <2>4 DEF IInv, RegInv
  <1> QED
    BY InitInv, <1>1, PTL DEF Spec

(* Every variable stays within its type: only the statuses and roles of    *)
(* the source are ever written to the tables.                              *)
THEOREM TypeCorrect == Spec => []TypeOK
  <1>1. IInv => TypeOK
    BY DEF IInv
  <1> QED
    BY <1>1, Invariance, PTL

(* The registry never holds the event of a run that is over, except of one *)
(* whose generator was never started.                                      *)
THEOREM RegistryHoldsLiveHolds == Spec => []RegistryHoldsLive
  <1>1. IInv => RegistryHoldsLive
    BY DEF IInv
  <1> QED
    BY <1>1, Invariance, PTL

(* A streaming run that never shared its run_id with another live run can  *)
(* be cancelled, until the moment it is over.                              *)
THEOREM SoleRunIsCancellableHolds == Spec => []SoleRunIsCancellable
  <1>1. IInv => SoleRunIsCancellable
    BY DEF IInv
  <1> QED
    BY <1>1, Invariance, PTL

(* A trace is left "running" only by one of the lossy ends of an exchange, *)
(* or while its background end_trace is still to run.                      *)
THEOREM LeftRunningOnlyIfHolds == Spec => []LeftRunningOnlyIf
  <1>1. IInv => LeftRunningOnlyIf
    BY DEF IInv, RunInv, LeftRunningOnlyIf
  <1> QED
    BY <1>1, Invariance, PTL

(* A completed exchange whose agent answered has its answer in the log.    *)
THEOREM CompletedIsRecordedHolds == Spec => []CompletedIsRecorded
  <1>1. IInv => CompletedIsRecorded
    BY DEF IInv, RunInv, CompletedIsRecorded
  <1> QED
    BY <1>1, Invariance, PTL

-----------------------------------------------------------------------------
(* end_trace with one of the final statuses, on a row that is not closed   *)
(* with another one, is a step of the abstract trace, or none at all.      *)
LEMMA EndTraceIsAbstract ==
    ASSUME TypeOK, NEW r \in Run, NEW s \in Final,
           \/ trace[r] \in {"none", "running", "erased"}
           \/ trace[r] = "completed" /\ s = "cancelled",
           EndTrace(r, s)
    PROVE  [Lifecycle!Next]_trace
  <1>1. CASE trace[r] \in {"none", "erased"}
    BY <1>1 DEF EndTrace, TypeOK
  <1>2. CASE trace[r] = "running"
    <2>1. Lifecycle!Close(r)
      BY <1>2 DEF EndTrace, Lifecycle!Close, Lifecycle!Final, Final
    <2> QED
      BY <2>1 DEF Lifecycle!Next
  <1>3. CASE trace[r] = "completed" /\ s = "cancelled"
    <2>1. Lifecycle!Amend(r)
      BY <1>3 DEF EndTrace, Lifecycle!Amend
    <2> QED
      BY <2>1 DEF Lifecycle!Next
  <1> QED
    BY <1>1, <1>2, <1>3

(* Every step of an exchange is a step of its abstract trace, or none.     *)
LEMMA StepIsAbstract ==
    ASSUME IInv, [Next]_vars
    PROVE  [Lifecycle!Next]_trace
  <1>i. TypeOK /\ \A r \in Run : RunInv(r) /\ EndingInv(r)
    BY DEF IInv
  <1>1. ASSUME NEW r \in Run, OpenTrace(r) PROVE [Lifecycle!Next]_trace
    <2>1. Lifecycle!Begin(r)
      BY <1>1, <1>i DEF OpenTrace, RunInv, At, Lifecycle!Begin
    <2> QED
      BY <2>1 DEF Lifecycle!Next
  <1>2. ASSUME NEW r \in Run, Complete(r) PROVE [Lifecycle!Next]_trace
    <2>1. trace[r] \in {"running", "erased"} /\ "completed" \in Final
      BY <1>2, <1>i DEF Complete, RunInv, At, Stream, Final
    <2> QED
      BY <1>2, <1>i, <2>1, EndTraceIsAbstract DEF Complete
  <1>3. ASSUME NEW r \in Run, CloseTrace(r) PROVE [Lifecycle!Next]_trace
    <2>1. /\ run[r].verdict \in Final
          /\ \/ trace[r] \in {"running", "erased"}
             \/ trace[r] = "completed" /\ run[r].verdict = "cancelled"
      BY <1>3, <1>i DEF CloseTrace, RunInv, At
    <2> QED
      BY <1>3, <1>i, <2>1, EndTraceIsAbstract DEF CloseTrace
  <1>4. ASSUME NEW r \in Run, EndInBackground(r) PROVE [Lifecycle!Next]_trace
    <2>1. PICK s \in Status :
             <<r, s>> \in ending /\ (EndTrace(r, s) \/ UNCHANGED trace)
      BY <1>4 DEF EndInBackground
    <2>2. /\ s \in Final
          /\ \/ trace[r] \in {"running", "erased"}
             \/ trace[r] = "completed" /\ s = "cancelled"
      BY <1>i, <2>1 DEF EndingInv
    <2> QED
      BY <1>i, <2>1, <2>2, EndTraceIsAbstract
  <1>5. ASSUME NEW r \in Run, TearDown(r) PROVE [Lifecycle!Next]_trace
    <2>1. CASE At(r, "completing") /\ EndTrace(r, "completed")
      <3>1. trace[r] \in {"running", "erased"} /\ "completed" \in Final
        BY <2>1, <1>i DEF RunInv, At, Stream, Final
      <3> QED
        BY <1>i, <2>1, <3>1, EndTraceIsAbstract
    <2>2. CASE UNCHANGED trace
      BY <2>2
    <2> QED
      BY <1>5, <2>1, <2>2 DEF TearDown, store
  <1>6. ASSUME NEW u \in Leaver, DeleteMe(u) PROVE [Lifecycle!Next]_trace
    <2> DEFINE S == {r \in Run : Owner(r) = u}
    <2>1. Lifecycle!Erase(S)
      BY <1>6 DEF DeleteMe, Lifecycle!Erase
    <2> QED
      BY <2>1 DEF Lifecycle!Next
  <1>7. ASSUME NEW r \in Run,
               \/ ClientStep(r)
               \/ RecordHuman(r) \/ Reject(r) \/ Register(r)
               \/ StartStream(r) \/ (\E k \in Event : Emit(r, k)) \/ StopAtEvent(r)
               \/ BeginSend(r) \/ SkipSend(r) \/ Sent(r) \/ AgentEnds(r)
               \/ AgentInterrupts(r) \/ AgentRaises(r) \/ AppendAnswer(r)
               \/ TailFails(r) \/ ErrorFrameDone(r) \/ CloseFails(r)
               \/ Detach(r) \/ Abandon(r) \/ NeverStart(r)
        PROVE  UNCHANGED trace
    BY <1>7 DEF ClientStep, Receive, Preempt, RecordHuman, Reject, Register,
                StartStream, StopAtEvent, BeginSend, SkipSend, Sent,
                AgentEnds, AgentInterrupts, AgentRaises, AppendAnswer, TailFails,
                ErrorFrameDone, CloseFails, Disconnect, Detach, Abandon,
                NeverStart, Emit, store
  <1>8. ASSUME \/ Crash \/ UNCHANGED vars
               \/ \E u \in User : Cancel(u)
        PROVE  UNCHANGED trace
    BY <1>8 DEF Crash, Cancel, vars, store
  <1> QED
    BY <1>1, <1>2, <1>3, <1>4, <1>5, <1>6, <1>7, <1>8
       DEF Next, HandlerStep, StreamStep

(* The traces table implements the abstract life of a trace: every step of *)
(* the exchanges opens, closes, amends or erases traces the way that       *)
(* specification says, or leaves them alone.                               *)
THEOREM LifecycleImplemented == Spec => ImplementsLifecycle
  <1>1. Init => Lifecycle!Init
    BY DEF Init, Lifecycle!Init
  <1>2. IInv /\ [Next]_vars => [Lifecycle!Next]_trace
    BY StepIsAbstract
  <1> QED
    BY <1>1, <1>2, Invariance, PTL DEF Spec, ImplementsLifecycle, Lifecycle!Spec
-----------------------------------------------------------------------------

-----------------------------------------------------------------------------
(* The exchanges and their past.                                           *)

InFlight(q) == run[q].pc \in Handler \cup Stream
Asked(q)    == run[q].pc \in {"recorded"} \cup Stream
HasRows(q)  == \/ trace[q] \notin {"none", "erased"}
               \/ \E role \in {"human", "ai"} : <<q, role>> \in msgs

Reporting == {"failing", "closing"}

(* What an exchange carries along: a frame that came late was the last one *)
(* to pass the check, or the report of an error after it; whoever went on to the agent recorded the question,  *)
(* unless the rows were erased; who has rows of a deleted user, or may     *)
(* still write some, is known to have been in flight.                      *)
Past(q) ==
    /\ \/ run[q].late = 0
       \/ run[q].late = 1 /\ stop[q] /\ run[q].pc # "checking"
       \/ run[q].late = 2 /\ stop[q] /\ run[q].pc \in Reporting /\ run[q].verdict = "error"
    /\ run[q].pc \in {"idle", "admitted", "opened"} => <<q, "ai">> \notin msgs
    /\ run[q].last = "human" /\ trace[q] # "erased" /\ (Asked(q) \/ <<q, "ai">> \in msgs) =>
           <<q, "human">> \in msgs
    /\ Owner(q) \in erased /\ (InFlight(q) \/ HasRows(q)) => q \in doomed

(* A step that does not concern the exchange.                              *)
Calm(q) ==
    /\ run'[q].pc = run[q].pc /\ run'[q].late = run[q].late /\ run'[q].last = run[q].last
    /\ run'[q].verdict = run[q].verdict
    /\ (stop[q] => stop'[q])
    /\ trace'[q] = trace[q]
    /\ \A role \in {"human", "ai"} : <<q, role>> \in msgs' <=> <<q, role>> \in msgs
    /\ erased' \subseteq erased /\ doomed' = doomed

(* A step of an exchange in flight, which writes no message.               *)
GoesOn(q) ==
    /\ InFlight(q)
    /\ run'[q].last = run[q].last
    /\ \/ run'[q].late = 0
       \/ /\ run'[q].late = run[q].late
          /\ run'[q].pc = "checking" => ~stop[q]
          /\ run[q].pc \in Reporting => run'[q].pc = "closing" /\ run'[q].verdict = run[q].verdict
       \/ /\ run'[q].late = OneMore(q)
          /\ run[q].pc \notin Reporting
          /\ run'[q].pc = "failing" /\ run'[q].verdict = "error"
    /\ run'[q].pc \notin {"idle", "admitted", "opened"}
    /\ Asked(q)' => Asked(q)
    /\ trace'[q] = "erased" <=> trace[q] = "erased"
    /\ UNCHANGED <<stop, msgs, erased, doomed>>

LEMMA CalmKeeps ==
    ASSUME NEW q \in Run, Past(q), Calm(q)
    PROVE  Past(q)'
  BY DEF Past, Calm, InFlight, Asked, HasRows, Owner

LEMMA GoingOnKeeps ==
    ASSUME NEW q \in Run, Past(q), GoesOn(q)
    PROVE  Past(q)'
  BY DEF Past, GoesOn, OneMore, Reporting, InFlight, Asked, HasRows, Owner, Handler, Stream

-----------------------------------------------------------------------------
LEMMA PastStep ==
    ASSUME IInv, [Next]_vars, NEW q \in Run, Past(q)
    PROVE  Past(q)'
  <1>i. RunInv(q) /\ EndingInv(q)
    BY DEF IInv
  <1>t. /\ run \in [Run -> RunState] /\ trace \in [Run -> Status]
        /\ run[q] \in RunState
        /\ msgs \in SUBSET (Run \X {"human", "ai"})
    BY DEF IInv, TypeOK
  <1> USE DEF store, ghost, spent, At
  <1>1. ASSUME NEW r \in Run, Receive(r) PROVE Past(q)'
    <2>1. CASE q # r
      <3>1. Calm(q)
        BY <1>1, <2>1, <1>t DEF Receive, Become, Calm
      <3> QED
        BY <3>1, CalmKeeps
    <2>2. CASE q = r
      BY <1>1, <2>2, <1>t, <1>i
         DEF Receive, Become, Past, Reporting, InFlight, Asked, HasRows, Owner, RunInv, Handler,
             Stream, RunState
    <2> QED
      BY <2>1, <2>2
  <1>2. ASSUME NEW r \in Run, Preempt(r) PROVE Past(q)'
    <2>1. CASE q # r
      <3>1. Calm(q)
        BY <1>2, <2>1, <1>t DEF Preempt, Become, Over, Outside, Calm
      <3> QED
        BY <3>1, CalmKeeps
    <2>2. CASE q = r
      BY <1>2, <2>2, <1>t, <1>i
         DEF Preempt, Become, Over, Outside, Past, Reporting, InFlight, Asked, HasRows, Owner, RunInv,
             Handler, Stream, RunState
    <2> QED
      BY <2>1, <2>2
  <1>3. ASSUME NEW r \in Run, OpenTrace(r) PROVE Past(q)'
    <2>1. CASE q # r
      <3>1. Calm(q)
        BY <1>3, <2>1, <1>t DEF OpenTrace, Goto, Become, Calm
      <3> QED
        BY <3>1, CalmKeeps
    <2>2. CASE q = r
      BY <1>3, <2>2, <1>t, <1>i
         DEF OpenTrace, Goto, Become, Past, Reporting, InFlight, Asked, HasRows, Owner, RunInv,
             Handler, Stream, RunState
    <2> QED
      BY <2>1, <2>2
  <1>4. ASSUME NEW r \in Run, RecordHuman(r) PROVE Past(q)'
    <2>1. CASE q # r
      <3>1. Calm(q)
        BY <1>4, <2>1, <1>t DEF RecordHuman, Goto, Become, Calm
      <3> QED
        BY <3>1, CalmKeeps
    <2>2. CASE q = r
      BY <1>4, <2>2, <1>t, <1>i
         DEF RecordHuman, Goto, Become, Past, Reporting, InFlight, Asked, HasRows, Owner, RunInv,
             Handler, Stream, RunState
    <2> QED
      BY <2>1, <2>2
  <1>5. ASSUME NEW r \in Run, BeginSend(r) PROVE Past(q)'
    <2>1. CASE q # r
      <3>1. Calm(q)
        BY <1>5, <2>1, <1>t DEF BeginSend, Become, Calm
      <3> QED
        BY <3>1, CalmKeeps
    <2>2. CASE q = r
      BY <1>5, <2>2, <1>t, <1>i
         DEF BeginSend, OneMore, Become, Past, Reporting, InFlight, Asked, HasRows, Owner, RunInv, Handler,
             Stream, RunState
    <2> QED
      BY <2>1, <2>2
  <1>6. ASSUME NEW r \in Run, AppendAnswer(r) PROVE Past(q)'
    <2>1. CASE q # r
      <3>1. Calm(q)
        BY <1>6, <2>1, <1>t DEF AppendAnswer, Goto, Become, Calm
      <3> QED
        BY <3>1, CalmKeeps
    <2>2. CASE q = r
      BY <1>6, <2>2, <1>t, <1>i
         DEF AppendAnswer, Goto, Become, Past, Reporting, InFlight, Asked, HasRows, Owner, RunInv,
             Handler, Stream, RunState
    <2> QED
      BY <2>1, <2>2
  <1>7. ASSUME NEW r \in Run, Reject(r) PROVE Past(q)'
    <2>1. CASE q # r
      <3>1. Calm(q)
        BY <1>7, <2>1, <1>t DEF Reject, Become, Over, Outside, Calm
      <3> QED
        BY <3>1, CalmKeeps
    <2>2. CASE q = r
      <3>1. GoesOn(q)
        BY <1>7, <2>2, <1>t, <1>i
           DEF Reject, Become, Over, Outside, GoesOn, Reporting, InFlight, Asked, RunInv, Handler,
               Stream, Final, RunState
      <3> QED
        BY <3>1, GoingOnKeeps
    <2> QED
      BY <2>1, <2>2
  <1>8. ASSUME NEW r \in Run, StartStream(r) PROVE Past(q)'
    <2>1. CASE q # r
      <3>1. Calm(q)
        BY <1>8, <2>1, <1>t DEF StartStream, Goto, Become, Calm
      <3> QED
        BY <3>1, CalmKeeps
    <2>2. CASE q = r
      <3>1. GoesOn(q)
        BY <1>8, <2>2, <1>t, <1>i
           DEF StartStream, Goto, Become, GoesOn, Reporting, InFlight, Asked, RunInv, Handler, Stream,
               Final, RunState
      <3> QED
        BY <3>1, GoingOnKeeps
    <2> QED
      BY <2>1, <2>2
  <1>9. ASSUME NEW r \in Run, StopAtEvent(r) PROVE Past(q)'
    <2>1. CASE q # r
      <3>1. Calm(q)
        BY <1>9, <2>1, <1>t DEF StopAtEvent, Close, Become, Calm
      <3> QED
        BY <3>1, CalmKeeps
    <2>2. CASE q = r
      <3>1. GoesOn(q)
        BY <1>9, <2>2, <1>t, <1>i
           DEF StopAtEvent, Close, Become, GoesOn, Reporting, InFlight, Asked, RunInv, Handler, Stream,
               Final, RunState
      <3> QED
        BY <3>1, GoingOnKeeps
    <2> QED
      BY <2>1, <2>2
  <1>10. ASSUME NEW r \in Run, AgentEnds(r) PROVE Past(q)'
    <2>1. CASE q # r
      <3>1. Calm(q)
        BY <1>10, <2>1, <1>t DEF AgentEnds, Goto, Become, Calm
      <3> QED
        BY <3>1, CalmKeeps
    <2>2. CASE q = r
      <3>1. GoesOn(q)
        BY <1>10, <2>2, <1>t, <1>i
           DEF AgentEnds, Goto, Become, GoesOn, Reporting, InFlight, Asked, RunInv, Handler, Stream,
               Final, RunState
      <3> QED
        BY <3>1, GoingOnKeeps
    <2> QED
      BY <2>1, <2>2
  <1>11. ASSUME NEW r \in Run, Complete(r) PROVE Past(q)'
    <2>1. CASE q # r
      <3>1. Calm(q)
        BY <1>11, <2>1, <1>t DEF Complete, EndTrace, Leave, Become, Over, Outside, Calm
      <3> QED
        BY <3>1, CalmKeeps
    <2>2. CASE q = r
      <3>1. GoesOn(q)
        BY <1>11, <2>2, <1>t, <1>i
           DEF Complete, EndTrace, Leave, Become, Over, Outside, GoesOn, Reporting, InFlight, Asked,
               RunInv, Handler, Stream, Final, RunState
      <3> QED
        BY <3>1, GoingOnKeeps
    <2> QED
      BY <2>1, <2>2
  <1>12. ASSUME NEW r \in Run, AgentInterrupts(r) PROVE Past(q)'
    <2>1. CASE q # r
      <3>1. Calm(q)
        BY <1>12, <2>1, <1>t DEF AgentInterrupts, Close, Become, Calm
      <3> QED
        BY <3>1, CalmKeeps
    <2>2. CASE q = r
      <3>1. GoesOn(q)
        BY <1>12, <2>2, <1>t, <1>i
           DEF AgentInterrupts, Close, Become, GoesOn, Reporting, InFlight, Asked, RunInv, Handler,
               Stream, Final, RunState
      <3> QED
        BY <3>1, GoingOnKeeps
    <2> QED
      BY <2>1, <2>2
  <1>13. ASSUME NEW r \in Run, AgentRaises(r) PROVE Past(q)'
    <2>1. CASE q # r
      <3>1. Calm(q)
        BY <1>13, <2>1, <1>t DEF AgentRaises, Fail, Become, Calm
      <3> QED
        BY <3>1, CalmKeeps
    <2>2. CASE q = r
      <3>1. GoesOn(q)
        BY <1>13, <2>2, <1>t, <1>i
           DEF AgentRaises, Fail, OneMore, Become, GoesOn, Reporting, InFlight, Asked, RunInv, Handler, Stream,
               Final, RunState
      <3> QED
        BY <3>1, GoingOnKeeps
    <2> QED
      BY <2>1, <2>2
  <1>14. ASSUME NEW r \in Run, TailFails(r) PROVE Past(q)'
    <2>1. CASE q # r
      <3>1. Calm(q)
        BY <1>14, <2>1, <1>t DEF TailFails, Fail, Become, Calm
      <3> QED
        BY <3>1, CalmKeeps
    <2>2. CASE q = r
      <3>1. GoesOn(q)
        BY <1>14, <2>2, <1>t, <1>i
           DEF TailFails, Fail, OneMore, Become, GoesOn, Reporting, InFlight, Asked, RunInv, Handler, Stream,
               Final, RunState
      <3> QED
        BY <3>1, GoingOnKeeps
    <2> QED
      BY <2>1, <2>2
  <1>15. ASSUME NEW r \in Run, ErrorFrameDone(r) PROVE Past(q)'
    <2>1. CASE q # r
      <3>1. Calm(q)
        BY <1>15, <2>1, <1>t DEF ErrorFrameDone, Goto, Become, Calm
      <3> QED
        BY <3>1, CalmKeeps
    <2>2. CASE q = r
      <3>1. GoesOn(q)
        BY <1>15, <2>2, <1>t, <1>i
           DEF ErrorFrameDone, Goto, Become, GoesOn, Reporting, InFlight, Asked, RunInv, Handler,
               Stream, Final, RunState
      <3> QED
        BY <3>1, GoingOnKeeps
    <2> QED
      BY <2>1, <2>2
  <1>16. ASSUME NEW r \in Run, CloseTrace(r) PROVE Past(q)'
    <2>1. CASE q # r
      <3>1. Calm(q)
        BY <1>16, <2>1, <1>t DEF CloseTrace, EndTrace, Leave, Become, Over, Outside, Calm
      <3> QED
        BY <3>1, CalmKeeps
    <2>2. CASE q = r
      <3>1. GoesOn(q)
        BY <1>16, <2>2, <1>t, <1>i
           DEF CloseTrace, EndTrace, Leave, Become, Over, Outside, GoesOn, Reporting, InFlight, Asked,
               RunInv, Handler, Stream, Final, RunState
      <3> QED
        BY <3>1, GoingOnKeeps
    <2> QED
      BY <2>1, <2>2
  <1>17. ASSUME NEW r \in Run, CloseFails(r) PROVE Past(q)'
    <2>1. CASE q # r
      <3>1. Calm(q)
        BY <1>17, <2>1, <1>t DEF CloseFails, Leave, Become, Over, Outside, Calm
      <3> QED
        BY <3>1, CalmKeeps
    <2>2. CASE q = r
      <3>1. GoesOn(q)
        BY <1>17, <2>2, <1>t, <1>i
           DEF CloseFails, Leave, Become, Over, Outside, GoesOn, Reporting, InFlight, Asked, RunInv,
               Handler, Stream, Final, RunState
      <3> QED
        BY <3>1, GoingOnKeeps
    <2> QED
      BY <2>1, <2>2
  <1>18. ASSUME NEW r \in Run, Detach(r) PROVE Past(q)'
    <2>1. CASE q # r
      <3>1. Calm(q)
        BY <1>18, <2>1, <1>t DEF Detach, Leave, Become, Over, Outside, Calm
      <3> QED
        BY <3>1, CalmKeeps
    <2>2. CASE q = r
      <3>1. GoesOn(q)
        BY <1>18, <2>2, <1>t, <1>i
           DEF Detach, Leave, Become, Over, Outside, GoesOn, Reporting, InFlight, Asked, RunInv,
               Handler, Stream, Final, RunState
      <3> QED
        BY <3>1, GoingOnKeeps
    <2> QED
      BY <2>1, <2>2
  <1>19. ASSUME NEW r \in Run, Abandon(r) PROVE Past(q)'
    <2>1. CASE q # r
      <3>1. Calm(q)
        BY <1>19, <2>1, <1>t DEF Abandon, Leave, Become, Over, Outside, Calm
      <3> QED
        BY <3>1, CalmKeeps
    <2>2. CASE q = r
      <3>1. GoesOn(q)
        BY <1>19, <2>2, <1>t, <1>i
           DEF Abandon, Leave, Become, Over, Outside, GoesOn, Reporting, InFlight, Asked, RunInv,
               Handler, Stream, Final, RunState
      <3> QED
        BY <3>1, GoingOnKeeps
    <2> QED
      BY <2>1, <2>2
  <1>20. ASSUME NEW r \in Run, NeverStart(r) PROVE Past(q)'
    <2>1. CASE q # r
      <3>1. Calm(q)
        BY <1>20, <2>1, <1>t DEF NeverStart, Become, Over, Outside, Calm
      <3> QED
        BY <3>1, CalmKeeps
    <2>2. CASE q = r
      <3>1. GoesOn(q)
        BY <1>20, <2>2, <1>t, <1>i
           DEF NeverStart, Become, Over, Outside, GoesOn, Reporting, InFlight, Asked, RunInv, Handler,
               Stream, Final, RunState
      <3> QED
        BY <3>1, GoingOnKeeps
    <2> QED
      BY <2>1, <2>2
  <1>21. ASSUME NEW r \in Run, SkipSend(r) PROVE Past(q)'
    <2>1. CASE q # r
      <3>1. Calm(q)
        BY <1>21, <2>1, <1>t DEF SkipSend, AfterEvent, Leave, Become, Over, Outside, Calm
      <3> QED
        BY <3>1, CalmKeeps
    <2>2. CASE q = r
      <3> DEFINE local == [run[q] EXCEPT !.gone = TRUE]
      <3>0. At(q, "checking") /\ UNCHANGED <<stop, store, erased, doomed>>
        BY <1>21, <2>2 DEF SkipSend
      <3>1. CASE run[q].ev = "call"
        <4>1. run' = [run EXCEPT ![q] = Over(q, "dispatched")]
          BY <1>21, <2>2, <3>1 DEF SkipSend, AfterEvent, Leave, Become
        <4>2. run'[q].pc = "done" /\ run'[q].late = 0 /\ run'[q].last = run[q].last
          BY <4>1, <1>t DEF Over, Outside
        <4>3. GoesOn(q)
          BY <3>0, <4>2 DEF GoesOn, Reporting, InFlight, Asked, Stream
        <4> QED
          BY <4>3, GoingOnKeeps
      <3>2. CASE run[q].ev # "call"
        <4>1. run' = [run EXCEPT ![q] = [local EXCEPT !.pc = "pulling", !.ev = "status"]]
          BY <1>21, <2>2, <3>2 DEF SkipSend, AfterEvent, Become
        <4>2. local \in RunState /\ local.late = run[q].late /\ local.last = run[q].last
          BY <1>t DEF RunState
        <4> HIDE DEF local
        <4>3. run'[q].pc = "pulling" /\ run'[q].late = run[q].late
          /\ run'[q].last = run[q].last
          BY <4>1, <4>2, <1>t DEF RunState
        <4>4. GoesOn(q)
          BY <3>0, <4>3 DEF GoesOn, Reporting, InFlight, Asked, Stream
        <4> QED
          BY <4>4, GoingOnKeeps
      <3> QED
        BY <3>1, <3>2
    <2> QED
      BY <2>1, <2>2
  <1>22. ASSUME NEW r \in Run, Sent(r) PROVE Past(q)'
    <2>1. CASE q # r
      <3>1. Calm(q)
        BY <1>22, <2>1, <1>t DEF Sent, AfterEvent, Leave, Become, Over, Outside, Calm
      <3> QED
        BY <3>1, CalmKeeps
    <2>2. CASE q = r
      <3> DEFINE local == run[q]
      <3>0. At(q, "sending") /\ UNCHANGED <<stop, store, erased, doomed>>
        BY <1>22, <2>2 DEF Sent
      <3>1. CASE run[q].ev = "call"
        <4>1. run' = [run EXCEPT ![q] = Over(q, "dispatched")]
          BY <1>22, <2>2, <3>1 DEF Sent, AfterEvent, Leave, Become
        <4>2. run'[q].pc = "done" /\ run'[q].late = 0 /\ run'[q].last = run[q].last
          BY <4>1, <1>t DEF Over, Outside
        <4>3. GoesOn(q)
          BY <3>0, <4>2 DEF GoesOn, Reporting, InFlight, Asked, Stream
        <4> QED
          BY <4>3, GoingOnKeeps
      <3>2. CASE run[q].ev # "call"
        <4>1. run' = [run EXCEPT ![q] = [local EXCEPT !.pc = "pulling", !.ev = "status"]]
          BY <1>22, <2>2, <3>2 DEF Sent, AfterEvent, Become
        <4>2. local \in RunState /\ local.late = run[q].late /\ local.last = run[q].last
          BY <1>t DEF RunState
        <4> HIDE DEF local
        <4>3. run'[q].pc = "pulling" /\ run'[q].late = run[q].late
          /\ run'[q].last = run[q].last
          BY <4>1, <4>2, <1>t DEF RunState
        <4>4. GoesOn(q)
          BY <3>0, <4>3 DEF GoesOn, Reporting, InFlight, Asked, Stream
        <4> QED
          BY <4>4, GoingOnKeeps
      <3> QED
        BY <3>1, <3>2
    <2> QED
      BY <2>1, <2>2
  <1>23. ASSUME NEW r \in Run, NEW k \in Event, Emit(r, k) PROVE Past(q)'
    <2>1. CASE q # r
      <3>1. Calm(q)
        BY <1>23, <2>1, <1>t DEF Emit, Pulled, Become, Calm
      <3> QED
        BY <3>1, CalmKeeps
    <2>2. CASE q = r
      <3>1. GoesOn(q)
        BY <1>23, <2>2, <1>t, <1>i
           DEF Emit, Pulled, Become, GoesOn, Reporting, InFlight, Asked, RunInv, Handler, Stream,
               Final, RunState
      <3> QED
        BY <3>1, GoingOnKeeps
    <2> QED
      BY <2>1, <2>2
  <1>24. ASSUME NEW r \in Run, Register(r) PROVE Past(q)'
    <2>1. CASE q # r
      <3>1. Calm(q)
        BY <1>24, <2>1, <1>t DEF Register, Registered, Rivals, Calm, RunState
      <3> QED
        BY <3>1, CalmKeeps
    <2>2. CASE q = r
      <3>1. GoesOn(q)
        BY <1>24, <2>2, <1>t
        DEF Register, Registered, GoesOn, Reporting, InFlight, Asked, Handler, Stream, RunState
      <3> QED
        BY <3>1, GoingOnKeeps
    <2> QED
      BY <2>1, <2>2
  <1>25. ASSUME NEW r \in Run, Disconnect(r) PROVE Past(q)'
    <2>1. Calm(q)
      BY <1>25, <1>t DEF Disconnect, Become, Calm, RunState
    <2> QED
      BY <2>1, CalmKeeps
  <1>26. ASSUME NEW r \in Run, TearDown(r) PROVE Past(q)'
    <2>1. CASE q # r
      <3>1. Calm(q)
        BY <1>26, <2>1, <1>t DEF TearDown, Close, Become, EndTrace, Calm
      <3> QED
        BY <3>1, CalmKeeps
    <2>2. CASE q = r /\ UNCHANGED msgs
      <3>1. GoesOn(q)
        BY <1>26, <2>2, <1>t
           DEF TearDown, Close, Become, EndTrace, GoesOn, Reporting, InFlight, Asked, Handler, Stream,
               RunState
      <3> QED
        BY <3>1, GoingOnKeeps
    <2>3. CASE q = r /\ At(r, "appending") /\ msgs' = msgs \cup {<<r, "ai">>}
      /\ UNCHANGED trace
      BY <1>26, <2>3, <1>t
         DEF TearDown, Close, Become, Past, Reporting, InFlight, Asked, HasRows, Owner, Handler,
             Stream, RunState
    <2> QED
      BY <1>26, <2>1, <2>2, <2>3 DEF TearDown
  <1>27. ASSUME NEW r \in Run, EndInBackground(r) PROVE Past(q)'
    <2>1. CASE q # r
      <3>1. Calm(q)
        BY <1>27, <2>1, <1>t DEF EndInBackground, EndTrace, Become, Calm
      <3> QED
        BY <3>1, CalmKeeps
    <2>2. CASE q = r
      <3>1. /\ run'[q].pc = run[q].pc /\ run'[q].late = run[q].late
            /\ run'[q].last = run[q].last /\ run'[q].verdict = run[q].verdict
            /\ UNCHANGED <<stop, msgs, erased, doomed>>
        BY <1>27, <2>2, <1>t DEF EndInBackground, Become, RunState
      <3>2. \/ trace'[q] = trace[q]
            \/ trace[q] \notin {"none", "erased"} /\ trace'[q] \notin {"none", "erased"}
        BY <1>27, <2>2, <1>t, <1>i DEF EndInBackground, EndTrace, EndingInv, Final
      <3> QED
        BY <3>1, <3>2 DEF Past, Reporting, InFlight, Asked, HasRows, Owner
    <2> QED
      BY <2>1, <2>2
  <1>28. ASSUME NEW u \in User, Cancel(u) PROVE Past(q)'
    <2>1. UNCHANGED <<run, trace, msgs, erased, doomed>>
      BY <1>28 DEF Cancel
    <2>2. stop[q] => stop'[q]
      BY <1>28, Zenon DEF Cancel
    <2>3. Calm(q)
      BY <2>1, <2>2 DEF Calm
    <2> QED
      BY <2>3, CalmKeeps
  <1>29. ASSUME NEW u \in Leaver, DeleteMe(u) PROVE Past(q)'
    <2>1. UNCHANGED <<run, stop>>
      BY <1>29 DEF DeleteMe
    <2>2. CASE Owner(q) = u
      <3>1. \A role \in {"human", "ai"} : <<q, role>> \notin msgs'
        BY <1>29, <2>2 DEF DeleteMe
      <3>2. trace'[q] \in {"none", "erased"} /\ (Asked(q) => trace'[q] = "erased")
        BY <1>29, <2>2, <1>i DEF DeleteMe, Asked, RunInv, Stream
      <3>3. q \in doomed' <=> InFlight(q)
        BY <1>29, <2>2 DEF DeleteMe, InFlight
      <3> QED
        BY <2>1, <3>1, <3>2, <3>3 DEF Past, Reporting, InFlight, Asked, HasRows
    <2>3. CASE Owner(q) # u
      <3>1. \A role \in {"human", "ai"} : <<q, role>> \in msgs' <=> <<q, role>> \in msgs
        BY <1>29, <2>3 DEF DeleteMe
      <3>2. trace'[q] = trace[q] /\ (q \in doomed' <=> q \in doomed)
        BY <1>29, <2>3, <1>t DEF DeleteMe
      <3>3. Owner(q) \in erased' => Owner(q) \in erased
        BY <1>29, <2>3 DEF DeleteMe
      <3> QED
        BY <2>1, <3>1, <3>2, <3>3 DEF Past, Reporting, InFlight, Asked, HasRows, Owner
    <2> QED
      BY <2>2, <2>3
  <1>30. ASSUME Crash PROVE Past(q)'
    <2>1. CASE run'[q] = run[q]
      <3>1. Calm(q)
        BY <1>30, <2>1 DEF Crash, Calm
      <3> QED
        BY <3>1, CalmKeeps
    <2>2. CASE run'[q] = Over(q, "crashed") /\ InFlight(q)
      <3>1. /\ run'[q].pc = "done" /\ run'[q].late = 0 /\ run'[q].last = run[q].last
            /\ UNCHANGED <<stop, trace, msgs, erased, doomed>>
        BY <1>30, <2>2 DEF Crash, Over, Outside
      <3>2. GoesOn(q)
        BY <2>2, <3>1 DEF GoesOn, Asked, Stream
      <3> QED
        BY <3>2, GoingOnKeeps
    <2>3. CASE run'[q] = Over(q, "crashed") /\ Ending(q)
      <3>1. At(q, "done")
        BY <2>3, <1>i DEF Ending, EndingInv
      <3>2. /\ run'[q].pc = "done" /\ run'[q].late = 0 /\ run'[q].last = run[q].last
            /\ UNCHANGED <<stop, trace, msgs, erased, doomed>>
        BY <1>30, <2>3 DEF Crash, Over, Outside
      <3> QED
        BY <3>1, <3>2 DEF Past, Reporting, InFlight, Asked, HasRows, Owner, Handler, Stream
    <2> QED
      BY <1>30, <2>1, <2>2, <2>3 DEF Crash, InFlight
  <1>31. CASE UNCHANGED vars
    <2>1. Calm(q)
      BY <1>31 DEF vars, Calm
    <2> QED
      BY <2>1, CalmKeeps
  <1> HIDE DEF store, ghost, spent, At
  <1> QED
    BY <1>1, <1>2, <1>3, <1>4, <1>5, <1>6, <1>7, <1>8, <1>9, <1>10, <1>11, <1>12, <1>13,
       <1>14, <1>15, <1>16, <1>17, <1>18, <1>19, <1>20, <1>21, <1>22, <1>23, <1>24, <1>25,
         <1>26, <1>27, <1>28, <1>29, <1>30, <1>31
       DEF Next, ClientStep, HandlerStep, StreamStep

LEMMA PastHolds == Spec => [](\A q \in Run : Past(q))
  <1>1. Init => \A q \in Run : Past(q)
    BY DEF Init, Past, Fresh, Outside, Asked, InFlight, HasRows, Handler, Stream
  <1>2. IInv /\ (\A q \in Run : Past(q)) /\ [Next]_vars => (\A q \in Run : Past(q))'
    BY PastStep
  <1> QED
    BY <1>1, <1>2, Invariance, PTL DEF Spec

(* After the cancel event of a run is set at most the one frame that was   *)
(* already past the check goes out, and after it only the report of an     *)
(* error.                                                                  *)
THEOREM LateFramesHolds == Spec => []LateFrames
  <1>1. (\A q \in Run : Past(q)) => LateFrames
    <2> SUFFICES ASSUME NEW r \in Run, Past(r)
                 PROVE  run[r].late <= IF run[r].verdict = "error" THEN 2 ELSE 1
      BY DEF LateFrames
    <2>1. run[r].late = 0 \/ run[r].late = 1 \/ (run[r].late = 2 /\ run[r].verdict = "error")
      BY Zenon DEF Past
    <2> QED
      BY <2>1
  <1> QED
    BY <1>1, PastHolds, PTL

(* An answer without the human message of its exchange in the log comes    *)
(* from a follow-up, or from a run that outlived the deletion of its user. *)
THEOREM AnswerFollowsQuestionHolds == Spec => []AnswerFollowsQuestion
  <1>1. TypeOK /\ (\A q \in Run : Past(q)) => AnswerFollowsQuestion
    <2> SUFFICES ASSUME TypeOK, \A q \in Run : Past(q), NEW r \in Run,
                        <<r, "ai">> \in msgs, <<r, "human">> \notin msgs
                 PROVE  run[r].last = "tool" \/ trace[r] = "erased"
      BY DEF AnswerFollowsQuestion
    <2>1. run[r].last \in {"human", "tool"}
      BY DEF TypeOK, RunState
    <2> QED
      BY <2>1 DEF Past
  <1> QED
    BY <1>1, TypeCorrect, PastHolds, PTL

(* What the tables still hold of a deleted user who has not come back was  *)
(* written by a request that was in flight at the deletion.                *)
THEOREM ResidueIsInFlightHolds == Spec => []ResidueIsInFlight
  <1>1. (\A q \in Run : Past(q)) => ResidueIsInFlight
    BY DEF Past, HasRows, ResidueIsInFlight
  <1> QED
    BY <1>1, PastHolds, PTL

-----------------------------------------------------------------------------
(* The accounts.                                                           *)
KeyRow == [user : Person, revoked : BOOLEAN]

CallRow(pcs) == [pc : pcs, user : Person \cup {None}, key : Key \cup {None}, found : BOOLEAN]
RequestRow ==
    CallRow({"idle", "keyed", "known", "reading", "admitted", "refused", "failed", "done"})
CommandRow == CallRow({"idle", "issuing", "revoking"})

Underway(q) == q.pc \in {"keyed", "known", "reading"}

EntryTypes ==
    /\ backend \in Backend
    /\ users \in SUBSET Person
    /\ keys \in [Key -> KeyRow \cup {None}]
    /\ req \in [Request -> RequestRow] /\ cmd \in [Command -> CommandRow]
    /\ dead \in [Request -> SUBSET Key]
    /\ issued \in SUBSET Key /\ gone \in SUBSET issued
    /\ left \in SUBSET Person /\ flown \in SUBSET Request
    /\ \A r \in Request : Underway(req[r]) => req[r].user \in Person
    /\ \A c \in Command : /\ cmd[c].pc = "issuing" => cmd[c].user \in Person
                          /\ cmd[c].pc = "revoking" => cmd[c].key \in Key

(* A row of a key: its user is there and was not erased since the key was  *)
(* issued, and a key that is gone has no row, or a revoked one.            *)
KeyInv(k) ==
    /\ keys[k] # None => k \in issued /\ keys[k].user \in users \ left
    /\ k \in gone => keys[k] = None \/ keys[k].revoked

(* A request with a key: the key was alive when it began, and the request  *)
(* is known to have been in flight if its user was erased.                 *)
RequestInv(r) ==
    /\ Underway(req[r]) \/ req[r].pc = "admitted" => req[r].key \in issued \ dead[r]
    /\ Underway(req[r]) /\ req[r].user \in left => r \in flown

EntryInv ==
    /\ EntryTypes
    /\ \A k \in Key : KeyInv(k)
    /\ backend = "table" => \A r \in Request : RequestInv(r)

-----------------------------------------------------------------------------
LEMMA IdleTyped == Entry!Idle \in RequestRow /\ Entry!Idle \in CommandRow
  /\ Entry!Idle.pc = "idle"
  BY DEF Entry!Idle, RequestRow, CommandRow, CallRow

LEMMA EntryInit == Entry!Init => EntryInv
<1> SUFFICES ASSUME Entry!Init  PROVE EntryInv  OBVIOUS
<1>1. EntryTypes  BY IdleTyped DEF Entry!Init, EntryTypes, Underway
<1>2. \A k \in Key : KeyInv(k)  BY DEF Entry!Init, KeyInv
<1>3. \A r \in Request : RequestInv(r)  BY IdleTyped DEF Entry!Init, RequestInv, Underway
<1> QED  BY <1>1, <1>2, <1>3 DEF EntryInv

(* A step of one request that leaves the keys alone and adds users at most.*)
LEMMA RequestStep ==
    ASSUME EntryInv, NEW r \in Request, NEW n \in RequestRow, req' = [req EXCEPT ![r] = n],
           UNCHANGED <<backend, keys, cmd, issued, gone>>,
           users \subseteq users', users' \subseteq Person, left' \subseteq left,
           dead' \in [Request -> SUBSET Key], flown' \in SUBSET Request,
           \A q \in Request \ {r} : dead'[q] = dead[q] /\ (q \in flown => q \in flown'),
           Underway(n) => n.user \in Person,
           backend = "table" =>
              /\ Underway(n) \/ n.pc = "admitted" => n.key \in issued \ dead'[r]
              /\ Underway(n) /\ n.user \in left' => r \in flown'
    PROVE  EntryInv'
<1> USE DEF EntryInv
<1>1. req'[r] = n /\ \A q \in Request \ {r} : req'[q] = req[q]  BY DEF EntryTypes
<1>2. EntryTypes'
  <2>1. req' \in [Request -> RequestRow]  BY DEF EntryTypes
  <2>2. \A q \in Request : Underway(req[q])' => req'[q].user \in Person
        BY <1>1 DEF EntryTypes, Underway
  <2> QED  BY <2>1, <2>2 DEF EntryTypes
<1>3. \A k \in Key : KeyInv(k)'  BY DEF KeyInv
<1>4. backend' = "table" => \A q \in Request : RequestInv(q)'
      BY <1>1 DEF RequestInv, Underway
<1> QED  BY <1>2, <1>3, <1>4

(* A step of a command: it changes keys, and users by adding to them.      *)
LEMMA CommandStep ==
    ASSUME EntryInv, NEW c \in Command, NEW n \in CommandRow, cmd' = [cmd EXCEPT ![c] = n],
           n.pc = "issuing" => n.user \in Person, n.pc = "revoking" => n.key \in Key,
           UNCHANGED <<backend, req, dead, flown>>,
           users \subseteq users', users' \subseteq Person, left' \subseteq left,
           issued \subseteq issued', issued' \subseteq Key, gone' \subseteq issued',
           keys' \in [Key -> KeyRow \cup {None}], \A k \in Key : KeyInv(k)'
    PROVE  EntryInv'
<1> USE DEF EntryInv
<1>1. cmd'[c] = n /\ \A d \in Command \ {c} : cmd'[d] = cmd[d]  BY DEF EntryTypes
<1>2. EntryTypes'
  <2>1. cmd' \in [Command -> CommandRow]  BY DEF EntryTypes
  <2>2. \A q \in Request : Underway(req[q])' => req'[q].user \in Person
        BY DEF EntryTypes, Underway
  <2> QED  BY <1>1, <2>1, <2>2 DEF EntryTypes
<1>3. backend' = "table" => \A q \in Request : RequestInv(q)'
      BY DEF RequestInv, Underway
<1> QED  BY <1>2, <1>3

-----------------------------------------------------------------------------
LEMMA ReadKeyKeeps ==
    ASSUME EntryInv, NEW r \in Request, NEW k \in Key, NEW right \in BOOLEAN,
           Entry!ReadKey(r, k, right)
    PROVE  EntryInv'
<1>1. req[r] \in RequestRow  BY DEF EntryInv, EntryTypes
<1>2. /\ UNCHANGED <<backend, users, keys, cmd, issued, gone, left, flown>>
      /\ dead' = [dead EXCEPT ![r] = gone]
      BY DEF Entry!ReadKey
<1>3. /\ dead' \in [Request -> SUBSET Key] /\ dead'[r] = gone /\ flown' \in SUBSET Request
      /\ users \subseteq users' /\ users' \subseteq Person /\ left' \subseteq left
      /\ \A q \in Request \ {r} : dead'[q] = dead[q] /\ (q \in flown => q \in flown')
      BY <1>2 DEF EntryInv, EntryTypes
<1>4. CASE Entry!Goes(r, "refused")
  <2> DEFINE n == [req[r] EXCEPT !.pc = "refused"]
  <2>1. n \in RequestRow /\ n.pc = "refused"  BY <1>1 DEF RequestRow, CallRow
  <2>2. req' = [req EXCEPT ![r] = n]  BY <1>4 DEF Entry!Goes
  <2> HIDE DEF n
  <2> QED  BY <1>2, <1>3, <2>1, <2>2, RequestStep DEF Underway
<1>5. CASE /\ keys[k] # None /\ ~ keys[k].revoked
           /\ req' = [req EXCEPT ![r] = [@ EXCEPT !.pc = "keyed", !.user = keys[k].user, !.key = k]]
  <2> DEFINE n == [req[r] EXCEPT !.pc = "keyed", !.user = keys[k].user, !.key = k]
  <2>1. keys[k] \in KeyRow  BY <1>5 DEF EntryInv, EntryTypes
  <2>2. keys[k].user \in Person  BY <2>1 DEF KeyRow
  <2>3. n \in RequestRow /\ n.pc = "keyed" /\ n.user = keys[k].user /\ n.key = k
        BY <1>1, <2>2 DEF RequestRow, CallRow
  <2>4. k \in issued \ gone /\ keys[k].user \notin left  BY <1>5 DEF EntryInv, KeyInv
  <2>5. req' = [req EXCEPT ![r] = n]  BY <1>5
  <2> HIDE DEF n
  <2> QED  BY <1>2, <1>3, <2>2, <2>3, <2>4, <2>5, RequestStep DEF Underway
<1> QED  BY <1>4, <1>5 DEF Entry!ReadKey

LEMMA TakenKeeps ==
    ASSUME EntryInv, NEW r \in Request, NEW u \in Person, NEW ok \in BOOLEAN,
           Entry!Taken(r, u, ok),
           backend # "table"
    PROVE  EntryInv'
<1>1. req[r] \in RequestRow  BY DEF EntryInv, EntryTypes
<1>2. UNCHANGED <<backend, users, keys, cmd, issued, gone, left, dead, flown>>
      BY DEF Entry!Taken, Entry!ghosts
<1>3. /\ dead' \in [Request -> SUBSET Key] /\ flown' \in SUBSET Request
      /\ users \subseteq users' /\ users' \subseteq Person /\ left' \subseteq left
      /\ \A q \in Request \ {r} : dead'[q] = dead[q] /\ (q \in flown => q \in flown')
      BY <1>2 DEF EntryInv, EntryTypes
<1>4. CASE Entry!Goes(r, "refused")
  <2> DEFINE n == [req[r] EXCEPT !.pc = "refused"]
  <2>1. n \in RequestRow /\ n.pc = "refused"  BY <1>1 DEF RequestRow, CallRow
  <2>2. req' = [req EXCEPT ![r] = n]  BY <1>4 DEF Entry!Goes
  <2> HIDE DEF n
  <2> QED  BY <1>2, <1>3, <2>1, <2>2, RequestStep DEF Underway
<1>5. CASE req' = [req EXCEPT ![r] = [@ EXCEPT !.pc = "known", !.user = u]]
  <2> DEFINE n == [req[r] EXCEPT !.pc = "known", !.user = u]
  <2>1. n \in RequestRow /\ n.user = u  BY <1>1 DEF RequestRow, CallRow
  <2>2. req' = [req EXCEPT ![r] = n]  BY <1>5
  <2> HIDE DEF n
  <2> QED  BY <1>2, <1>3, <2>1, <2>2, RequestStep
<1> QED  BY <1>4, <1>5 DEF Entry!Taken

(* A request that only moves on, or finds its user or does not.            *)
LEMMA MovesOn ==
    ASSUME EntryInv, NEW r \in Request, Underway(req[r]),
           NEW p \in {"known", "reading", "admitted", "refused", "failed"},
             NEW b \in BOOLEAN,
           req' = [req EXCEPT ![r] = [@ EXCEPT !.pc = p, !.found = b]],
           UNCHANGED <<backend, users, keys, cmd, issued, gone, dead, left, flown>>
    PROVE  EntryInv'
<1> DEFINE n == [req[r] EXCEPT !.pc = p, !.found = b]
<1>1. req[r] \in RequestRow  BY DEF EntryInv, EntryTypes
<1>2. n \in RequestRow /\ n.user = req[r].user /\ n.key = req[r].key
      BY <1>1 DEF RequestRow, CallRow
<1>3. req' = [req EXCEPT ![r] = n]  OBVIOUS
<1>4. /\ dead' \in [Request -> SUBSET Key] /\ flown' \in SUBSET Request
      /\ \A q \in Request \ {r} : dead'[q] = dead[q] /\ (q \in flown => q \in flown')
      /\ users \subseteq users' /\ users' \subseteq Person /\ left' \subseteq left
      /\ n.user \in Person
      BY <1>2 DEF EntryInv, EntryTypes
<1> HIDE DEF n
<1>5. backend = "table" => RequestInv(r)  BY DEF EntryInv
<1> QED  BY <1>2, <1>3, <1>4, <1>5, RequestStep DEF RequestInv

LEMMA ReadUserKeeps ==
    ASSUME EntryInv, NEW r \in Request, Entry!ReadUser(r) \/ Entry!UpsertRead(r)
    PROVE  EntryInv'
<1>1. req[r] \in RequestRow /\ Underway(req[r])
      BY DEF EntryInv, EntryTypes, Entry!ReadUser, Entry!UpsertRead, Underway
<1>2. UNCHANGED <<backend, users, keys, cmd, issued, gone, dead, left, flown>>
      BY DEF Entry!ReadUser, Entry!UpsertRead, Entry!ghosts
<1>3. CASE Entry!ReadUser(r)
  <2>1. PICK p \in {"known", "refused"} : Entry!Goes(r, p)  BY <1>3 DEF Entry!ReadUser
  <2>2. req[r].found \in BOOLEAN  BY <1>1 DEF RequestRow, CallRow
  <2>3. req' = [req EXCEPT ![r] = [@ EXCEPT !.pc = p, !.found = req[r].found]]
        BY <1>1, <2>1 DEF Entry!Goes, RequestRow, CallRow
  <2> QED  BY <1>1, <1>2, <2>2, <2>3, MovesOn
<1>4. CASE Entry!UpsertRead(r)
  <2>1. (req[r].user \in users) \in BOOLEAN  OBVIOUS
  <2> QED  BY <1>1, <1>2, <1>4, <2>1, MovesOn DEF Entry!UpsertRead
<1> QED  BY <1>3, <1>4

LEMMA UpsertCommitKeeps ==
    ASSUME EntryInv, NEW r \in Request, Entry!UpsertCommit(r)
    PROVE  EntryInv'
<1> DEFINE u == req[r].user
<1>1. req[r] \in RequestRow /\ Underway(req[r]) /\ u \in Person
      BY DEF EntryInv, EntryTypes, Entry!UpsertCommit, Underway
<1>2. PICK p \in {"admitted", "failed"} :
         /\ Entry!Goes(r, p)
         /\ users' = users \/ users' = users \cup {u}
         /\ left' \subseteq left
      BY DEF Entry!UpsertCommit
<1>3. UNCHANGED <<backend, keys, cmd, issued, gone, dead, flown>>  BY DEF Entry!UpsertCommit
<1> DEFINE n == [req[r] EXCEPT !.pc = p]
<1>4. n \in RequestRow /\ n.pc = p /\ n.user = u /\ n.key = req[r].key
      BY <1>1 DEF RequestRow, CallRow
<1>5. req' = [req EXCEPT ![r] = n]  BY <1>2 DEF Entry!Goes
<1>6. /\ dead' \in [Request -> SUBSET Key] /\ flown' \in SUBSET Request
      /\ users \subseteq users' /\ users' \subseteq Person
      /\ \A q \in Request \ {r} : dead'[q] = dead[q] /\ (q \in flown => q \in flown')
      BY <1>1, <1>2, <1>3 DEF EntryInv, EntryTypes
<1>7. backend = "table" => RequestInv(r)  BY DEF EntryInv
<1> HIDE DEF n
<1> QED  BY <1>1, <1>2, <1>3, <1>4, <1>5, <1>6, <1>7, RequestStep DEF RequestInv, Underway

(* Whoever is under way when its user is erased is known to have been.     *)
LEMMA DeleteMeKeeps ==
    ASSUME EntryInv, NEW r \in Request, Entry!DeleteMe(r)
    PROVE  EntryInv'
<1> DEFINE u == req[r].user
           n == [req[r] EXCEPT !.pc = "done"]
<1> USE DEF EntryInv
<1>1. req[r] \in RequestRow /\ u \in Person  BY DEF EntryTypes, Entry!DeleteMe, Underway
<1>2. n \in RequestRow /\ n.pc = "done"  BY <1>1 DEF RequestRow, CallRow
<1>3. req' = [req EXCEPT ![r] = n]  BY DEF Entry!DeleteMe, Entry!Goes
<1> HIDE DEF n
<1>4. req'[r] = n /\ \A q \in Request \ {r} : req'[q] = req[q]  BY <1>3 DEF EntryTypes
<1>5. /\ UNCHANGED <<backend, cmd, issued, dead>>
      /\ users' = users \ {u} /\ left' = left \cup {u}
      /\ gone' = gone \cup {k \in Key : keys[k] # None /\ keys[k].user = u}
      /\ flown' = flown \cup (Entry!InFlight(u) \ {r})
      /\ keys' = [k \in Key |-> IF keys[k] # None /\ keys[k].user = u THEN None ELSE keys[k]]
      BY DEF Entry!DeleteMe, Entry!Without
<1>6. \A k \in Key : KeyInv(k)'
  <2> SUFFICES ASSUME NEW k \in Key  PROVE KeyInv(k)'  OBVIOUS
  <2>1. CASE keys[k] # None /\ keys[k].user = u
        BY <1>5, <2>1 DEF KeyInv
  <2>2. CASE ~ (keys[k] # None /\ keys[k].user = u)
        BY <1>5, <2>2 DEF KeyInv
  <2> QED  BY <2>1, <2>2
<1>7. EntryTypes'
  <2>1. req' \in [Request -> RequestRow]  BY <1>2, <1>3 DEF EntryTypes
  <2>2. keys' \in [Key -> KeyRow \cup {None}]  BY <1>5 DEF EntryTypes
  <2>3. gone' \in SUBSET issued'  BY <1>5 DEF EntryTypes, KeyInv
  <2>4. users' \in SUBSET Person /\ left' \in SUBSET Person /\ flown' \in SUBSET Request
        BY <1>1, <1>5 DEF EntryTypes, Entry!InFlight
  <2>5. \A q \in Request : Underway(req[q])' => req'[q].user \in Person
        BY <1>2, <1>4 DEF EntryTypes, Underway
  <2> QED  BY <1>5, <2>1, <2>2, <2>3, <2>4, <2>5 DEF EntryTypes
<1>8. backend' = "table" => \A q \in Request : RequestInv(q)'
  <2> SUFFICES ASSUME backend = "table", NEW q \in Request  PROVE RequestInv(q)'
      BY <1>5
  <2>1. CASE q = r  BY <1>2, <1>4, <2>1 DEF RequestInv, Underway
  <2>2. CASE q # r /\ req[q].user # u
        BY <1>4, <1>5, <2>2 DEF RequestInv, Underway
  <2>3. CASE q # r /\ req[q].user = u
        BY <1>4, <1>5, <2>3 DEF RequestInv, Underway, Entry!InFlight
  <2> QED  BY <2>1, <2>2, <2>3
<1> QED  BY <1>6, <1>7, <1>8

LEMMA LeaveKeeps ==
    ASSUME EntryInv, NEW r \in Request, Entry!Leave(r)
    PROVE  EntryInv'
<1>1. /\ UNCHANGED <<backend, users, keys, cmd, issued, gone, left>>
      /\ req' = [req EXCEPT ![r] = Entry!Idle]
      BY DEF Entry!Leave
<1>2. /\ dead' \in [Request -> SUBSET Key] /\ flown' \in SUBSET Request
      /\ users \subseteq users' /\ users' \subseteq Person /\ left' \subseteq left
      /\ \A q \in Request \ {r} : dead'[q] = dead[q] /\ (q \in flown => q \in flown')
      BY DEF Entry!Leave, EntryInv, EntryTypes
<1> QED  BY <1>1, <1>2, IdleTyped, RequestStep DEF Underway

-----------------------------------------------------------------------------
LEMMA ReadingKeeps ==
    ASSUME EntryInv, NEW c \in Command,
           \/ \E u \in Person : Entry!IssueRead(c, u)
           \/ \E k \in Key : Entry!RevokeRead(c, k)
    PROVE  EntryInv'
<1>1. cmd[c] \in CommandRow /\ cmd \in [Command -> CommandRow] /\ cmd[c].pc = "idle"
      BY DEF EntryInv, EntryTypes, Entry!IssueRead, Entry!RevokeRead
<1>2. UNCHANGED <<backend, users, keys, req, issued, gone, dead, left, flown>>
      BY DEF Entry!IssueRead, Entry!RevokeRead, Entry!ghosts
<1>3. /\ users \subseteq users' /\ users' \subseteq Person /\ left' \subseteq left
      /\ issued \subseteq issued' /\ issued' \subseteq Key /\ gone' \subseteq issued'
      /\ keys' \in [Key -> KeyRow \cup {None}] /\ \A k \in Key : KeyInv(k)'
      BY <1>2 DEF EntryInv, EntryTypes, KeyInv
<1>4. ASSUME NEW u \in Person, Entry!IssueRead(c, u)  PROVE EntryInv'
  <2> DEFINE n == [cmd[c] EXCEPT !.pc = "issuing", !.user = u, !.found = u \in users]
  <2>1. (u \in users) \in BOOLEAN  OBVIOUS
  <2>2. n \in CommandRow /\ n.pc = "issuing" /\ n.user = u
        BY <1>1, <2>1 DEF CommandRow, CallRow
  <2>3. cmd' = [cmd EXCEPT ![c] = n]  BY <1>4 DEF Entry!IssueRead
  <2> HIDE DEF n
  <2> QED  BY <1>2, <1>3, <2>2, <2>3, CommandStep
<1>5. ASSUME NEW k \in Key, Entry!RevokeRead(c, k)  PROVE EntryInv'
  <2>1. CASE cmd' = cmd
    <3>1. cmd' = [cmd EXCEPT ![c] = cmd[c]]  BY <1>1, <2>1
    <3> QED  BY <1>1, <1>2, <1>3, <3>1, CommandStep
  <2>2. CASE cmd' = [cmd EXCEPT ![c] = [@ EXCEPT !.pc = "revoking", !.key = k]]
    <3> DEFINE n == [cmd[c] EXCEPT !.pc = "revoking", !.key = k]
    <3>1. n \in CommandRow /\ n.pc = "revoking" /\ n.key = k
          BY <1>1 DEF CommandRow, CallRow
    <3>2. cmd' = [cmd EXCEPT ![c] = n]  BY <2>2
    <3> HIDE DEF n
    <3> QED  BY <1>2, <1>3, <3>1, <3>2, CommandStep
  <2> QED  BY <1>5, <2>1, <2>2 DEF Entry!RevokeRead
<1> QED  BY <1>4, <1>5

(* The key and its user come into being together, or the user was there    *)
(* all the time.                                                           *)
LEMMA IssueCommitKeeps ==
    ASSUME EntryInv, NEW c \in Command, NEW k \in Key, Entry!IssueCommit(c, k)
    PROVE  EntryInv'
<1> DEFINE u == cmd[c].user
           row == [user |-> u, revoked |-> FALSE]
<1>1. u \in Person  BY DEF EntryInv, EntryTypes, Entry!IssueCommit
<1>2. row \in KeyRow /\ row.user = u  BY <1>1 DEF KeyRow
<1>3. UNCHANGED <<backend, req, gone, dead, flown>> /\ cmd' = [cmd EXCEPT ![c] = Entry!Idle]
      BY DEF Entry!IssueCommit
<1> HIDE DEF row
<1>4. CASE UNCHANGED <<users, keys, issued, left>>
  <2>1. \A j \in Key : KeyInv(j)'  BY <1>3, <1>4 DEF EntryInv, KeyInv
  <2> QED  BY <1>3, <1>4, <2>1, IdleTyped, CommandStep DEF EntryInv, EntryTypes
<1>5. CASE /\ users' = IF cmd[c].found THEN users ELSE users \cup {u}
           /\ keys' = [keys EXCEPT ![k] = row]
           /\ issued' = issued \cup {k} /\ left' = left \ {u}
           /\ Entry!Lands(c)
  <2>1. u \in users' /\ users \subseteq users' /\ users' \subseteq Person
        BY <1>1, <1>5 DEF Entry!Lands, EntryInv, EntryTypes
  <2>2. k \notin gone  BY DEF Entry!IssueCommit, EntryInv, EntryTypes
  <2>3. \A j \in Key : KeyInv(j)'
    <3> SUFFICES ASSUME NEW j \in Key  PROVE KeyInv(j)'  OBVIOUS
    <3>1. CASE j = k
      <4>1. keys'[k] = row  BY <1>5 DEF EntryInv, EntryTypes
      <4> QED  BY <1>2, <1>3, <1>5, <2>1, <2>2, <3>1, <4>1 DEF KeyInv
    <3>2. CASE j # k
      <4>1. keys'[j] = keys[j]  BY <1>5, <3>2 DEF EntryInv, EntryTypes
      <4> QED  BY <1>3, <1>5, <2>1, <4>1 DEF EntryInv, KeyInv
    <3> QED  BY <3>1, <3>2
  <2>4. keys' \in [Key -> KeyRow \cup {None}]  BY <1>2, <1>5 DEF EntryInv, EntryTypes
  <2>5. issued \subseteq issued' /\ issued' \subseteq Key /\ gone' \subseteq issued'
    /\ left' \subseteq left
        BY <1>3, <1>5 DEF EntryInv, EntryTypes
  <2> QED  BY <1>3, <2>1, <2>3, <2>4, <2>5, IdleTyped, CommandStep
<1> QED  BY <1>4, <1>5 DEF Entry!IssueCommit, row

LEMMA RevokeCommitKeeps ==
    ASSUME EntryInv, NEW c \in Command, Entry!RevokeCommit(c)
    PROVE  EntryInv'
<1> DEFINE k == cmd[c].key
<1>1. k \in Key  BY DEF EntryInv, EntryTypes, Entry!RevokeCommit
<1>2. UNCHANGED <<backend, users, req, issued, dead, left,
  flown>> /\ cmd' = [cmd EXCEPT ![c] = Entry!Idle]
      BY DEF Entry!RevokeCommit
<1>3. CASE keys[k] = None
  <2>1. keys' = keys /\ gone' = gone  BY <1>3 DEF Entry!RevokeCommit
  <2>2. \A j \in Key : KeyInv(j)'  BY <1>2, <2>1 DEF EntryInv, KeyInv
  <2> QED  BY <1>2, <2>1, <2>2, IdleTyped, CommandStep DEF EntryInv, EntryTypes
<1>4. CASE keys[k] # None
  <2> DEFINE row == [keys[k] EXCEPT !.revoked = TRUE]
  <2>1. keys[k] \in KeyRow  BY <1>1, <1>4 DEF EntryInv, EntryTypes
  <2>2. row \in KeyRow /\ row.user = keys[k].user /\ row.revoked  BY <2>1 DEF KeyRow
  <2>3. keys' = [keys EXCEPT ![k] = row] /\ gone' = gone \cup {k}
        BY <1>4 DEF Entry!RevokeCommit
  <2> HIDE DEF row
  <2>4. \A j \in Key : KeyInv(j)'
    <3> SUFFICES ASSUME NEW j \in Key  PROVE KeyInv(j)'  OBVIOUS
    <3>1. CASE j = k
      <4>1. keys'[k] = row  BY <1>1, <2>3 DEF EntryInv, EntryTypes
      <4> QED  BY <1>1, <1>2, <1>4, <2>2, <3>1, <4>1 DEF EntryInv, KeyInv
    <3>2. CASE j # k
      <4>1. keys'[j] = keys[j]  BY <2>3, <3>2 DEF EntryInv, EntryTypes
      <4> QED  BY <1>2, <2>3, <3>2, <4>1 DEF EntryInv, KeyInv
    <3> QED  BY <3>1, <3>2
  <2>5. keys' \in [Key -> KeyRow \cup {None}]  BY <2>2, <2>3 DEF EntryInv, EntryTypes
  <2>6. gone' \subseteq issued'  BY <1>1, <1>2, <1>4, <2>3 DEF EntryInv, EntryTypes, KeyInv
  <2>7. /\ users \subseteq users' /\ users' \subseteq Person /\ left' \subseteq left
        /\ issued \subseteq issued' /\ issued' \subseteq Key
        BY <1>2 DEF EntryInv, EntryTypes
  <2> QED  BY <1>2, <2>4, <2>5, <2>6, <2>7, IdleTyped, CommandStep
<1> QED  BY <1>3, <1>4

-----------------------------------------------------------------------------
LEMMA EntryInvariance == Entry!Spec => []EntryInv
<1>1. ASSUME EntryInv, [Entry!Next]_(Entry!vars)  PROVE EntryInv'
  <2>1. ASSUME NEW r \in Request,
               \/ \E k \in Key, right \in BOOLEAN : Entry!ReadKey(r, k, right)
               \/ Entry!ReadUser(r) \/ Entry!UpsertRead(r) \/ Entry!UpsertCommit(r)
                 \/ Entry!DeleteMe(r) \/ Entry!Leave(r)
        PROVE  EntryInv'
        BY <1>1, <2>1, ReadKeyKeeps, ReadUserKeeps, UpsertCommitKeeps, DeleteMeKeeps,
           LeaveKeeps
  <2>2. ASSUME NEW r \in Request, NEW u \in Person, NEW right \in BOOLEAN,
               Entry!ReadHeader(r, u, right) \/ Entry!ReadToken(r, u, right)
                 \/ Entry!ReadBearer(r, right)
        PROVE  EntryInv'
    <3>1. Static \in Person  BY RequestsAssumption DEF Entry!AccountsAssumption
    <3>2. backend # "table"  BY <2>2 DEF Entry!ReadHeader, Entry!ReadToken, Entry!ReadBearer
    <3> QED
          BY <1>1, <2>2, <3>1, <3>2, TakenKeeps
          DEF Entry!ReadHeader, Entry!ReadToken, Entry!ReadBearer
  <2>3. ASSUME NEW c \in Command,
               \/ \E u \in Person : Entry!IssueRead(c, u)
               \/ \E k \in Key : Entry!IssueCommit(c, k) \/ Entry!RevokeRead(c, k)
               \/ Entry!RevokeCommit(c)
        PROVE  EntryInv'
        BY <1>1, <2>3, ReadingKeeps, IssueCommitKeeps, RevokeCommitKeeps
  <2>4. CASE UNCHANGED Entry!vars
        BY <1>1, <2>4
        DEF Entry!vars, Entry!ghosts, EntryInv, EntryTypes, KeyInv, RequestInv, Underway
  <2>5. Static \in Person  BY RequestsAssumption DEF Entry!AccountsAssumption
  <2> QED  BY <1>1, <2>1, <2>2, <2>3, <2>4, <2>5 DEF Entry!Next
<1> QED  BY <1>1, EntryInit, PTL DEF Entry!Spec

(* Commands, requests and erasures side by side leave no key without the   *)
(* row of its user.                                                        *)
THEOREM KeysHaveUserHolds == Entry!Spec => []Entry!KeysHaveUser
<1>1. EntryInv => Entry!KeysHaveUser  BY DEF EntryInv, KeyInv, Entry!KeysHaveUser
<1> QED  BY <1>1, EntryInvariance, PTL

(* A key that was revoked, or whose user was erased, before a request      *)
(* began does not let that request in.                                     *)
THEOREM DeadKeysStayOutHolds == Entry!Spec => []Entry!DeadKeysStayOut
<1>1. EntryInv => Entry!DeadKeysStayOut
      BY DEF EntryInv, RequestInv, Underway, Entry!DeadKeysStayOut
<1> QED  BY <1>1, EntryInvariance, PTL

(* An erased user comes back with a new key, or by a request that had been *)
(* let in before the erasure, and by nothing else.                         *)
THEOREM ErasedComesBack == Entry!Spec => Entry!ErasedComesBackByFlight
<1>1. ASSUME EntryInv, [Entry!Next]_(Entry!vars), backend = "table", NEW u \in Person,
             u \in (left \ users) \cap users'
      PROVE  \/ issued' # issued
             \/ \E r \in flown : req[r].user = u /\ req'[r].pc = "admitted"
  <2> USE <1>1 DEF EntryInv
  <2>1. CASE users' = users  BY <2>1
  <2>2. ASSUME NEW r \in Request, Entry!UpsertCommit(r)
        PROVE  \E q \in flown : req[q].user = u /\ req'[q].pc = "admitted"
    <3>1. req[r].user = u /\ Entry!Goes(r, "admitted")  BY <2>2 DEF Entry!UpsertCommit
    <3>2. r \in flown  BY <2>2, <3>1 DEF Entry!UpsertCommit, RequestInv, Underway
    <3>3. req'[r].pc = "admitted"
      <4>1. req \in [Request -> RequestRow] /\ req[r] \in RequestRow  BY DEF EntryTypes
      <4> QED  BY <3>1, <4>1 DEF Entry!Goes, RequestRow, CallRow
    <3> QED  BY <3>1, <3>2, <3>3
  <2>3. ASSUME NEW c \in Command, NEW k \in Key, Entry!IssueCommit(c, k)
        PROVE  issued' # issued
        BY <2>3 DEF Entry!IssueCommit
  <2>4. ASSUME NEW r \in Request, Entry!DeleteMe(r)  PROVE users' \subseteq users
        BY <2>4 DEF Entry!DeleteMe
  <2>5. ASSUME NEW r \in Request,
               \/ \E k \in Key, right \in BOOLEAN : Entry!ReadKey(r, k, right)
               \/ \E w \in Person,
                 right \in BOOLEAN : Entry!ReadHeader(r, w, right)
                   \/ Entry!ReadToken(r, w, right)
               \/ \E right \in BOOLEAN : Entry!ReadBearer(r, right)
               \/ Entry!ReadUser(r) \/ Entry!UpsertRead(r) \/ Entry!Leave(r)
        PROVE  users' = users
        BY <2>5 DEF Entry!ReadKey, Entry!ReadHeader, Entry!ReadToken, Entry!ReadBearer,
                    Entry!Taken, Entry!ReadUser, Entry!UpsertRead, Entry!Leave
  <2>6. ASSUME NEW c \in Command,
               \/ \E w \in Person : Entry!IssueRead(c, w)
               \/ \E k \in Key : Entry!RevokeRead(c, k)
               \/ Entry!RevokeCommit(c)
        PROVE  users' = users
        BY <2>6 DEF Entry!IssueRead, Entry!RevokeRead, Entry!RevokeCommit
  <2>7. CASE UNCHANGED Entry!vars  BY <2>1, <2>7 DEF Entry!vars
  <2> QED  BY <2>1, <2>2, <2>3, <2>4, <2>5, <2>6, <2>7 DEF Entry!Next
<1>2. EntryInv /\ [Entry!Next]_(Entry!vars) =>
        [\A u \in Person : (backend = "table" /\ u \in (left \ users) \cap users') =>
           \/ issued' # issued
           \/ \E r \in flown : req[r].user = u /\ req'[r].pc = "admitted"]_(Entry!vars)
      BY <1>1
<1> QED  BY <1>2, EntryInvariance, PTL DEF Entry!Spec, Entry!ErasedComesBackByFlight

-----------------------------------------------------------------------------
(* The three folds over sequences of WidgetData, with what Folding proves  *)
(* of them.                                                                *)
Parsing == INSTANCE Folding WITH Op <- Data!Read
Keeping == INSTANCE Folding WITH Op <- Data!Keep
Noting  == INSTANCE Folding WITH Op <- Data!Note

(* The least and the greatest of a set of positions are in it and bound    *)
(* it.                                                                     *)
LEMMA Smallest ==
    ASSUME NEW T \in SUBSET Nat, T # {}
    PROVE  Data!Min(T) \in T /\ \A m \in T : Data!Min(T) <= m
<1>1. PICK n \in T : \A m \in T : n <= m  BY Parsing!Least
<1> QED  BY <1>1 DEF Data!Min

LEMMA Largest ==
    ASSUME NEW k \in Nat, NEW T \in SUBSET (0..k), T # {}
    PROVE  Data!Max(T) \in T /\ \A m \in T : m <= Data!Max(T)
<1>1. Parsing!Max(T) \in T /\ \A m \in T : m <= Parsing!Max(T)  BY Parsing!Greatest
<1>2. Data!Max(T) = Parsing!Max(T)  BY DEF Data!Max, Parsing!Max
<1> QED  BY <1>1, <1>2

(* What WidgetData takes from the community modules is what is used here.  *)
LEMMA SameSets ==
    ASSUME NEW S
    PROVE  /\ Data!IsFiniteSet(S) <=> IsFiniteSet(S)
           /\ Data!Cardinality(S) = Cardinality(S)
           /\ Data!Range(S) = Range(S)
  BY DEF Data!IsFiniteSet, IsFiniteSet, Data!Cardinality, Cardinality, Data!Range, Range

(* A finite set is put into a sequence of all its elements.                *)
LEMMA SetInOrder ==
    ASSUME NEW S, IsFiniteSet(S)
    PROVE  /\ Data!SetToSeq(S) \in Seq(S)
           /\ \A x \in S : \E i \in 1..Len(Data!SetToSeq(S)) : Data!SetToSeq(S)[i] = x
<1>1. Cardinality(S) \in Nat /\ ExistsBijection(1..Cardinality(S), S)  BY FS_CardinalityType
<1>2. PICK f \in [1..Cardinality(S) -> S] : IsInjective(f)
  <2>1. PICK f \in Bijection(1..Cardinality(S), S) : TRUE  BY <1>1 DEF ExistsBijection
  <2> QED  BY <2>1 DEF Bijection, Injection, IsInjective
<1>3. Data!SetToSeq(S) \in [1..Cardinality(S) -> S] /\ IsInjective(Data!SetToSeq(S))
      BY <1>2, SameSets DEF Data!SetToSeq, Data!IsInjective, IsInjective
<1>4. Data!SetToSeq(S) \in Seq(S) /\ Len(Data!SetToSeq(S)) = Cardinality(S)  BY <1>1, <1>3
<1>5. \A x \in S : \E i \in 1..Cardinality(S) : Data!SetToSeq(S)[i] = x
  <2> DEFINE R == Range(Data!SetToSeq(S))
  <2>1. R \subseteq S /\ IsFiniteSet(R)  BY <1>3, FS_Subset DEF Range
  <2>2. Data!SetToSeq(S) \in Bijection(1..Cardinality(S), R)
        BY <1>3 DEF Bijection, Injection, Surjection, IsInjective, Range
  <2>3. Cardinality(R) = Cardinality(S)
        BY <1>1, <2>2, FS_CountingElements DEF ExistsBijection
  <2>4. R = S  BY <2>1, <2>3, FS_Subset
  <2> QED  BY <2>4, <1>3 DEF Range
<1> QED  BY <1>4, <1>5

-----------------------------------------------------------------------------
(* The messages of a chat; what get_widget_data came to for one widget,    *)
(* and what of that can be recorded; and the state of the parser between   *)
(* two messages.                                                           *)
ChatMessage == [role : {"human"}] \cup [role : {"ai"}, sources : Seq(Widget)]
           \cup [role : {"tool"}, sources : Seq(Widget), data : Seq(Nat)]

Fetch   == Widget \X Nat
Fetched == Widget \X (Nat \ {0})
Reading == [call : Seq(Widget), all : Seq(Fetch)]

(* One message more: only a tool message adds results.                     *)
LEMMA ReadTyped ==
    ASSUME NEW acc \in Reading, NEW m \in ChatMessage
    PROVE  /\ Data!Read(acc, m) \in Reading
           /\ m.role # "tool" => Data!Read(acc, m).all = acc.all
<1>1. CASE m.role = "human"
  <2>1. <<>> \in Seq(Widget)  OBVIOUS
  <2> QED  BY <1>1, <2>1 DEF Data!Read, Reading
<1>2. CASE m.role = "ai"
  <2>1. m.sources \in Seq(Widget)  BY <1>2 DEF ChatMessage
  <2> QED  BY <1>2, <2>1 DEF Data!Read, Reading
<1>3. CASE m.role = "tool"
  <2>1. m.sources \in Seq(Widget) /\ m.data \in Seq(Nat)  BY <1>3 DEF ChatMessage
  <2> DEFINE sources == IF acc.call # <<>> THEN acc.call ELSE m.sources
             data(i) == IF i <= Len(m.data) THEN m.data[i] ELSE 0
             new == [i \in 1..Len(sources) |-> <<sources[i], data(i)>>]
  <2>2. sources \in Seq(Widget)  BY <2>1 DEF Reading
  <2>3. \A i \in 1..Len(sources) : sources[i] \in Widget /\ data(i) \in Nat
    <3> TAKE i \in 1..Len(sources)
    <3>1. i \in Nat \ {0} /\ sources[i] \in Widget  BY <2>2
    <3>2. i <= Len(m.data) => m.data[i] \in Nat  BY <2>1, <3>1
    <3> QED  BY <3>1, <3>2
  <2> HIDE DEF sources, data
  <2>4. new \in Seq(Fetch)  BY <2>2, <2>3, IsASeq DEF Fetch
  <2>5. Data!Read(acc, m) = [call |-> <<>>, all |-> acc.all \o new]
        BY <1>3 DEF Data!Read, sources, data
  <2>6. acc.all \o new \in Seq(Fetch) /\ <<>> \in Seq(Widget)
        BY <2>4, ConcatProperties DEF Reading
  <2> QED  BY <1>3, <2>5, <2>6 DEF Reading
<1> QED  BY <1>1, <1>2, <1>3 DEF ChatMessage

Nothing == [call |-> <<>>, all |-> <<>>]

(* parse_widget_data_messages, for chats of any length: what it finds are  *)
(* results of widgets, and none before the first tool message.             *)
LEMMA ResultsTyped ==
    ASSUME NEW messages \in Seq(ChatMessage)
    PROVE  /\ Data!Results(messages) \in Seq(Fetch)
           /\ ~Data!HasResult(messages) => Data!Results(messages) = <<>>
<1> DEFINE Holds == {p \in Seq(ChatMessage) \X Reading : Data!HasResult(p[1]) \/ p[2].all = <<>>}
<1>1. <<<<>>, Nothing>> \in Holds
  <2>1. <<>> \in Seq(ChatMessage) /\ <<>> \in Seq(Widget) /\ <<>> \in Seq(Fetch)  OBVIOUS
  <2> QED  BY <2>1 DEF Nothing, Reading
<1>2. ASSUME NEW s \in Seq(ChatMessage), NEW e \in ChatMessage, NEW acc, <<s, acc>> \in Holds
      PROVE  <<Append(s, e), Data!Read(acc, e)>> \in Holds
  <2>1. acc \in Reading /\ (Data!HasResult(s) \/ acc.all = <<>>)  BY <1>2
  <2>2. /\ Append(s, e) \in Seq(ChatMessage) /\ Len(Append(s, e)) = Len(s) + 1 /\ Len(s) \in Nat
        /\ Append(s, e)[Len(s) + 1] = e /\ \A i \in 1..Len(s) : Append(s, e)[i] = s[i]
        OBVIOUS
  <2>3. (Data!HasResult(s) \/ e.role = "tool") => Data!HasResult(Append(s, e))
    <3>1. Len(s) + 1 \in 1..Len(Append(s, e)) /\ 1..Len(s) \subseteq 1..Len(Append(s, e))
          BY <2>2
    <3> QED  BY <2>2, <3>1 DEF Data!HasResult
  <2>4. Data!Read(acc, e) \in Reading /\ (e.role # "tool" => Data!Read(acc, e).all = acc.all)
        BY <2>1, ReadTyped
  <2> QED  BY <2>1, <2>2, <2>3, <2>4
<1> HIDE DEF Holds
<1>3. <<messages, Parsing!FoldLeft(Data!Read, Nothing, messages)>> \in Holds
      BY <1>1, <1>2, Parsing!FoldInduction
<1>4. Data!FoldLeft(Data!Read, Nothing, messages) = Parsing!FoldLeft(Data!Read, Nothing, messages)
      BY DEF Data!FoldLeft, Data!MapThenFoldSet, Parsing!FoldLeft, Parsing!MapThenFoldSet, Data!Max, Parsing!Max
<1>5. Data!FoldLeft(Data!Read, Nothing, messages) \in Reading
      /\ (Data!HasResult(messages) \/ Data!FoldLeft(Data!Read, Nothing, messages).all = <<>>)
      BY <1>3, <1>4 DEF Holds
<1>6. Data!Results(messages) = Data!FoldLeft(Data!Read, Nothing, messages).all  BY DEF Data!Results, Nothing
<1> QED  BY <1>5, <1>6 DEF Reading

-----------------------------------------------------------------------------
(* The last thing that a sequence of results says of a widget, errors and  *)
(* empty data aside.                                                       *)
Latest(s, w, d) ==
    \E k \in 1..Len(s) : /\ s[k] = <<w, d>>
                         /\ \A j \in (k + 1)..Len(s) : s[j][1] # w \/ s[j][2] = 0

(* Of a sequence with one result more it is that one, or what it was.      *)
LEMMA LatestOfAppend ==
    ASSUME NEW S, NEW s \in Seq(S), NEW e \in S, NEW w, NEW d
    PROVE  Latest(Append(s, e), w, d) <=>
               e = <<w, d>> \/ (Latest(s, w, d) /\ (e[1] # w \/ e[2] = 0))
<1> DEFINE t == Append(s, e)
           n == Len(s)
<1>1. n \in Nat /\ Len(t) = n + 1 /\ t[n + 1] = e /\ \A i \in 1..n : t[i] = s[i]
      OBVIOUS
<1> HIDE DEF t, n
<1>2. ASSUME Latest(t, w, d)
      PROVE  e = <<w, d>> \/ (Latest(s, w, d) /\ (e[1] # w \/ e[2] = 0))
  <2>1. PICK k \in 1..(n + 1) : t[k] = <<w, d>> /\ \A j \in (k + 1)..(n + 1) : t[j][1] # w \/ t[j][2] = 0
        BY <1>1, <1>2 DEF Latest
  <2>2. CASE k = n + 1  BY <2>1, <2>2, <1>1
  <2>3. CASE k # n + 1
    <3>1. k \in 1..n /\ n + 1 \in (k + 1)..(n + 1)  BY <2>3, <1>1
    <3>2. \A j \in (k + 1)..n : j \in 1..n /\ j \in (k + 1)..(n + 1)  BY <3>1, <1>1
    <3>3. s[k] = <<w, d>> /\ \A j \in (k + 1)..n : s[j][1] # w \/ s[j][2] = 0
          BY <2>1, <3>1, <3>2, <1>1
    <3>4. e[1] # w \/ e[2] = 0  BY <2>1, <3>1, <1>1
    <3> QED  BY <3>1, <3>3, <3>4 DEF Latest, n
  <2> QED  BY <2>2, <2>3
<1>3. ASSUME e = <<w, d>>  PROVE Latest(t, w, d)
  <2>1. n + 1 \in 1..(n + 1) /\ (n + 1 + 1)..(n + 1) = {}  BY <1>1
  <2> QED  BY <2>1, <1>1, <1>3 DEF Latest
<1>4. ASSUME Latest(s, w, d), e[1] # w \/ e[2] = 0  PROVE Latest(t, w, d)
  <2>1. PICK k \in 1..n : s[k] = <<w, d>> /\ \A j \in (k + 1)..n : s[j][1] # w \/ s[j][2] = 0
        BY <1>4 DEF Latest, n
  <2>2. k \in 1..(n + 1) /\ t[k] = <<w, d>>  BY <1>1, <2>1
  <2>3. \A j \in (k + 1)..(n + 1) : t[j][1] # w \/ t[j][2] = 0
    <3>1. TAKE j \in (k + 1)..(n + 1)
    <3>2. CASE j = n + 1  BY <3>2, <1>1, <1>4
    <3>3. CASE j # n + 1
      <4>1. j \in (k + 1)..n /\ j \in 1..n  BY <3>3, <1>1
      <4> QED  BY <4>1, <1>1, <2>1
    <3> QED  BY <3>2, <3>3
  <2> QED  BY <2>2, <2>3, <1>1 DEF Latest
<1> QED  BY <1>2, <1>3, <1>4 DEF t

(* What the router keeps of any results has the latest of each widget that *)
(* is on the dashboard.                                                    *)
LEMMA RecordableIs ==
    ASSUME NEW all \in Seq(Fetch)
    PROVE  LET kept == Data!FoldLeft(Data!Keep, <<>>, all)
           IN  /\ kept \in Seq(Fetched)
               /\ \A w \in Widget, d \in Nat \ {0} :
                     place[w] # "extra" /\ Latest(all, w, d) => Latest(kept, w, d)
<1> DEFINE Agree(s, t) == \A w \in Widget, d \in Nat \ {0} :
                              place[w] # "extra" /\ Latest(s, w, d) => Latest(t, w, d)
           Holds == {p \in Seq(Fetch) \X Seq(Fetched) : Agree(p[1], p[2])}
<1>1. <<<<>>, <<>>>> \in Holds
  <2>1. <<>> \in Seq(Fetch) /\ <<>> \in Seq(Fetched) /\ Len(<<>>) = 0 /\ 1..0 = {}  OBVIOUS
  <2>2. Agree(<<>>, <<>>)  BY <2>1 DEF Latest
  <2> QED  BY <2>1, <2>2
<1>2. ASSUME NEW s \in Seq(Fetch), NEW e \in Fetch, NEW acc, <<s, acc>> \in Holds
      PROVE  <<Append(s, e), Data!Keep(acc, e)>> \in Holds
  <2>1. acc \in Seq(Fetched) /\ Agree(s, acc)  BY <1>2
  <2>2. Append(s, e) \in Seq(Fetch)  OBVIOUS
  <2>3. PICK v \in Widget, n \in Nat : e = <<v, n>>  BY DEF Fetch
  <2>4. CASE n = 0 \/ place[v] = "extra"
    <3>1. Data!Keep(acc, e) = acc  BY <2>3, <2>4 DEF Data!Keep
    <3>2. ASSUME NEW w \in Widget, NEW d \in Nat \ {0}, place[w] # "extra",
                 Latest(Append(s, e), w, d)
          PROVE  Latest(acc, w, d)
      <4>1. e # <<w, d>>  BY <2>3, <2>4, <3>2
      <4>2. Latest(s, w, d)  BY <4>1, <3>2, LatestOfAppend
      <4> QED  BY <4>2, <3>2, <2>1
    <3> QED  BY <3>1, <3>2, <2>1, <2>2
  <2>5. CASE n # 0 /\ place[v] # "extra"
    <3>1. Data!Keep(acc, e) = Append(acc, e) /\ e \in Fetched  BY <2>3, <2>5 DEF Data!Keep, Fetched
    <3>2. Append(acc, e) \in Seq(Fetched)  BY <3>1, <2>1
    <3>3. ASSUME NEW w \in Widget, NEW d \in Nat \ {0}, place[w] # "extra",
                 Latest(Append(s, e), w, d)
          PROVE  Latest(Append(acc, e), w, d)
      <4>1. e = <<w, d>> \/ (Latest(s, w, d) /\ (e[1] # w \/ e[2] = 0))
            BY <3>3, LatestOfAppend
      <4>2. e = <<w, d>> \/ (Latest(acc, w, d) /\ (e[1] # w \/ e[2] = 0))
            BY <4>1, <3>3, <2>1
      <4> QED  BY <4>2, <3>1, <2>1, LatestOfAppend
    <3> QED  BY <3>1, <3>2, <3>3, <2>1, <2>2
  <2> QED  BY <2>4, <2>5
<1> HIDE DEF Holds
<1>3. <<all, Keeping!FoldLeft(Data!Keep, <<>>, all)>> \in Holds
      BY <1>1, <1>2, Keeping!FoldInduction
<1>4. Data!FoldLeft(Data!Keep, <<>>, all) = Keeping!FoldLeft(Data!Keep, <<>>, all)
      BY DEF Data!FoldLeft, Data!MapThenFoldSet, Keeping!FoldLeft, Keeping!MapThenFoldSet, Data!Max, Keeping!Max
<1>5. Data!FoldLeft(Data!Keep, <<>>, all) \in Seq(Fetched) /\ Agree(all, Data!FoldLeft(Data!Keep, <<>>, all))
      BY <1>3, <1>4 DEF Holds
<1> QED  BY <1>5

Mentions(s, w) == \E k \in 1..Len(s) : s[k][1] = w

(* What comes after does not change it, unless the widget is in there.     *)
LEMMA LatestOfConcat ==
    ASSUME NEW S, NEW s \in Seq(S), NEW t \in Seq(S), NEW w, NEW d, Latest(s, w, d)
    PROVE  /\ Mentions(s \o t, w)
           /\ ~Mentions(t, w) => Latest(s \o t, w, d)
<1> DEFINE n == Len(s)
           m == Len(t)
           st == s \o t
<1>1. n \in Nat /\ m \in Nat /\ Len(st) = n + m  OBVIOUS
<1>2. (\A i \in 1..n : st[i] = s[i]) /\ \A i \in 1..m : st[n + i] = t[i]  OBVIOUS
<1>3. PICK k \in 1..n : s[k] = <<w, d>> /\ \A j \in (k + 1)..n : s[j][1] # w \/ s[j][2] = 0
      BY DEF Latest
<1> HIDE DEF n, m, st
<1>4. k \in 1..Len(st) /\ st[k] = <<w, d>>  BY <1>1, <1>2, <1>3
<1>5. ASSUME ~Mentions(t, w), NEW j \in (k + 1)..Len(st)  PROVE st[j][1] # w \/ st[j][2] = 0
  <2>1. CASE j <= n
    <3>1. j \in (k + 1)..n /\ j \in 1..n  BY <2>1, <1>1
    <3> QED  BY <3>1, <1>2, <1>3
  <2>2. CASE j > n
    <3>1. j - n \in 1..m /\ n + (j - n) = j  BY <2>2, <1>1
    <3>2. st[j] = t[j - n]  BY <3>1, <1>2
    <3>3. t[j - n][1] # w  BY <3>1, <1>5 DEF Mentions, m
    <3> QED  BY <3>2, <3>3
  <2>3. j \in Nat /\ n \in Nat  BY <1>1
  <2> QED  BY <2>1, <2>2, <2>3
<1>6. Mentions(st, w)
  <2>1. st[k][1] = w  BY <1>4
  <2> QED  BY <2>1, <1>4 DEF Mentions
<1>7. ~Mentions(t, w) => Latest(st, w, d)  BY <1>4, <1>5 DEF Latest
<1> QED  BY <1>6, <1>7 DEF st

(* Once the first is recorded it was the latest, or the latest is still to *)
(* come.                                                                   *)
LEMMA LatestOfTail ==
    ASSUME NEW s \in Seq(Fetched), s # <<>>, NEW w, NEW d, Latest(s, w, d)
    PROVE  \/ Head(s) = <<w, d>> /\ ~Mentions(Tail(s), w)
           \/ Latest(Tail(s), w, d)
<1> DEFINE n == Len(s)
           t == Tail(s)
<1>1. n \in Nat \ {0} /\ Head(s) = s[1] /\ t \in Seq(Fetched) /\ Len(t) = n - 1
      OBVIOUS
<1>2. \A i \in 1..(n - 1) : t[i] = s[i + 1]  OBVIOUS
<1>3. PICK k \in 1..n : s[k] = <<w, d>> /\ \A j \in (k + 1)..n : s[j][1] # w \/ s[j][2] = 0
      BY DEF Latest
<1>4. \A j \in 1..n : s[j][2] # 0  BY DEF Fetched
<1> HIDE DEF n, t
<1>5. CASE k = 1
  <2>1. \A i \in 1..(n - 1) : i + 1 \in (k + 1)..n /\ i + 1 \in 1..n  BY <1>5, <1>1
  <2>2. \A i \in 1..(n - 1) : t[i][1] # w  BY <2>1, <1>2, <1>3, <1>4
  <2> QED  BY <2>2, <1>1, <1>3, <1>5 DEF Mentions, t
<1>6. CASE k # 1
  <2>1. k - 1 \in 1..(n - 1) /\ (k - 1) + 1 = k  BY <1>6, <1>1
  <2>2. t[k - 1] = <<w, d>>  BY <2>1, <1>2, <1>3
  <2>3. \A j \in ((k - 1) + 1)..(n - 1) : t[j][1] # w \/ t[j][2] = 0
    <3>1. TAKE j \in ((k - 1) + 1)..(n - 1)
    <3>2. j + 1 \in (k + 1)..n /\ j \in 1..(n - 1)  BY <2>1, <1>1
    <3> QED  BY <3>2, <1>2, <1>3
  <2> QED  BY <2>1, <2>2, <2>3, <1>1 DEF Latest, t
<1> QED  BY <1>5, <1>6

Sites == [Widget -> {"fetched", "loaded", "file", "extra"}]

(* A request is to record all that its chat says of a widget: for one that *)
(* is fetched, the latest of it last.                                      *)
LEMMA TodoIs ==
    ASSUME NEW messages \in Seq(ChatMessage), IsFiniteSet(Widget),
           place \in Sites, version \in [Widget -> Nat \ {0}]
    PROVE  LET todos == Data!Recordable(messages) \o Data!Uploads
           IN  /\ todos \in Seq(Fetched)
               /\ \A w \in Widget, d \in Nat \ {0} :
                     place[w] # "extra" /\ Latest(Data!Results(messages), w, d) =>
                         /\ Mentions(todos, w)
                         /\ place[w] = "fetched" => Latest(todos, w, d)
<1>1. Data!Results(messages) \in Seq(Fetch)  BY ResultsTyped
<1>2. /\ Data!Recordable(messages) \in Seq(Fetched)
      /\ \A w \in Widget, d \in Nat \ {0} :
            place[w] # "extra" /\ Latest(Data!Results(messages), w, d) =>
                Latest(Data!Recordable(messages), w, d)
      BY <1>1, RecordableIs DEF Data!Recordable
<1> DEFINE S == {<<w, version[w]>> : w \in Data!Inline}
<1>3. S \subseteq Fetched /\ IsFiniteSet(S)
  <2>1. IsFiniteSet(Data!Inline)  BY FS_Subset DEF Data!Inline
  <2>2. IsFiniteSet(S)
    <3>1. [w \in Data!Inline |-> <<w, version[w]>>] \in Surjection(Data!Inline, S)  BY DEF Surjection
    <3> QED  BY <2>1, <3>1, FS_Surjection
  <2> QED  BY <2>2 DEF Data!Inline, Fetched
<1>4. Data!Uploads \in Seq(S)  BY <1>3, SetInOrder DEF Data!Uploads
<1>5. Data!Uploads \in Seq(Fetched)  BY <1>3, <1>4, SeqMonotonic
<1>6. \A k \in 1..Len(Data!Uploads) : Data!Uploads[k] \in S  BY <1>4, ElementOfSeq
<1>7. \A w \in Widget : place[w] = "fetched" => ~Mentions(Data!Uploads, w)
      BY <1>6 DEF Mentions, Data!Inline
<1>8. Data!Recordable(messages) \o Data!Uploads \in Seq(Fetched)  BY <1>2, <1>5, ConcatProperties
<1>9. ASSUME NEW w \in Widget, NEW d \in Nat \ {0}, place[w] # "extra",
             Latest(Data!Results(messages), w, d)
      PROVE  /\ Mentions(Data!Recordable(messages) \o Data!Uploads, w)
             /\ place[w] = "fetched" => Latest(Data!Recordable(messages) \o Data!Uploads, w, d)
  <2>1. Latest(Data!Recordable(messages), w, d)  BY <1>2, <1>9
  <2> QED  BY <2>1, <1>2, <1>5, <1>7, LatestOfConcat
<1> QED  BY <1>8, <1>9

(* Told, which picks the last result of a widget, is the latest one.       *)
LEMMA ToldIs ==
    ASSUME NEW c \in Conv, NEW w \in Widget, chat[c] \in Seq(ChatMessage)
    PROVE  /\ Data!Told(c, w) \in Nat
           /\ Data!Told(c, w) # 0 => Latest(Data!Results(chat[c]), w, Data!Told(c, w))
<1> DEFINE all == Data!Results(chat[c])
           n == Len(all)
           I == {i \in 1..n : all[i][1] = w /\ all[i][2] # 0}
<1>1. all \in Seq(Fetch) /\ n \in Nat  BY ResultsTyped
<1>2. \A i \in 1..n : all[i] \in Fetch  BY <1>1, ElementOfSeq
<1> HIDE DEF all, n
<1>3. CASE I = {}
  <2>1. Data!Told(c, w) = 0  BY <1>3 DEF Data!Told, Data!SelectLastInSeq, all, n
  <2> QED  BY <2>1
<1>4. CASE I # {}
  <2>1. I \in SUBSET (0..n)  OBVIOUS
  <2>2. Data!Max(I) \in I /\ \A m \in I : m <= Data!Max(I)  BY <2>1, <1>1, <1>4, Largest
  <2> DEFINE k == Data!Max(I)
  <2>3. Data!Told(c, w) = IF k = 0 THEN 0 ELSE all[k][2]
        BY <1>4 DEF Data!Told, Data!SelectLastInSeq, all, n
  <2> HIDE DEF k
  <2>4. k \in 1..n /\ all[k][1] = w /\ all[k][2] # 0 /\ k # 0  BY <2>2, <1>1 DEF k
  <2>5. Data!Told(c, w) = all[k][2] /\ all[k] = <<w, Data!Told(c, w)>>  BY <2>3, <2>4, <1>2 DEF Fetch
  <2>6. \A j \in (k + 1)..n : all[j][1] # w \/ all[j][2] = 0
    <3>1. TAKE j \in (k + 1)..n
    <3>2. j \in 1..n /\ ~(j <= k)  BY <2>4, <1>1
    <3>3. j \notin I  BY <2>2, <3>2 DEF k
    <3> QED  BY <3>2, <3>3
  <2> QED  BY <2>4, <2>5, <2>6, <1>2 DEF Latest, all, n, Fetch
<1> QED  BY <1>3, <1>4

-----------------------------------------------------------------------------
(* The rows as describe_widget_data reads them, one by one; the newest of  *)
(* a table among them; and the dictionary, which has it for each table     *)
(* once.                                                                   *)
Line(k) == [own : BOOLEAN, table : Table, id : 1..k]

Newest(s, t, i) == /\ i \in 1..Len(s) /\ s[i].own /\ s[i].table = t
                   /\ \A j \in (i + 1)..Len(s) : s[j].own => s[j].table # t

Lists(latest, s) ==
    /\ \A k \in 1..Len(latest) : Newest(s, latest[k][1], latest[k][2])
    /\ \A k, l \in 1..Len(latest) : latest[k][1] = latest[l][1] => k = l
    /\ \A i \in 1..Len(s) : s[i].own => \E k \in 1..Len(latest) : latest[k][1] = s[i].table

(* A row more makes another row the newest of its own table only.          *)
LEMMA NewestOfAppend ==
    ASSUME NEW S, NEW s \in Seq(S), NEW e \in S, NEW t, NEW i
    PROVE  /\ Newest(s, t, i) /\ ~(e.own /\ e.table = t) => Newest(Append(s, e), t, i)
           /\ e.own /\ e.table = t => Newest(Append(s, e), t, Len(s) + 1)
<1> DEFINE n == Len(s)
           se == Append(s, e)
<1>1. n \in Nat /\ Len(se) = n + 1 /\ se[n + 1] = e /\ \A j \in 1..n : se[j] = s[j]
      OBVIOUS
<1> HIDE DEF n, se
<1>2. ASSUME Newest(s, t, i), ~(e.own /\ e.table = t)  PROVE Newest(se, t, i)
  <2>1. i \in 1..n /\ s[i].own /\ s[i].table = t /\ \A j \in (i + 1)..n : s[j].own => s[j].table # t
        BY <1>2 DEF Newest, n
  <2>2. i \in 1..(n + 1) /\ se[i] = s[i]  BY <2>1, <1>1
  <2>3. ASSUME NEW j \in (i + 1)..(n + 1), se[j].own  PROVE se[j].table # t
    <3>1. CASE j = n + 1  BY <3>1, <1>1, <1>2, <2>3
    <3>2. CASE j # n + 1
      <4>1. j \in (i + 1)..n /\ j \in 1..n  BY <3>2, <2>1, <1>1
      <4> QED  BY <4>1, <2>1, <2>3, <1>1
    <3> QED  BY <3>1, <3>2
  <2> QED  BY <2>1, <2>2, <2>3, <1>1 DEF Newest
<1>3. ASSUME e.own, e.table = t  PROVE Newest(se, t, n + 1)
  <2>1. n + 1 \in 1..(n + 1) /\ (n + 1 + 1)..(n + 1) = {}  BY <1>1
  <2> QED  BY <2>1, <1>1, <1>3 DEF Newest
<1> QED  BY <1>2, <1>3 DEF se, n

(* The dictionary stays one when a row is noted.                           *)
LEMMA NoteLists ==
    ASSUME NEW k \in Nat, NEW s \in Seq(Line(k)), NEW e \in Line(k), e.id = Len(s) + 1,
           NEW latest \in Seq(Table \X (1..k)), Lists(latest, s)
    PROVE  /\ Data!Note(latest, e) \in Seq(Table \X (1..k))
           /\ Lists(Data!Note(latest, e), Append(s, e))
<1> DEFINE n == Len(s)
           m == Len(latest)
           se == Append(s, e)
           I == {i \in 1..m : latest[i][1] = e.table}
           known == IF I # {} THEN Data!Min(I) ELSE 0
           x == <<e.table, e.id>>
<1>1. n \in Nat /\ m \in Nat /\ Len(se) = n + 1 /\ se[n + 1] = e /\ \A j \in 1..n : se[j] = s[j]
      OBVIOUS
<1>2. \A i \in 1..m : latest[i] \in Table \X (1..k)  OBVIOUS
<1>3. x \in Table \X (1..k)  BY DEF Line
<1>4. Data!Note(latest, e) = IF ~e.own THEN latest
                        ELSE IF known # 0 THEN [latest EXCEPT ![known] = x]
                        ELSE Append(latest, x)
      BY DEF Data!Note, Data!SelectInSeq
<1>5. \/ known = 0 /\ \A i \in 1..m : latest[i][1] # e.table
      \/ known \in 1..m /\ known # 0 /\ latest[known][1] = e.table
  <2>1. CASE I = {}  BY <2>1
  <2>2. CASE I # {}
    <3>1. I \in SUBSET Nat  OBVIOUS
    <3>2. Data!Min(I) \in I  BY <2>2, <3>1, Smallest
    <3> QED  BY <2>2, <3>2, <1>1
  <2> QED  BY <2>1, <2>2
<1>6. /\ \A i \in 1..m : Newest(s, latest[i][1], latest[i][2])
      /\ \A i, j \in 1..m : latest[i][1] = latest[j][1] => i = j
      /\ \A i \in 1..n : s[i].own => \E j \in 1..m : latest[j][1] = s[i].table
      BY DEF Lists
<1>7. \A t, i : Newest(s, t, i) /\ ~(e.own /\ e.table = t) => Newest(se, t, i)
      BY NewestOfAppend
<1>8. e.own => Newest(se, e.table, n + 1)  BY NewestOfAppend
<1>9. e.own \in BOOLEAN /\ e.id = n + 1  BY DEF Line
<1> HIDE DEF n, m, se, known
<1>10. CASE ~e.own
  <2>1. Data!Note(latest, e) = latest  BY <1>4, <1>10
  <2>2. \A i \in 1..m : Newest(se, latest[i][1], latest[i][2])  BY <1>6, <1>7, <1>10
  <2>3. \A i \in 1..(n + 1) : se[i].own => i \in 1..n /\ se[i] = s[i]  BY <1>1, <1>10
  <2> QED  BY <2>1, <2>2, <2>3, <1>1, <1>6 DEF Lists, m, se
<1>11. CASE e.own /\ known # 0
  <2> DEFINE new == [latest EXCEPT ![known] = x]
  <2>1. Data!Note(latest, e) = new /\ known \in 1..m /\ latest[known][1] = e.table
        BY <1>4, <1>5, <1>11
  <2>2. /\ new \in Seq(Table \X (1..k)) /\ Len(new) = m /\ new[known] = x
        /\ \A i \in 1..m : i # known => new[i] = latest[i]
        BY <1>3, <2>1, ExceptSeq DEF m
  <2>3. \A i \in 1..m : new[i][1] = latest[i][1]  BY <2>1, <2>2
  <2>4. ASSUME NEW i \in 1..m  PROVE Newest(se, new[i][1], new[i][2])
    <3>1. CASE i = known  BY <3>1, <2>2, <1>8, <1>9, <1>11
    <3>2. CASE i # known
      <4>1. latest[i][1] # e.table  BY <3>2, <2>1, <1>6
      <4> QED  BY <4>1, <3>2, <2>2, <1>6, <1>7
    <3> QED  BY <3>1, <3>2
  <2>5. ASSUME NEW i \in 1..(n + 1), se[i].own  PROVE \E j \in 1..m : new[j][1] = se[i].table
    <3>1. CASE i = n + 1
      <4>1. new[known][1] = se[i].table  BY <3>1, <2>1, <2>3, <1>1
      <4> QED  BY <4>1, <2>1
    <3>2. CASE i # n + 1
      <4>1. i \in 1..n /\ se[i] = s[i]  BY <3>2, <1>1
      <4>2. PICK j \in 1..m : latest[j][1] = s[i].table  BY <4>1, <1>6, <2>5
      <4> QED  BY <4>1, <4>2, <2>3
    <3> QED  BY <3>1, <3>2
  <2> QED  BY <2>1, <2>2, <2>3, <2>4, <2>5, <1>1, <1>6 DEF Lists, se
<1>12. CASE e.own /\ known = 0
  <2> DEFINE new == Append(latest, x)
  <2>1. Data!Note(latest, e) = new /\ \A i \in 1..m : latest[i][1] # e.table
        BY <1>4, <1>5, <1>12
  <2>2. /\ new \in Seq(Table \X (1..k)) /\ Len(new) = m + 1 /\ new[m + 1] = x
        /\ \A i \in 1..m : new[i] = latest[i]
        BY <1>3 DEF m
  <2> HIDE DEF new
  <2>3. ASSUME NEW i \in 1..(m + 1)  PROVE Newest(se, new[i][1], new[i][2])
    <3>1. CASE i = m + 1  BY <3>1, <2>2, <1>8, <1>9, <1>12
    <3>2. CASE i # m + 1
      <4>1. i \in 1..m  BY <3>2, <1>1
      <4> QED  BY <4>1, <2>1, <2>2, <1>6, <1>7
    <3> QED  BY <3>1, <3>2
  <2>4. ASSUME NEW i \in 1..(m + 1), NEW j \in 1..(m + 1), new[i][1] = new[j][1]  PROVE i = j
    <3>1. CASE i = m + 1 /\ j # m + 1
      <4>1. j \in 1..m  BY <3>1, <1>1
      <4>2. new[i][1] = e.table  BY <3>1, <2>2
      <4>3. new[j][1] # e.table  BY <4>1, <2>1, <2>2
      <4> QED  BY <4>2, <4>3, <2>4
    <3>2. CASE i # m + 1 /\ j = m + 1
      <4>1. i \in 1..m  BY <3>2, <1>1
      <4> QED  BY <4>1, <3>2, <2>1, <2>2, <2>4
    <3>3. CASE i # m + 1 /\ j # m + 1
      <4>1. i \in 1..m /\ j \in 1..m  BY <3>3, <1>1
      <4> QED  BY <4>1, <2>2, <2>4, <1>6
    <3> QED  BY <3>1, <3>2, <3>3
  <2>5. ASSUME NEW i \in 1..(n + 1), se[i].own  PROVE \E j \in 1..(m + 1) : new[j][1] = se[i].table
    <3>1. CASE i = n + 1
      <4>1. m + 1 \in 1..(m + 1)  BY <1>1
      <4> QED  BY <4>1, <3>1, <2>2, <1>1
    <3>2. CASE i # n + 1
      <4>1. i \in 1..n /\ se[i] = s[i]  BY <3>2, <1>1
      <4>2. PICK j \in 1..m : latest[j][1] = s[i].table  BY <4>1, <1>6, <2>5
      <4>3. j \in 1..(m + 1)  BY <1>1
      <4> QED  BY <4>1, <4>2, <4>3, <2>2
    <3> QED  BY <3>1, <3>2
  <2> QED  BY <2>1, <2>2, <2>3, <2>4, <2>5, <1>1 DEF Lists, se
<1> QED  BY <1>9, <1>10, <1>11, <1>12

(* The schema has the newest row of each table once, for any number of     *)
(* rows: the dictionary is filled row by row.                              *)
LEMMA SchemaIs ==
    ASSUME NEW u, Data!WidgetDataAssumption,
           rows \in Seq([conv : Conv, widget : Widget, version : Nat \ {0}])
    PROVE  /\ Data!Schema(u) \in Seq(Table \X (1..Len(rows)))
           /\ Range(Data!Schema(u)) =
                 {<<t, Data!Max({i \in Data!Own(u) : TableOf[rows[i].widget] = t})>> : t \in Data!Tables(u)}
           /\ Len(Data!Schema(u)) = Cardinality(Data!Tables(u))
<1> DEFINE n == Len(rows)
           E == [i \in 1..n |-> [own   |-> ReaderOf[rows[i].conv] = u,
                                 table |-> TableOf[rows[i].widget], id |-> i]]
           Holds == {p \in Seq(Line(n)) \X Seq(Table \X (1..n)) :
                        (\A i \in 1..Len(p[1]) : p[1][i].id = i) => Lists(p[2], p[1])}
<1>1. n \in Nat /\ \A i \in 1..n : rows[i].conv \in Conv /\ rows[i].widget \in Widget
  <2>1. \A i \in 1..n : rows[i] \in [conv : Conv, widget : Widget, version : Nat \ {0}]
        BY ElementOfSeq
  <2> QED  BY <2>1
<1>2. E \in Seq(Line(n)) /\ Len(E) = n
  <2>1. \A i \in 1..n : E[i] \in Line(n)  BY <1>1 DEF Data!WidgetDataAssumption, Line
  <2> QED  BY <2>1, <1>1, IsASeq
<1>3. <<<<>>, <<>>>> \in Holds
  <2>1. <<>> \in Seq(Line(n)) /\ <<>> \in Seq(Table \X (1..n)) /\ 1..Len(<<>>) = {}  OBVIOUS
  <2> QED  BY <2>1 DEF Lists
<1>4. ASSUME NEW s \in Seq(Line(n)), NEW e \in Line(n), NEW acc, <<s, acc>> \in Holds
      PROVE  <<Append(s, e), Data!Note(acc, e)>> \in Holds
  <2>1. acc \in Seq(Table \X (1..n))  BY <1>4
  <2>2. /\ Append(s, e) \in Seq(Line(n)) /\ Len(Append(s, e)) = Len(s) + 1 /\ Len(s) \in Nat
        /\ Append(s, e)[Len(s) + 1] = e /\ \A i \in 1..Len(s) : Append(s, e)[i] = s[i]
        OBVIOUS
  <2>3. Data!Note(acc, e) \in Seq(Table \X (1..n))
    <3>1. <<e.table, e.id>> \in Table \X (1..n)  BY DEF Line
    <3> DEFINE known == Data!SelectInSeq(acc, LAMBDA x : x[1] = e.table)
    <3>2. Data!Note(acc, e) = IF ~e.own THEN acc
                         ELSE IF known # 0 THEN [acc EXCEPT ![known] = <<e.table, e.id>>]
                         ELSE Append(acc, <<e.table, e.id>>)
          BY DEF Data!Note
    <3> HIDE DEF known
    <3> DEFINE x == <<e.table, e.id>>
               new == [acc EXCEPT ![known] = x]
               T == Table \X (1..n)
    <3>3. x \in T /\ acc \in Seq(T)  BY <2>1, <3>1
    <3> HIDE DEF x, T
    <3>4. Len(acc) \in Nat /\ acc \in [1..Len(acc) -> T]  BY <3>3
    <3>5. new \in [1..Len(acc) -> T]  BY <3>3, <3>4
    <3>6. new \in Seq(T) /\ Append(acc, x) \in Seq(T)  BY <3>3, <3>4, <3>5
    <3> QED  BY <2>1, <3>2, <3>6 DEF x, T
  <2>4. ASSUME \A i \in 1..Len(Append(s, e)) : Append(s, e)[i].id = i
        PROVE  Lists(Data!Note(acc, e), Append(s, e))
    <3>1. Len(s) + 1 \in 1..(Len(s) + 1) /\ \A i \in 1..Len(s) : i \in 1..(Len(s) + 1)
          BY <2>2
    <3>2. e.id = Len(s) + 1 /\ \A i \in 1..Len(s) : s[i].id = i  BY <2>2, <2>4, <3>1
    <3>3. Lists(acc, s)  BY <1>4, <3>2
    <3> QED  BY <2>1, <3>2, <3>3, <1>1, NoteLists
  <2> QED  BY <2>2, <2>3, <2>4
<1> HIDE DEF Holds
<1>5. <<E, Noting!FoldLeft(Data!Note, <<>>, E)>> \in Holds
      BY <1>2, <1>3, <1>4, Noting!FoldInduction
<1>6. Data!FoldLeft(Data!Note, <<>>, E) = Noting!FoldLeft(Data!Note, <<>>, E)
      BY DEF Data!FoldLeft, Data!MapThenFoldSet, Noting!FoldLeft, Noting!MapThenFoldSet, Data!Max, Noting!Max
<1>7. Data!Schema(u) = Data!FoldLeft(Data!Note, <<>>, E)  BY DEF Data!Schema
<1> DEFINE L == Data!Schema(u)
           m == Len(L)
<1>8. L \in Seq(Table \X (1..n)) /\ Lists(L, E)
  <2>1. \A i \in 1..Len(E) : E[i].id = i  BY <1>2
  <2> QED  BY <2>1, <1>5, <1>6, <1>7 DEF Holds
<1>9. m \in Nat /\ DOMAIN L = 1..m /\ \A k \in 1..m : L[k] \in Table \X (1..n)
      BY <1>8
<1> DEFINE Of(t) == {i \in Data!Own(u) : TableOf[rows[i].widget] = t}
<1>10. \A i \in 1..n : (E[i].own <=> i \in Data!Own(u)) /\ E[i].table = TableOf[rows[i].widget]
       BY DEF Data!Own
<1>11. \A t, i : Newest(E, t, i) => t \in Data!Tables(u) /\ i = Data!Max(Of(t))
  <2>1. SUFFICES ASSUME NEW t, NEW i, Newest(E, t, i)
                 PROVE  t \in Data!Tables(u) /\ i = Data!Max(Of(t))
        OBVIOUS
  <2>2. /\ i \in 1..n /\ i \in Data!Own(u) /\ TableOf[rows[i].widget] = t
        /\ \A j \in (i + 1)..n : j \in Data!Own(u) => TableOf[rows[j].widget] # t
    <3>1. i \in 1..n /\ E[i].own /\ E[i].table = t
          /\ \A j \in (i + 1)..n : E[j].own => E[j].table # t
          BY <2>1, <1>2 DEF Newest
    <3>2. \A j \in (i + 1)..n : j \in 1..n  BY <3>1, <1>1
    <3> HIDE DEF E
    <3> QED  BY <3>1, <3>2, <1>10
  <2>3. Of(t) \in SUBSET (0..n) /\ i \in Of(t)  BY <2>2 DEF Data!Own
  <2>4. Data!Max(Of(t)) \in Of(t) /\ \A j \in Of(t) : j <= Data!Max(Of(t))  BY <2>3, <1>1, Largest
  <2> DEFINE h == Data!Max(Of(t))
  <2>5. h \in 1..n /\ i <= h /\ h \in Data!Own(u) /\ TableOf[rows[h].widget] = t
        BY <2>3, <2>4 DEF Data!Own
  <2> HIDE DEF h
  <2>6. h \notin (i + 1)..n  BY <2>2, <2>5
  <2>7. i = h  BY <2>2, <2>5, <2>6, <1>1
  <2> QED  BY <2>2, <2>7 DEF Data!Tables, h
<1> HIDE DEF L, E, Of
<1>12. \A k \in 1..m : L[k] = <<L[k][1], L[k][2]>>  BY <1>9
<1>13. \A k \in 1..m : L[k][1] \in Data!Tables(u) /\ L[k] = <<L[k][1], Data!Max(Of(L[k][1]))>>
  <2> TAKE k \in 1..m
  <2>1. Newest(E, L[k][1], L[k][2])  BY <1>8 DEF Lists
  <2>2. L[k][1] \in Data!Tables(u) /\ L[k][2] = Data!Max(Of(L[k][1]))  BY <2>1, <1>11
  <2> QED  BY <2>2, <1>12
<1>14. \A t \in Data!Tables(u) : \E k \in 1..m : L[k][1] = t
  <2> TAKE t \in Data!Tables(u)
  <2>1. PICK i \in Data!Own(u) : t = TableOf[rows[i].widget]  BY DEF Data!Tables
  <2>2. i \in 1..n  BY DEF Data!Own
  <2>3. i \in 1..Len(E) /\ E[i].own /\ E[i].table = t  BY <2>1, <2>2, <1>2, <1>10
  <2> QED  BY <2>3, <1>8 DEF Lists
<1>15. \A k, l \in 1..m : L[k][1] = L[l][1] => k = l  BY <1>8 DEF Lists
<1>16. Range(L) = {<<t, Data!Max(Of(t))>> : t \in Data!Tables(u)}
  <2>1. Range(L) = {L[k] : k \in 1..m}  BY <1>9 DEF Range
  <2>2. ASSUME NEW k \in 1..m  PROVE L[k] \in {<<t, Data!Max(Of(t))>> : t \in Data!Tables(u)}
        BY <1>13
  <2>3. ASSUME NEW t \in Data!Tables(u)  PROVE \E k \in 1..m : L[k] = <<t, Data!Max(Of(t))>>
    <3>1. PICK k \in 1..m : L[k][1] = t  BY <1>14
    <3> QED  BY <3>1, <1>13
  <2> HIDE DEF m
  <2> QED  BY <2>1, <2>2, <2>3
<1>17. Cardinality(Data!Tables(u)) = m
  <2> DEFINE f == [k \in 1..m |-> L[k][1]]
  <2>1. f \in Bijection(1..m, Data!Tables(u))
        BY <1>13, <1>14, <1>15 DEF Bijection, Injection, Surjection, IsInjective
  <2> QED  BY <2>1, <1>9, FS_CountingElements DEF ExistsBijection
<1> QED  BY <1>8, <1>16, <1>17 DEF L, Of

(* Where a plan has a table, 0 when it has not.                            *)
Planned(p, t) == Data!SelectInSeq(p, LAMBDA x : x[1] = t)

LEMMA PlannedIs ==
    ASSUME NEW n \in Nat, NEW p \in Seq(Table \X (1..n)), NEW t
    PROVE  /\ Planned(p, t) = 0 => \A j \in 1..Len(p) : p[j][1] # t
           /\ Planned(p, t) # 0 => /\ Planned(p, t) \in 1..Len(p) /\ p[Planned(p, t)][1] = t
                             /\ p[Planned(p, t)][2] \in 1..n
<1> DEFINE I == {j \in 1..Len(p) : p[j][1] = t}
<1>1. Planned(p, t) = IF I # {} THEN Data!Min(I) ELSE 0  BY DEF Planned, Data!SelectInSeq
<1>2. CASE I = {}  BY <1>1, <1>2
<1>3. CASE I # {}
  <2>1. I \in SUBSET Nat  OBVIOUS
  <2>2. Data!Min(I) \in I  BY <2>1, <1>3, Smallest
  <2>3. p[Data!Min(I)] \in Table \X (1..n)  BY <2>2, ElementOfSeq
  <2>4. Planned(p, t) \in I /\ p[Planned(p, t)][2] \in 1..n  BY <2>2, <2>3, <1>1, <1>3
  <2>5. 0 \notin I  OBVIOUS
  <2> QED  BY <2>4, <2>5
<1> QED  BY <1>2, <1>3

(* When all views of a plan are made, each shows the row of the plan.      *)
LEMMA MadeIs ==
    ASSUME NEW n \in Nat, NEW p \in Seq(Table \X (1..n)), NEW k \in Connection,
           views[k] \in [Table -> 0..n], NEW t \in Table
    PROVE  /\ Data!Made(p, k).all \in BOOLEAN /\ Data!Made(p, k).views \in [Table -> 0..n]
           /\ Data!Made(p, k).all /\ Planned(p, t) # 0 => Data!Made(p, k).views[t] = p[Planned(p, t)][2]
<1> DEFINE I == {j \in 1..Len(p) : views[k][p[j][1]] # 0}
           clash == IF I # {} THEN Data!Min(I) ELSE 0
           upto == IF clash = 0 THEN Len(p) ELSE clash - 1
           new == [x \in Table |-> IF \E i \in 1..upto : p[i][1] = x THEN p[Planned(p, x)][2]
                                   ELSE views[k][x]]
<1>1. Data!Made(p, k) = [all |-> clash = 0, views |-> new]  BY DEF Data!Made, Data!SelectInSeq, Planned
<1>2. Len(p) \in Nat  OBVIOUS
<1>3. clash = 0 \/ clash \in 1..Len(p)
  <2>1. I \in SUBSET Nat  OBVIOUS
  <2>2. I # {} => Data!Min(I) \in I  BY <2>1, Smallest
  <2> QED  BY <2>2
<1> HIDE DEF clash
<1>4. upto \in Nat /\ upto <= Len(p) /\ (clash = 0 => upto = Len(p))  BY <1>2, <1>3
<1> HIDE DEF upto
<1>5. ASSUME NEW x \in Table, \E i \in 1..upto : p[i][1] = x
      PROVE  p[Planned(p, x)][2] \in 1..n
  <2>1. PICK i \in 1..upto : p[i][1] = x  BY <1>5
  <2>2. i \in 1..Len(p)  BY <2>1, <1>2, <1>4
  <2>3. /\ Planned(p, x) = 0 => \A j \in 1..Len(p) : p[j][1] # x
        /\ Planned(p, x) # 0 => p[Planned(p, x)][2] \in 1..n
        BY PlannedIs
  <2> QED  BY <2>1, <2>2, <2>3
<1>6. ASSUME Planned(p, t) # 0  PROVE Planned(p, t) \in 1..Len(p) /\ p[Planned(p, t)][1] = t
      BY <1>6, PlannedIs
<1>7. new \in [Table -> 0..n]
  <2>1. 1..n \subseteq 0..n  OBVIOUS
  <2> QED  BY <2>1, <1>5
<1>8. clash = 0 /\ Planned(p, t) # 0 => new[t] = p[Planned(p, t)][2]  BY <1>4, <1>6
<1> HIDE DEF new
<1>9. (clash = 0) \in BOOLEAN  OBVIOUS
<1>10. Data!Made(p, k).all = (clash = 0) /\ Data!Made(p, k).views = new  BY <1>1
<1> QED  BY <1>7, <1>8, <1>9, <1>10

-----------------------------------------------------------------------------
(* The types of the state.  A recording has data: errors are not kept.     *)
Recording == [conv : Conv, widget : Widget, version : Nat \ {0}]

Outcome == [of : {"nothing"}] \cup [of : {"rows", "error"}, row : Nat, due : Nat]

Active == {"recording", "building", "running", "querying"}

DataTypes ==
    /\ place \in Data!Places
    /\ version \in [Widget -> Nat \ {0}]
    /\ \A w \in Widget : version[w] <= Bounds[place].versions[w]
    /\ chat \in [Conv -> Seq(ChatMessage)]
    /\ posts \in [Conv -> Nat] /\ \A c \in Conv : posts[c] <= Bounds[place].posts[c]
    /\ pc \in [Conv -> {"idle", "fetching"} \cup Active]
    /\ todo \in [Conv -> Seq(Fetched)]
    /\ since \in [Conv -> Nat] /\ \A c \in Conv : since[c] <= Len(rows)
    /\ failed \in [Conv -> BOOLEAN]
    /\ prompt \in [Conv -> [stored : SUBSET Widget, tables : SUBSET Table, narrowed : BOOLEAN]]
    /\ rows \in Seq(Recording) /\ Len(rows) <= Bounds[place].rows
    /\ views \in [Connection -> [Table -> 0..Len(rows)]]
    /\ plan \in [Conv -> Seq(Table \X (1..Len(rows)))]
    /\ result \in [Conv -> Outcome]

(* A user has a row of a widget; and the last row that a conversation made *)
(* of it, since its request began, has this data.                          *)
HasRow(rs, u, w) ==
    \E i \in 1..Len(rs) : rs[i].widget = w /\ ReaderOf[rs[i].conv] = u

LastRow(rs, from, c, w, d) ==
    \E i \in (from + 1)..Len(rs) :
        /\ rs[i].conv = c /\ rs[i].widget = w /\ rs[i].version = d
        /\ \A j \in (i + 1)..Len(rs) : rs[j].conv = c => rs[j].widget # w

(* What a chat says of a widget at last, if it is on the dashboard.  All   *)
(* of it is accounted for: it is still to be recorded, or it is the last   *)
(* row that the conversation has made.                                     *)
Heard(at, messages, w, d) == at[w] # "extra" /\ Latest(Data!Results(messages), w, d)

Accounted(at, messages, rs, pending, from, c) ==
    \A w \in Widget, d \in Nat \ {0} : Heard(at, messages, w, d) =>
        /\ Mentions(pending, w) \/ HasRow(rs, ReaderOf[c], w)
        /\ at[w] = "fetched" =>
              Latest(pending, w, d) \/ (~Mentions(pending, w) /\ LastRow(rs, from, c, w, d))

(* What the first lookup says of the store: nothing that is not there, and *)
(* once the chat has a result the tools are narrowed.  What the prompt     *)
(* says: the tables of all that, and of all that the chat has said.        *)
Foretold(messages, rs, said, c) ==
    /\ Data!HasResult(messages) \/ said.stored # {} => said.narrowed
    /\ \A w \in said.stored : HasRow(rs, ReaderOf[c], w)

Promised(at, messages, rs, said, c, gaveUp) ==
    /\ \A w \in said.stored : HasRow(rs, ReaderOf[c], w) /\ TableOf[w] \in said.tables
    /\ \A w \in Widget, d \in Nat \ {0} :
          Heard(at, messages, w, d) /\ ~gaveUp => TableOf[w] \in said.tables

(* What holds of a conversation between any two steps.                     *)
Served(c) ==
    /\ pc[c] = "fetching" => chat[c] # <<>> /\ chat[c][Len(chat[c])].role = "ai"
    /\ pc[c] \in Active \ {"recording"} => todo[c] = <<>>
    /\ pc[c] \in Active /\ ~failed[c] =>
          Accounted(place, chat[c], rows, todo[c], since[c], c)
    /\ pc[c] = "building" => Foretold(chat[c], rows, prompt[c], c)
    /\ pc[c] \in {"running", "querying"} =>
          Promised(place, chat[c], rows, prompt[c], c, failed[c])

(* Its last query showed the row that it was to show.                      *)
Queried(c) ==
    result[c].of = "rows" /\ result[c].due # 0 => result[c].row = result[c].due

(* The inductive invariant.                                                *)
DataInv == DataTypes /\ \A c \in Conv : Served(c) /\ Queried(c)

(* It holds at first.                                                      *)
LEMMA DataStarts == Data!WidgetDataAssumption /\ Data!Init => DataInv
<1> SUFFICES ASSUME Data!WidgetDataAssumption, Data!Init  PROVE DataInv
    OBVIOUS
<1>1. <<>> \in Seq(ChatMessage) /\ <<>> \in Seq(Fetched) /\ <<>> \in Seq(Recording) /\ Len(<<>>) = 0
      OBVIOUS
<1>2. <<>> \in Seq(Table \X (1..0)) /\ 0 \in 0..0  OBVIOUS
<1>3. /\ Bounds[place].versions \in [Widget -> Nat \ {0}] /\ Bounds[place].posts \in [Conv -> Nat]
      /\ Bounds[place].rows \in Nat
      BY DEF Data!WidgetDataAssumption, Data!Init
<1>4. Data!Untold \in [stored : SUBSET Widget, tables : SUBSET Table, narrowed : BOOLEAN]
      BY DEF Data!Untold
<1>5. \A n \in Nat \ {0} : 1 <= n  OBVIOUS
<1>6. \A n \in Nat : 0 <= n  OBVIOUS
<1>7. [of |-> "nothing"] \in Outcome  BY DEF Outcome
<1>8. DataTypes
      BY <1>1, <1>2, <1>3, <1>4, <1>5, <1>6, <1>7 DEF DataTypes, Data!Init
<1>9. \A c \in Conv : pc[c] = "idle" /\ result[c].of = "nothing"  BY DEF Data!Init
<1> QED  BY <1>8, <1>9 DEF DataInv, Served, Queried, Active

(* Rows are only added: what was there is there, and a row that is added   *)
(* is there, the last of its conversation and widget.                      *)
LEMMA RowsGrow ==
    ASSUME NEW rs \in Seq(Recording), NEW r \in Recording, NEW c \in Conv, NEW w
    PROVE  /\ HasRow(rs, ReaderOf[c], w) => HasRow(Append(rs, r), ReaderOf[c], w)
           /\ r.conv = c /\ r.widget = w => HasRow(Append(rs, r), ReaderOf[c], w)
           /\ \A from \in Nat : \A d : from <= Len(rs) =>
                 /\ LastRow(rs, from, c, w, d) /\ (r.conv # c \/ r.widget # w) =>
                       LastRow(Append(rs, r), from, c, w, d)
                 /\ r = [conv |-> c, widget |-> w, version |-> d] =>
                       LastRow(Append(rs, r), from, c, w, d)
<1> DEFINE n == Len(rs)
           more == Append(rs, r)
<1>1. n \in Nat /\ Len(more) = n + 1 /\ more[n + 1] = r /\ \A i \in 1..n : more[i] = rs[i]
      OBVIOUS
<1> HIDE DEF more, n
<1>2. n + 1 \in 1..(n + 1) /\ \A i \in 1..n : i \in 1..(n + 1)  BY <1>1
<1>3. HasRow(rs, ReaderOf[c], w) => HasRow(more, ReaderOf[c], w)  BY <1>1, <1>2 DEF HasRow, n
<1>4. r.conv = c /\ r.widget = w => HasRow(more, ReaderOf[c], w)  BY <1>1, <1>2 DEF HasRow
<1>5. ASSUME NEW from \in Nat, NEW d, from <= n
      PROVE  /\ LastRow(rs, from, c, w, d) /\ (r.conv # c \/ r.widget # w) =>
                   LastRow(more, from, c, w, d)
             /\ r = [conv |-> c, widget |-> w, version |-> d] => LastRow(more, from, c, w, d)
  <2>1. ASSUME LastRow(rs, from, c, w, d), r.conv # c \/ r.widget # w
        PROVE  LastRow(more, from, c, w, d)
    <3>1. PICK i \in (from + 1)..n :
             /\ rs[i].conv = c /\ rs[i].widget = w /\ rs[i].version = d
             /\ \A j \in (i + 1)..n : rs[j].conv = c => rs[j].widget # w
          BY <2>1 DEF LastRow, n
    <3>2. i \in 1..n /\ i \in (from + 1)..(n + 1) /\ i \in Nat  BY <3>1, <1>1, <1>5
    <3>3. \A j \in (i + 1)..(n + 1) : more[j].conv = c => more[j].widget # w
      <4>1. TAKE j \in (i + 1)..(n + 1)
      <4>2. CASE j = n + 1  BY <4>2, <2>1, <1>1
      <4>3. CASE j # n + 1
        <5>1. j \in (i + 1)..n /\ j \in 1..n  BY <4>3, <3>2, <1>1
        <5> QED  BY <5>1, <3>1, <1>1
      <4> QED  BY <4>2, <4>3
    <3> QED  BY <3>1, <3>2, <3>3, <1>1 DEF LastRow
  <2>2. ASSUME r = [conv |-> c, widget |-> w, version |-> d]
        PROVE  LastRow(more, from, c, w, d)
    <3>1. n + 1 \in (from + 1)..(n + 1) /\ (n + 1 + 1)..(n + 1) = {}  BY <1>1, <1>5
    <3> QED  BY <2>2, <3>1, <1>1 DEF LastRow
  <2> QED  BY <2>1, <2>2
<1> QED  BY <1>3, <1>4, <1>5 DEF more, n

(* A conversation is served still when another one takes a step, which at  *)
(* most adds a row of that other one.                                      *)
LEMMA OthersServed ==
    ASSUME Data!WidgetDataAssumption, DataInv, NEW c \in Conv, place' = place,
           pc'[c] = pc[c], chat'[c] = chat[c], todo'[c] = todo[c], since'[c] = since[c],
           failed'[c] = failed[c], prompt'[c] = prompt[c],
           rows' = rows \/ \E r \in Recording : r.conv # c /\ rows' = Append(rows, r)
    PROVE  Served(c)'
<1>1. /\ rows \in Seq(Recording) /\ since[c] \in Nat /\ since[c] <= Len(rows)
      /\ prompt[c].stored \subseteq Widget
      BY DEF DataInv, DataTypes
<1>2. ASSUME NEW w  PROVE HasRow(rows, ReaderOf[c], w) => HasRow(rows', ReaderOf[c], w)
      BY <1>1, RowsGrow
<1>3. ASSUME NEW w, NEW d
      PROVE  LastRow(rows, since[c], c, w, d) => LastRow(rows', since[c], c, w, d)
      BY <1>1, RowsGrow
<1>4. Accounted(place, chat[c], rows, todo[c], since[c], c) =>
          Accounted(place, chat[c], rows', todo[c], since[c], c)
      BY <1>2, <1>3 DEF Accounted
<1>5. Foretold(chat[c], rows, prompt[c], c) => Foretold(chat[c], rows', prompt[c], c)
      BY <1>2 DEF Foretold
<1>6. Promised(place, chat[c], rows, prompt[c], c, failed[c]) =>
          Promised(place, chat[c], rows', prompt[c], c, failed[c])
      BY <1>2 DEF Promised
<1>7. Served(c)  BY DEF DataInv
<1> QED  BY <1>4, <1>5, <1>6, <1>7 DEF Served

(* Nothing is said of a widget in an empty sequence.                       *)
LEMMA NoneMentioned == \A w, d : ~Mentions(<<>>, w) /\ ~Latest(<<>>, w, d)
<1>1. Len(<<>>) = 0 /\ 1..0 = {}  OBVIOUS
<1> QED  BY <1>1 DEF Mentions, Latest

(* The steps preserve the invariant.  The router receives a request: all   *)
(* that its chat says is to be recorded.                                   *)
LEMMA ReceivedHolds ==
    ASSUME Data!WidgetDataAssumption, DataInv, NEW c \in Conv, NEW messages \in Seq(ChatMessage),
           Data!Received(c, messages)
    PROVE  DataInv'
<1>1. DataTypes /\ (\A d \in Conv : Served(d) /\ Queried(d))  BY DEF DataInv
<1>2. /\ place \in Sites /\ version \in [Widget -> Nat \ {0}] /\ IsFiniteSet(Widget)
      /\ Bounds[place].posts \in [Conv -> Nat]
      BY <1>1, SameSets DEF DataTypes, Data!WidgetDataAssumption, Sites
<1> DEFINE todos == Data!Recordable(messages) \o Data!Uploads
<1>3. /\ todos \in Seq(Fetched)
      /\ \A w \in Widget, d \in Nat \ {0} :
            place[w] # "extra" /\ Latest(Data!Results(messages), w, d) =>
                Mentions(todos, w) /\ (place[w] = "fetched" => Latest(todos, w, d))
      BY <1>2, TodoIs
<1> HIDE DEF todos
<1>4. /\ posts' = [posts EXCEPT ![c] = @ + 1] /\ posts[c] < Bounds[place].posts[c]
      /\ chat' = [chat EXCEPT ![c] = messages] /\ pc' = [pc EXCEPT ![c] = "recording"]
      /\ todo' = [todo EXCEPT ![c] = todos] /\ since' = [since EXCEPT ![c] = Len(rows)]
      /\ failed' = [failed EXCEPT ![c] = FALSE]
      /\ UNCHANGED <<version, place, prompt, rows, views, plan, result>>
      BY DEF Data!Received, todos, Data!query
<1>5. DataTypes'
  <2>1. Len(rows) \in Nat  BY <1>1 DEF DataTypes
  <2>2. posts' \in [Conv -> Nat] /\ \A d \in Conv : posts'[d] <= Bounds[place].posts[d]
        BY <1>1, <1>2, <1>4 DEF DataTypes
  <2>3. since' \in [Conv -> Nat] /\ \A d \in Conv : since'[d] <= Len(rows)
        BY <1>1, <1>4, <2>1 DEF DataTypes
  <2>4. /\ chat' \in [Conv -> Seq(ChatMessage)] /\ todo' \in [Conv -> Seq(Fetched)]
        /\ pc' \in [Conv -> {"idle", "fetching"} \cup Active] /\ failed' \in [Conv -> BOOLEAN]
        BY <1>1, <1>3, <1>4 DEF DataTypes, Active
  <2> QED  BY <1>1, <1>4, <2>2, <2>3, <2>4 DEF DataTypes
<1>6. Accounted(place, messages, rows, todos, Len(rows), c)
      BY <1>3 DEF Accounted, Heard
<1>7. Served(c)'
  <2>1. /\ pc'[c] = "recording" /\ chat'[c] = messages /\ todo'[c] = todos
        /\ since'[c] = Len(rows) /\ place' = place /\ rows' = rows
        BY <1>1, <1>4 DEF DataTypes
  <2> QED  BY <1>6, <2>1 DEF Served
<1>8. ASSUME NEW d \in Conv, d # c  PROVE Served(d)'
  <2>1. /\ pc'[d] = pc[d] /\ chat'[d] = chat[d] /\ todo'[d] = todo[d] /\ since'[d] = since[d]
        /\ failed'[d] = failed[d] /\ prompt'[d] = prompt[d] /\ rows' = rows /\ place' = place
        BY <1>1, <1>4, <1>8 DEF DataTypes
  <2> QED  BY <2>1, OthersServed
<1>9. \A d \in Conv : Queried(d)'  BY <1>1, <1>4 DEF Queried
<1> QED  BY <1>5, <1>7, <1>8, <1>9 DEF DataInv

LEMMA AskHolds ==
    ASSUME Data!WidgetDataAssumption, DataInv, NEW c \in Conv, Data!Ask(c)  PROVE DataInv'
<1>1. chat[c] \in Seq(ChatMessage) /\ Data!Human \in ChatMessage  BY DEF DataInv, DataTypes, Data!Human, ChatMessage
<1>2. Data!Asking(c) \in Seq(ChatMessage)  BY <1>1 DEF Data!Asking
<1> QED  BY <1>2, ReceivedHolds DEF Data!Ask

(* The client answers a call, with any of the data and in either way.      *)
LEMMA ReplyHolds ==
    ASSUME Data!WidgetDataAssumption, DataInv, NEW c \in Conv, Data!Reply(c)  PROVE DataInv'
<1> DEFINE s == chat[c]
           call == Data!Last(s).sources
           data(good) == [i \in 1..Len(call) |-> IF i \in good THEN version[call[i]] ELSE 0]
           tool(good) == [role |-> "tool", data |-> data(good),
                          sources |-> IF keeps THEN <<>> ELSE call]
           messages(good) == Append(IF keeps THEN s ELSE Data!Front(s), tool(good))
<1>1. PICK good \in SUBSET (1..Len(call)) : Data!Received(c, messages(good))
      BY DEF Data!Reply
<1>2. pc[c] = "fetching"  BY DEF Data!Reply
<1>3. s \in Seq(ChatMessage) /\ s # <<>> /\ s[Len(s)].role = "ai"
      BY <1>2 DEF DataInv, DataTypes, Served
<1>4. version \in [Widget -> Nat \ {0}]  BY DEF DataInv, DataTypes
<1> HIDE DEF s
<1>5. Len(s) \in 1..Len(s) /\ s[Len(s)] \in ChatMessage  BY <1>3
<1>6. call \in Seq(Widget)  BY <1>3, <1>5 DEF ChatMessage, Data!Last
<1>7. Data!Front(s) \in Seq(ChatMessage)
  <2>1. Len(s) - 1 <= Len(s) /\ Len(s) - 1 \in Nat  BY <1>3
  <2> QED  BY <1>3, <2>1 DEF Data!Front
<1> HIDE DEF call
<1>8. data(good) \in Seq(Nat)
  <2>1. Len(call) \in Nat /\ \A i \in 1..Len(call) : call[i] \in Widget  BY <1>6
  <2>2. \A i \in 1..Len(call) : version[call[i]] \in Nat  BY <2>1, <1>4
  <2> QED  BY <2>1, <2>2
<1> HIDE DEF data
<1>9. tool(good) \in ChatMessage
  <2>1. <<>> \in Seq(Widget)  OBVIOUS
  <2> QED  BY <1>6, <1>8, <2>1 DEF ChatMessage
<1> HIDE DEF tool
<1>10. messages(good) \in Seq(ChatMessage)  BY <1>3, <1>7, <1>9
<1> QED  BY <1>1, <1>10, ReceivedHolds

(* A call is made of a sequence of widgets.                                *)
LEMMA FetchableIs ==
    ASSUME Data!WidgetDataAssumption  PROVE Data!Fetchable \in Seq(Widget)
<1> DEFINE S == {w \in Widget : place[w] \in {"fetched", "loaded"}}
<1>1. S \subseteq Widget /\ IsFiniteSet(S)  BY SameSets, FS_Subset DEF Data!WidgetDataAssumption
<1>2. Data!SetToSeq(S) \in Seq(S)  BY <1>1, SetInOrder
<1> QED  BY <1>1, <1>2, SeqMonotonic DEF Data!Fetchable

(* The agent, or the router before it, ends the turn with a call.          *)
LEMMA FetchingHolds ==
    ASSUME Data!WidgetDataAssumption, DataInv, NEW c \in Conv, NEW messages \in Seq(ChatMessage),
           chat' = [chat EXCEPT ![c] = messages], pc' = [pc EXCEPT ![c] = "fetching"],
           messages # <<>>, messages[Len(messages)].role = "ai",
           prompt' \in {prompt, [prompt EXCEPT ![c] = Data!Untold]},
           UNCHANGED <<version, place, posts, todo, since, failed, rows, views, plan, result>>
    PROVE  DataInv'
<1>1. DataTypes /\ (\A d \in Conv : Served(d) /\ Queried(d))  BY DEF DataInv
<1>2. Data!Untold \in [stored : SUBSET Widget, tables : SUBSET Table, narrowed : BOOLEAN]
      BY DEF Data!Untold
<1>3. chat' \in [Conv -> Seq(ChatMessage)]  BY <1>1 DEF DataTypes
<1>4. pc' \in [Conv -> {"idle", "fetching"} \cup Active]  BY <1>1 DEF DataTypes
<1>5. prompt' \in [Conv -> [stored : SUBSET Widget, tables : SUBSET Table, narrowed : BOOLEAN]]
      BY <1>1, <1>2 DEF DataTypes
<1>6. DataTypes'  BY <1>1, <1>3, <1>4, <1>5 DEF DataTypes
<1>7. Served(c)'
  <2>1. pc'[c] = "fetching" /\ chat'[c] = messages  BY <1>1 DEF DataTypes
  <2> QED  BY <2>1 DEF Served, Active
<1>8. ASSUME NEW d \in Conv, d # c  PROVE Served(d)'
  <2>1. /\ pc'[d] = pc[d] /\ chat'[d] = chat[d] /\ todo'[d] = todo[d] /\ since'[d] = since[d]
        /\ failed'[d] = failed[d] /\ prompt'[d] = prompt[d] /\ rows' = rows /\ place' = place
        BY <1>1, <1>8 DEF DataTypes
  <2> QED  BY <2>1, OthersServed
<1>9. \A d \in Conv : Queried(d)'  BY <1>1 DEF Queried
<1> QED  BY <1>6, <1>7, <1>8, <1>9 DEF DataInv

LEMMA AskPreemptedHolds ==
    ASSUME Data!WidgetDataAssumption, DataInv, NEW c \in Conv, Data!AskPreempted(c)  PROVE DataInv'
<1> DEFINE messages == Append(Data!Asking(c), Data!Call(Data!Fetchable))
<1>1. Data!Fetchable \in Seq(Widget) /\ chat[c] \in Seq(ChatMessage)
      BY FetchableIs DEF DataInv, DataTypes
<1>2. Data!Human \in ChatMessage /\ Data!Call(Data!Fetchable) \in ChatMessage /\ Data!Call(Data!Fetchable).role = "ai"
      BY <1>1 DEF ChatMessage, Data!Human, Data!Call
<1>3. messages \in Seq(ChatMessage) /\ Len(messages) = Len(chat[c]) + 2
      /\ messages[Len(chat[c]) + 2] = Data!Call(Data!Fetchable)
      BY <1>1, <1>2 DEF Data!Asking
<1>4. messages # <<>>  BY <1>1, <1>3
<1>5. chat' = [chat EXCEPT ![c] = messages]  BY DEF Data!AskPreempted
<1> HIDE DEF messages
<1> QED  BY <1>2, <1>3, <1>4, <1>5, FetchingHolds DEF Data!AskPreempted, Data!query

LEMMA GetWidgetDataHolds ==
    ASSUME Data!WidgetDataAssumption, DataInv, NEW c \in Conv, NEW w \in Widget, Data!GetWidgetData(c, w)
    PROVE  DataInv'
<1> DEFINE m == Data!Call(<<w>>)
           messages == Append(chat[c], m)
<1>1. m \in ChatMessage /\ m.role = "ai" /\ chat[c] \in Seq(ChatMessage)
  <2>1. <<w>> \in Seq(Widget)  OBVIOUS
  <2> QED  BY <2>1 DEF ChatMessage, Data!Call, DataInv, DataTypes
<1>2. messages \in Seq(ChatMessage) /\ messages[Len(messages)] = m /\ messages # <<>>
      BY <1>1
<1>3. chat' = [chat EXCEPT ![c] = messages]
      BY <1>1 DEF Data!GetWidgetData, DataInv, DataTypes
<1> HIDE DEF messages
<1> QED  BY <1>1, <1>2, <1>3, FetchingHolds DEF Data!GetWidgetData, Data!query

(* A widget that is mentioned is the first one or in the rest.             *)
LEMMA MentionsOfTail ==
    ASSUME NEW s \in Seq(Fetched), s # <<>>, NEW w
    PROVE  Mentions(s, w) <=> Head(s)[1] = w \/ Mentions(Tail(s), w)
<1> DEFINE n == Len(s)
           t == Tail(s)
<1>1. n \in Nat \ {0} /\ Head(s) = s[1] /\ Len(t) = n - 1 /\ \A i \in 1..(n - 1) : t[i] = s[i + 1]
      OBVIOUS
<1> HIDE DEF n, t
<1>2. 1 \in 1..n /\ \A i \in 1..(n - 1) : i + 1 \in 1..n  BY <1>1
<1>3. \A k \in 1..n : k = 1 \/ (k - 1 \in 1..(n - 1) /\ (k - 1) + 1 = k)  BY <1>1
<1> QED  BY <1>1, <1>2, <1>3 DEF Mentions, n, t

(* store.record: what was to be recorded becomes the last row.             *)
LEMMA RecordHolds ==
    ASSUME Data!WidgetDataAssumption, DataInv, NEW c \in Conv, Data!Record(c)  PROVE DataInv'
<1>1. DataTypes /\ (\A d \in Conv : Served(d) /\ Queried(d))  BY DEF DataInv
<1> DEFINE s == todo[c]
           r == [conv |-> c, widget |-> Head(s)[1], version |-> Head(s)[2]]
<1>2. /\ pc[c] = "recording" /\ s # <<>> /\ Len(rows) < Bounds[place].rows
      /\ rows' = Append(rows, r) /\ todo' = [todo EXCEPT ![c] = Tail(s)]
      /\ UNCHANGED <<version, place, chat, posts, pc, since, failed, prompt, views, plan, result>>
      BY DEF Data!Record, Data!query
<1>3. s \in Seq(Fetched) /\ rows \in Seq(Recording) /\ Len(rows) \in Nat /\ Bounds[place].rows \in Nat
      /\ since[c] \in Nat /\ since[c] <= Len(rows)
      BY <1>1 DEF DataTypes, Data!WidgetDataAssumption
<1> HIDE DEF s
<1>4. Head(s) \in Fetched /\ Tail(s) \in Seq(Fetched)  BY <1>2, <1>3
<1>5. r \in Recording /\ Head(s) = <<r.widget, r.version>> /\ r.conv = c
      BY <1>4 DEF Recording, Fetched
<1>6. Append(rows, r) \in Seq(Recording) /\ Len(Append(rows, r)) = Len(rows) + 1  BY <1>3, <1>5
<1>7. DataTypes'
  <2> DEFINE n == Len(rows)
  <2>1. 0..n \subseteq 0..(n + 1) /\ 1..n \subseteq 1..(n + 1)  BY <1>3
  <2>2. views \in [Connection -> [Table -> 0..(n + 1)]]
    <3>1. views \in [Connection -> [Table -> 0..n]]  BY <1>1 DEF DataTypes
    <3> HIDE DEF n
    <3> QED  BY <2>1, <3>1
  <2>3. plan \in [Conv -> Seq(Table \X (1..(n + 1)))]
    <3>1. plan \in [Conv -> Seq(Table \X (1..n))]  BY <1>1 DEF DataTypes
    <3>2. Table \X (1..n) \subseteq Table \X (1..(n + 1))  BY <2>1
    <3>3. Seq(Table \X (1..n)) \subseteq Seq(Table \X (1..(n + 1)))  BY <3>2, SeqMonotonic
    <3> QED  BY <3>1, <3>3
  <2>4. todo' \in [Conv -> Seq(Fetched)]  BY <1>1, <1>2, <1>4 DEF DataTypes
  <2>5. Len(rows') = n + 1 /\ n + 1 <= Bounds[place].rows /\ rows' \in Seq(Recording)
        BY <1>2, <1>3, <1>6
  <2>6. \A d \in Conv : since[d] <= n + 1  BY <1>1, <1>3 DEF DataTypes
  <2>7. /\ views' \in [Connection -> [Table -> 0..Len(rows')]]
        /\ plan' \in [Conv -> Seq(Table \X (1..Len(rows')))]
        BY <1>2, <2>2, <2>3, <2>5
  <2>8. (\A d \in Conv : since'[d] <= Len(rows')) /\ Len(rows') <= Bounds[place].rows
        BY <1>2, <2>5, <2>6
  <2> HIDE DEF r, n
  <2> QED  BY <1>1, <1>2, <2>4, <2>5, <2>7, <2>8 DEF DataTypes
<1>8. Served(c)'
  <2>1. /\ pc'[c] = "recording" /\ chat'[c] = chat[c] /\ todo'[c] = Tail(s)
        /\ since'[c] = since[c] /\ failed'[c] = failed[c] /\ place' = place
        /\ rows' = Append(rows, r)
        BY <1>1, <1>2 DEF DataTypes
  <2> HIDE DEF r
  <2>2. SUFFICES ASSUME ~failed[c]
                 PROVE  Accounted(place, chat[c], Append(rows, r), Tail(s), since[c], c)
        BY <2>1 DEF Served
  <2>3. Accounted(place, chat[c], rows, s, since[c], c)
        BY <1>1, <1>2, <2>2 DEF Served, Active, s
  <2>4. ASSUME NEW w \in Widget, NEW d \in Nat \ {0}, Heard(place, chat[c], w, d)
        PROVE  Mentions(Tail(s), w) \/ HasRow(Append(rows, r), ReaderOf[c], w)
    <3>1. CASE HasRow(rows, ReaderOf[c], w)  BY <3>1, <1>3, <1>5, RowsGrow
    <3>2. CASE Mentions(s, w)
      <4>1. Head(s)[1] = w \/ Mentions(Tail(s), w)  BY <3>2, <1>2, <1>3, MentionsOfTail
      <4>2. r.widget = Head(s)[1]  BY <1>5
      <4> QED  BY <4>1, <4>2, <1>3, <1>5, RowsGrow
    <3> QED  BY <2>3, <2>4, <3>1, <3>2 DEF Accounted
  <2>5. ASSUME NEW w \in Widget, NEW d \in Nat \ {0}, Heard(place, chat[c], w, d),
               place[w] = "fetched"
        PROVE  \/ Latest(Tail(s), w, d)
               \/ ~Mentions(Tail(s), w) /\ LastRow(Append(rows, r), since[c], c, w, d)
    <3>1. CASE Latest(s, w, d)
      <4>1. \/ Head(s) = <<w, d>> /\ ~Mentions(Tail(s), w)
            \/ Latest(Tail(s), w, d)
            BY <3>1, <1>2, <1>3, LatestOfTail
      <4>2. Head(s) = <<w, d>> => r = [conv |-> c, widget |-> w, version |-> d]
            BY <1>5 DEF Recording
      <4>3. r = [conv |-> c, widget |-> w, version |-> d] =>
                LastRow(Append(rows, r), since[c], c, w, d)
            BY <1>3, <1>5, RowsGrow
      <4> QED  BY <4>1, <4>2, <4>3
    <3>2. CASE ~Mentions(s, w) /\ LastRow(rows, since[c], c, w, d)
      <4>1. ~Mentions(Tail(s), w) /\ Head(s)[1] # w  BY <3>2, <1>2, <1>3, MentionsOfTail
      <4>2. r.widget # w  BY <4>1, <1>5
      <4> QED  BY <4>1, <4>2, <3>2, <1>3, <1>5, RowsGrow
    <3> QED  BY <2>3, <2>5, <3>1, <3>2 DEF Accounted
  <2> QED  BY <2>4, <2>5 DEF Accounted
<1>9. ASSUME NEW d \in Conv, d # c  PROVE Served(d)'
  <2>1. /\ pc'[d] = pc[d] /\ chat'[d] = chat[d] /\ todo'[d] = todo[d] /\ since'[d] = since[d]
        /\ failed'[d] = failed[d] /\ prompt'[d] = prompt[d] /\ place' = place
        BY <1>1, <1>2, <1>9 DEF DataTypes
  <2>2. \E x \in Recording : x.conv # d /\ rows' = Append(rows, x)  BY <1>2, <1>5, <1>9
  <2> QED  BY <2>1, <2>2, OthersServed
<1>10. \A d \in Conv : Queried(d)'  BY <1>1, <1>2 DEF Queried
<1> QED  BY <1>7, <1>8, <1>9, <1>10 DEF DataInv

(* The store raises: from here nothing is promised.                        *)
LEMMA RecordFailsHolds ==
    ASSUME Data!WidgetDataAssumption, DataInv, NEW c \in Conv, Data!RecordFails(c)  PROVE DataInv'
<1>1. DataTypes /\ (\A d \in Conv : Served(d) /\ Queried(d))  BY DEF DataInv
<1>2. /\ pc[c] = "recording" /\ todo' = [todo EXCEPT ![c] = <<>>]
      /\ failed' = [failed EXCEPT ![c] = TRUE]
      /\ UNCHANGED <<version, place, chat, posts, pc, since, prompt, rows, views, plan, result>>
      BY DEF Data!RecordFails, Data!query
<1>3. todo' \in [Conv -> Seq(Fetched)] /\ failed' \in [Conv -> BOOLEAN]
  <2>1. <<>> \in Seq(Fetched)  OBVIOUS
  <2> QED  BY <1>1, <1>2, <2>1 DEF DataTypes
<1>4. DataTypes'  BY <1>1, <1>2, <1>3 DEF DataTypes
<1>5. Served(c)'
  <2>1. pc'[c] = "recording" /\ failed'[c]  BY <1>1, <1>2 DEF DataTypes
  <2> QED  BY <2>1 DEF Served
<1>6. ASSUME NEW d \in Conv, d # c  PROVE Served(d)'
  <2>1. /\ pc'[d] = pc[d] /\ chat'[d] = chat[d] /\ todo'[d] = todo[d] /\ since'[d] = since[d]
        /\ failed'[d] = failed[d] /\ prompt'[d] = prompt[d] /\ rows' = rows /\ place' = place
        BY <1>1, <1>2, <1>6 DEF DataTypes
  <2> QED  BY <2>1, OthersServed
<1>7. \A d \in Conv : Queried(d)'  BY <1>1, <1>2 DEF Queried
<1> QED  BY <1>4, <1>5, <1>6, <1>7 DEF DataInv

(* The first lookup, in time or not.                                       *)
LEMMA LookUpHolds ==
    ASSUME Data!WidgetDataAssumption, DataInv, NEW c \in Conv, NEW inTime \in BOOLEAN,
           Data!LookUp(c, inTime)
    PROVE  DataInv'
<1>1. DataTypes /\ (\A d \in Conv : Served(d) /\ Queried(d))  BY DEF DataInv
<1> DEFINE said == [stored |-> Data!Stored(c, inTime), tables |-> {},
                    narrowed |-> Data!HasResult(chat[c]) \/ Data!Stored(c, inTime) # {}]
<1>2. /\ pc[c] = "recording" /\ todo[c] = <<>> /\ pc' = [pc EXCEPT ![c] = "building"]
      /\ prompt' = [prompt EXCEPT ![c] = said]
      /\ UNCHANGED <<version, place, chat, posts, todo, since, failed, rows, views, plan, result>>
      BY DEF Data!LookUp, Data!query
<1>3. said \in [stored : SUBSET Widget, tables : SUBSET Table, narrowed : BOOLEAN]
  <2>1. Data!Stored(c, inTime) \subseteq Widget  BY DEF Data!Stored
  <2>2. (Data!HasResult(chat[c]) \/ Data!Stored(c, inTime) # {}) \in BOOLEAN  OBVIOUS
  <2> QED  BY <2>1, <2>2
<1>4. \A w \in Data!Stored(c, inTime) : HasRow(rows, ReaderOf[c], w)
      BY DEF Data!Stored, Data!OfWidget, Data!Own, HasRow
<1>5. Foretold(chat[c], rows, said, c)  BY <1>4 DEF Foretold
<1> HIDE DEF said
<1>6. DataTypes'
  <2>1. pc' \in [Conv -> {"idle", "fetching"} \cup Active]  BY <1>1, <1>2 DEF DataTypes, Active
  <2>2. prompt' \in [Conv -> [stored : SUBSET Widget, tables : SUBSET Table, narrowed : BOOLEAN]]
        BY <1>1, <1>2, <1>3 DEF DataTypes
  <2> QED  BY <1>1, <1>2, <2>1, <2>2 DEF DataTypes
<1>7. Served(c)'
  <2>1. pc'[c] = "building" /\ prompt'[c] = said  BY <1>1, <1>2 DEF DataTypes
  <2>2. ~failed[c] => Accounted(place, chat[c], rows, todo[c], since[c], c)
        BY <1>1, <1>2 DEF Served, Active
  <2> QED  BY <1>2, <1>5, <2>1, <2>2 DEF Served
<1>8. ASSUME NEW d \in Conv, d # c  PROVE Served(d)'
  <2>1. /\ pc'[d] = pc[d] /\ chat'[d] = chat[d] /\ todo'[d] = todo[d] /\ since'[d] = since[d]
        /\ failed'[d] = failed[d] /\ prompt'[d] = prompt[d] /\ rows' = rows /\ place' = place
        BY <1>1, <1>2, <1>8 DEF DataTypes
  <2> QED  BY <2>1, OthersServed
<1>9. \A d \in Conv : Queried(d)'  BY <1>1, <1>2 DEF Queried
<1> QED  BY <1>6, <1>7, <1>8, <1>9 DEF DataInv

(* The second lookup: whatever the chat has said has a row by now, and a   *)
(* chat that has said something has narrowed the tools.                    *)
LEMMA PromptHolds ==
    ASSUME Data!WidgetDataAssumption, DataInv, NEW c \in Conv, Data!Prompt(c)  PROVE DataInv'
<1>1. DataTypes /\ (\A d \in Conv : Served(d) /\ Queried(d))  BY DEF DataInv
<1> DEFINE said == [prompt[c] EXCEPT !.stored = @ \ Data!Files, !.tables = Data!TablesToRead(c)]
<1>2. /\ pc[c] = "building" /\ pc' = [pc EXCEPT ![c] = "running"]
      /\ prompt' = [prompt EXCEPT ![c] = said]
      /\ UNCHANGED <<version, place, chat, posts, todo, since, failed, rows, views, plan, result>>
      BY DEF Data!Prompt, Data!query
<1>3. prompt[c] \in [stored : SUBSET Widget, tables : SUBSET Table, narrowed : BOOLEAN]
      /\ rows \in Seq(Recording) /\ chat[c] \in Seq(ChatMessage)
      BY <1>1 DEF DataTypes
<1>4. Data!TablesToRead(c) \subseteq Table
  <2>1. \A i \in 1..Len(rows) : TableOf[rows[i].widget] \in Table
    <3>1. \A i \in 1..Len(rows) : rows[i] \in Recording  BY <1>3
    <3> QED  BY <3>1 DEF Recording, Data!WidgetDataAssumption
  <2> QED  BY <2>1 DEF Data!TablesToRead, Data!Tables, Data!Own
<1>5. /\ said \in [stored : SUBSET Widget, tables : SUBSET Table, narrowed : BOOLEAN]
      /\ said.stored \subseteq prompt[c].stored /\ said.tables = Data!TablesToRead(c)
      BY <1>3, <1>4
<1> HIDE DEF said
<1>6. todo[c] = <<>> /\ Foretold(chat[c], rows, prompt[c], c)
      /\ (~failed[c] => Accounted(place, chat[c], rows, todo[c], since[c], c))
      BY <1>1, <1>2 DEF Served, Active
<1>7. ASSUME NEW w, HasRow(rows, ReaderOf[c], w), prompt[c].narrowed
      PROVE  TableOf[w] \in Data!TablesToRead(c)
      BY <1>7 DEF HasRow, Data!TablesToRead, Data!Tables, Data!Own
<1>8. Promised(place, chat[c], rows, said, c, failed[c])
  <2>1. ASSUME NEW w \in said.stored
        PROVE  HasRow(rows, ReaderOf[c], w) /\ TableOf[w] \in said.tables
    <3>1. w \in prompt[c].stored  BY <1>5
    <3>2. HasRow(rows, ReaderOf[c], w) /\ prompt[c].narrowed  BY <3>1, <1>6 DEF Foretold
    <3> QED  BY <3>2, <1>5, <1>7
  <2>2. ASSUME NEW w \in Widget, NEW d \in Nat \ {0}, Heard(place, chat[c], w, d), ~failed[c]
        PROVE  TableOf[w] \in said.tables
    <3>1. HasRow(rows, ReaderOf[c], w)
          BY <1>6, <2>2, NoneMentioned DEF Accounted
    <3>2. Data!Results(chat[c]) # <<>>  BY <2>2, NoneMentioned DEF Heard
    <3>3. Data!HasResult(chat[c])  BY <3>2, <1>3, ResultsTyped
    <3>4. prompt[c].narrowed  BY <3>3, <1>6 DEF Foretold
    <3> QED  BY <3>1, <3>4, <1>5, <1>7
  <2> QED  BY <2>1, <2>2 DEF Promised
<1>9. DataTypes'
  <2>1. pc' \in [Conv -> {"idle", "fetching"} \cup Active]  BY <1>1, <1>2 DEF DataTypes, Active
  <2>2. prompt' \in [Conv -> [stored : SUBSET Widget, tables : SUBSET Table, narrowed : BOOLEAN]]
        BY <1>1, <1>2, <1>5 DEF DataTypes
  <2> QED  BY <1>1, <1>2, <2>1, <2>2 DEF DataTypes
<1>10. Served(c)'
  <2>1. pc'[c] = "running" /\ prompt'[c] = said  BY <1>1, <1>2 DEF DataTypes
  <2> QED  BY <1>2, <1>6, <1>8, <2>1 DEF Served
<1>11. ASSUME NEW d \in Conv, d # c  PROVE Served(d)'
  <2>1. /\ pc'[d] = pc[d] /\ chat'[d] = chat[d] /\ todo'[d] = todo[d] /\ since'[d] = since[d]
        /\ failed'[d] = failed[d] /\ prompt'[d] = prompt[d] /\ rows' = rows /\ place' = place
        BY <1>1, <1>2, <1>11 DEF DataTypes
  <2> QED  BY <2>1, OthersServed
<1>12. \A d \in Conv : Queried(d)'  BY <1>1, <1>2 DEF Queried
<1> QED  BY <1>9, <1>10, <1>11, <1>12 DEF DataInv

(* The turn ends.                                                          *)
LEMMA EndHolds ==
    ASSUME Data!WidgetDataAssumption, DataInv, NEW c \in Conv, Data!End(c)  PROVE DataInv'
<1>1. DataTypes /\ (\A d \in Conv : Served(d) /\ Queried(d))  BY DEF DataInv
<1> DEFINE messages == Append(chat[c], Data!Call(<<>>))
           none == [of |-> "nothing"]
<1>2. /\ pc' = [pc EXCEPT ![c] = "idle"] /\ prompt' = [prompt EXCEPT ![c] = Data!Untold]
      /\ chat' = [chat EXCEPT ![c] = messages] /\ result' = [result EXCEPT ![c] = none]
      /\ UNCHANGED <<version, place, posts, todo, since, failed, rows, views, plan>>
  <2>1. chat \in [Conv -> Seq(ChatMessage)]  BY <1>1 DEF DataTypes
  <2> QED  BY <2>1 DEF Data!End
<1>3. messages \in Seq(ChatMessage)
  <2>1. <<>> \in Seq(Widget)  OBVIOUS
  <2>2. Data!Call(<<>>) \in ChatMessage  BY <2>1 DEF Data!Call, ChatMessage
  <2>3. chat[c] \in Seq(ChatMessage)  BY <1>1 DEF DataTypes
  <2> QED  BY <2>2, <2>3
<1>4. Data!Untold \in [stored : SUBSET Widget, tables : SUBSET Table, narrowed : BOOLEAN]
      BY DEF Data!Untold
<1>5. none \in Outcome /\ none.of # "rows"  BY DEF Outcome
<1> HIDE DEF messages, none
<1>6. DataTypes'
  <2>1. /\ pc' \in [Conv -> {"idle", "fetching"} \cup Active] /\ chat' \in [Conv -> Seq(ChatMessage)]
        /\ result' \in [Conv -> Outcome]
        BY <1>1, <1>2, <1>3, <1>5 DEF DataTypes
  <2>2. prompt' \in [Conv -> [stored : SUBSET Widget, tables : SUBSET Table, narrowed : BOOLEAN]]
        BY <1>1, <1>2, <1>4 DEF DataTypes
  <2> QED  BY <1>1, <1>2, <2>1, <2>2 DEF DataTypes
<1>7. Served(c)'
  <2>1. pc'[c] = "idle"  BY <1>1, <1>2 DEF DataTypes
  <2> QED  BY <2>1 DEF Served, Active
<1>8. ASSUME NEW d \in Conv, d # c  PROVE Served(d)'
  <2>1. /\ pc'[d] = pc[d] /\ chat'[d] = chat[d] /\ todo'[d] = todo[d] /\ since'[d] = since[d]
        /\ failed'[d] = failed[d] /\ prompt'[d] = prompt[d] /\ rows' = rows /\ place' = place
        BY <1>1, <1>2, <1>8 DEF DataTypes
  <2> QED  BY <2>1, OthersServed
<1>9. ASSUME NEW d \in Conv  PROVE Queried(d)'
  <2>1. result'[d] = IF d = c THEN none ELSE result[d]  BY <1>1, <1>2 DEF DataTypes
  <2> QED  BY <2>1, <1>1, <1>5 DEF Queried
<1> QED  BY <1>6, <1>7, <1>8, <1>9 DEF DataInv

(* The data of a widget changes at its source.                             *)
LEMMA ChangeHolds ==
    ASSUME Data!WidgetDataAssumption, DataInv, NEW w \in Widget, Data!Change(w)  PROVE DataInv'
<1>1. DataTypes /\ (\A d \in Conv : Served(d) /\ Queried(d))  BY DEF DataInv
<1>2. /\ version[w] < Bounds[place].versions[w] /\ version' = [version EXCEPT ![w] = @ + 1]
      /\ UNCHANGED <<place, chat, posts, pc, todo, since, failed, prompt, rows, views, plan,
                     result>>
      BY DEF Data!Change, Data!request, Data!query
<1>3. version' \in [Widget -> Nat \ {0}]
      /\ \A v \in Widget : version'[v] <= Bounds[place].versions[v]
  <2>1. Bounds[place].versions \in [Widget -> Nat \ {0}] /\ version \in [Widget -> Nat \ {0}]
        BY <1>1 DEF DataTypes, Data!WidgetDataAssumption
  <2>2. version[w] \in Nat \ {0} /\ Bounds[place].versions[w] \in Nat \ {0}  BY <2>1
  <2>3. version[w] + 1 \in Nat \ {0} /\ version[w] + 1 <= Bounds[place].versions[w]
        BY <2>2, <1>2
  <2>4. \A v \in Widget : version[v] <= Bounds[place].versions[v]  BY <1>1 DEF DataTypes
  <2> QED  BY <1>2, <2>1, <2>3, <2>4
<1>4. DataTypes'  BY <1>1, <1>2, <1>3 DEF DataTypes
<1>5. \A d \in Conv : Served(d)'  BY <1>1, <1>2 DEF Served
<1>6. \A d \in Conv : Queried(d)'  BY <1>1, <1>2 DEF Queried
<1> QED  BY <1>4, <1>5, <1>6 DEF DataInv

(* query() chooses the newest rows.                                        *)
LEMMA BeginQueryHolds ==
    ASSUME Data!WidgetDataAssumption, DataInv, NEW c \in Conv, Data!BeginQuery(c)  PROVE DataInv'
<1>1. DataTypes /\ (\A d \in Conv : Served(d) /\ Queried(d))  BY DEF DataInv
<1> DEFINE none == [of |-> "nothing"]
           p == Data!Schema(ReaderOf[c])
<1>2. /\ pc[c] = "running" /\ pc' = [pc EXCEPT ![c] = "querying"]
      /\ plan' = [plan EXCEPT ![c] = p] /\ result' = [result EXCEPT ![c] = none]
      /\ UNCHANGED <<version, place, chat, posts, todo, since, failed, prompt, rows, views>>
      BY DEF Data!BeginQuery
<1>3. p \in Seq(Table \X (1..Len(rows)))
  <2>1. rows \in Seq([conv : Conv, widget : Widget, version : Nat \ {0}])
        BY <1>1 DEF DataTypes, Recording
  <2> QED  BY <2>1, SchemaIs
<1>4. none \in Outcome /\ none.of # "rows"  BY DEF Outcome
<1> HIDE DEF none, p
<1>5. DataTypes'
  <2>1. /\ pc' \in [Conv -> {"idle", "fetching"} \cup Active]
        /\ plan' \in [Conv -> Seq(Table \X (1..Len(rows)))] /\ result' \in [Conv -> Outcome]
        BY <1>1, <1>2, <1>3, <1>4 DEF DataTypes, Active
  <2> QED  BY <1>1, <1>2, <2>1 DEF DataTypes
<1>6. Served(c)'
  <2>1. pc'[c] = "querying"  BY <1>1, <1>2 DEF DataTypes
  <2>2. Served(c)  BY <1>1
  <2> QED  BY <1>2, <2>1, <2>2 DEF Served, Active
<1>7. ASSUME NEW d \in Conv, d # c  PROVE Served(d)'
  <2>1. /\ pc'[d] = pc[d] /\ chat'[d] = chat[d] /\ todo'[d] = todo[d] /\ since'[d] = since[d]
        /\ failed'[d] = failed[d] /\ prompt'[d] = prompt[d] /\ rows' = rows /\ place' = place
        BY <1>1, <1>2, <1>7 DEF DataTypes
  <2> QED  BY <2>1, OthersServed
<1>8. ASSUME NEW d \in Conv  PROVE Queried(d)'
  <2>1. result'[d] = IF d = c THEN none ELSE result[d]  BY <1>1, <1>2 DEF DataTypes
  <2> QED  BY <2>1, <1>1, <1>4 DEF Queried
<1> QED  BY <1>5, <1>6, <1>7, <1>8 DEF DataInv

(* query() makes its views and reads, or fails.                            *)
LEMMA RunSqlHolds ==
    ASSUME Data!WidgetDataAssumption, DataInv,
           NEW c \in Conv, NEW t \in Table, NEW k \in Connection, Data!RunSql(c, t, k)
    PROVE  DataInv'
<1>1. DataTypes /\ (\A d \in Conv : Served(d) /\ Queried(d))  BY DEF DataInv
<1> DEFINE n == Len(rows)
           p == plan[c]
           made == Data!Made(p, k)
           out == [of  |-> IF made.all /\ made.views[t] # 0 THEN "rows" ELSE "error",
                   row |-> made.views[t],
                   due |-> IF Planned(p, t) = 0 THEN 0 ELSE p[Planned(p, t)][2]]
<1>2. /\ pc[c] = "querying" /\ pc' = [pc EXCEPT ![c] = "running"]
      /\ views' = [views EXCEPT ![k] = made.views] /\ plan' = [plan EXCEPT ![c] = <<>>]
      /\ result' = [result EXCEPT ![c] = out]
      /\ UNCHANGED <<version, place, chat, posts, todo, since, failed, prompt, rows>>
      BY DEF Data!RunSql, Planned
<1>3. n \in Nat /\ p \in Seq(Table \X (1..n)) /\ views[k] \in [Table -> 0..n]
      BY <1>1 DEF DataTypes
<1> HIDE DEF n, p
<1>4. /\ made.all \in BOOLEAN /\ made.views \in [Table -> 0..n]
      /\ made.all /\ Planned(p, t) # 0 => made.views[t] = p[Planned(p, t)][2]
      BY <1>3, MadeIs
<1>5. Planned(p, t) # 0 => p[Planned(p, t)][2] \in 1..n  BY <1>3, PlannedIs
<1> HIDE DEF made
<1>6. out \in Outcome /\ (out.of = "rows" /\ out.due # 0 => out.row = out.due)
  <2>1. made.views[t] \in 0..n  BY <1>4
  <2>2. out.row \in Nat /\ out.due \in Nat  BY <2>1, <1>3, <1>5
  <2>3. out.of \in {"rows", "error"} /\ (out.of = "rows" => made.all)  OBVIOUS
  <2>4. out.due # 0 => Planned(p, t) # 0 /\ out.due = p[Planned(p, t)][2]  OBVIOUS
  <2> QED  BY <2>2, <2>3, <2>4, <1>4 DEF Outcome
<1> HIDE DEF out
<1>7. DataTypes'
  <2>1. pc' \in [Conv -> {"idle", "fetching"} \cup Active] /\ result' \in [Conv -> Outcome]
        BY <1>1, <1>2, <1>6 DEF DataTypes, Active
  <2>2. plan' \in [Conv -> Seq(Table \X (1..Len(rows)))]
    <3>1. <<>> \in Seq(Table \X (1..Len(rows)))  OBVIOUS
    <3> QED  BY <3>1, <1>1, <1>2 DEF DataTypes
  <2>3. views' \in [Connection -> [Table -> 0..Len(rows)]]
        BY <1>1, <1>2, <1>4 DEF DataTypes, n
  <2> QED  BY <1>1, <1>2, <2>1, <2>2, <2>3 DEF DataTypes
<1>8. Served(c)'
  <2>1. pc'[c] = "running"  BY <1>1, <1>2 DEF DataTypes
  <2>2. Served(c)  BY <1>1
  <2> QED  BY <1>2, <2>1, <2>2 DEF Served, Active
<1>9. ASSUME NEW d \in Conv, d # c  PROVE Served(d)'
  <2>1. /\ pc'[d] = pc[d] /\ chat'[d] = chat[d] /\ todo'[d] = todo[d] /\ since'[d] = since[d]
        /\ failed'[d] = failed[d] /\ prompt'[d] = prompt[d] /\ rows' = rows /\ place' = place
        BY <1>1, <1>2, <1>9 DEF DataTypes
  <2> QED  BY <2>1, OthersServed
<1>10. ASSUME NEW d \in Conv  PROVE Queried(d)'
  <2>1. result'[d] = IF d = c THEN out ELSE result[d]  BY <1>1, <1>2 DEF DataTypes
  <2> QED  BY <2>1, <1>1, <1>6 DEF Queried
<1> QED  BY <1>7, <1>8, <1>9, <1>10 DEF DataInv

(* Every step preserves the invariant.                                     *)
LEMMA DataHolds == Data!WidgetDataAssumption /\ DataInv /\ [Data!Next]_Data!vars => DataInv'
<1> SUFFICES ASSUME Data!WidgetDataAssumption, DataInv, [Data!Next]_Data!vars  PROVE DataInv'
    OBVIOUS
<1>1. ASSUME NEW c \in Conv, Data!Ask(c) \/ Data!AskPreempted(c) \/ Data!Reply(c) \/ Data!End(c)
      PROVE  DataInv'
      BY <1>1, AskHolds, AskPreemptedHolds, ReplyHolds, EndHolds
<1>2. ASSUME NEW c \in Conv, Data!Record(c) \/ Data!RecordFails(c) \/ Data!Prompt(c)  PROVE DataInv'
      BY <1>2, RecordHolds, RecordFailsHolds, PromptHolds
<1>3. ASSUME NEW c \in Conv, NEW inTime \in BOOLEAN, Data!LookUp(c, inTime)  PROVE DataInv'
      BY <1>3, LookUpHolds
<1>4. ASSUME NEW c \in Conv, NEW w \in Widget, Data!GetWidgetData(c, w)  PROVE DataInv'
      BY <1>4, GetWidgetDataHolds
<1>5. ASSUME NEW w \in Widget, Data!Change(w)  PROVE DataInv'  BY <1>5, ChangeHolds
<1>6. ASSUME NEW c \in Conv, Data!BeginQuery(c)  PROVE DataInv'  BY <1>6, BeginQueryHolds
<1>7. ASSUME NEW c \in Conv, NEW t \in Table, NEW k \in Connection, Data!RunSql(c, t, k)
      PROVE  DataInv'
      BY <1>7, RunSqlHolds
<1>8. ASSUME UNCHANGED Data!vars  PROVE DataInv'
      BY <1>8 DEF Data!vars, Data!request, Data!query, DataInv, DataTypes, Served, Queried
<1> QED  BY <1>1, <1>2, <1>3, <1>4, <1>5, <1>6, <1>7, <1>8 DEF Data!Next

-----------------------------------------------------------------------------
(* It implies what is promised.  The types:                                *)
LEMMA DataIsTyped == Data!WidgetDataAssumption /\ DataInv => Data!TypeOK
<1> SUFFICES ASSUME Data!WidgetDataAssumption, DataInv  PROVE Data!TypeOK
    OBVIOUS
<1>1. DataTypes  BY DEF DataInv
<1>2. \A w \in Widget : version[w] \in 1..Bounds[place].versions[w]
  <2>1. Bounds[place].versions \in [Widget -> Nat \ {0}] /\ version \in [Widget -> Nat \ {0}]
        BY <1>1 DEF DataTypes, Data!WidgetDataAssumption
  <2> QED  BY <2>1, <1>1 DEF DataTypes
<1>3. \A c \in Conv : posts[c] \in 0..Bounds[place].posts[c]
  <2>1. Bounds[place].posts \in [Conv -> Nat] /\ posts \in [Conv -> Nat]
        BY <1>1 DEF DataTypes, Data!WidgetDataAssumption
  <2> QED  BY <2>1, <1>1 DEF DataTypes
<1>4. ASSUME NEW c \in Conv, NEW i \in 1..Len(todo[c])  PROVE todo[c][i][1] \in Widget
  <2>1. todo[c] \in Seq(Fetched)  BY <1>1 DEF DataTypes
  <2>2. todo[c][i] \in Fetched  BY <2>1, ElementOfSeq
  <2> QED  BY <2>2 DEF Fetched
<1>5. since \in [Conv -> 0..Len(rows)]
  <2>1. Len(rows) \in Nat  BY <1>1 DEF DataTypes
  <2> QED  BY <2>1, <1>1 DEF DataTypes
<1>6. \A c \in Conv : prompt[c].stored \subseteq Widget /\ prompt[c].tables \subseteq Table
      BY <1>1 DEF DataTypes
<1>7. \A c \in Conv : plan[c] \in Seq(Table \X (1..Len(rows)))  BY <1>1 DEF DataTypes
<1>8. \A c \in Conv : result[c].of \in {"nothing", "rows", "error"}
      BY <1>1 DEF DataTypes, Outcome
<1>9. pc \in [Conv -> {"idle", "fetching", "recording", "building", "running", "querying"}]
      BY <1>1 DEF DataTypes, Active
<1> QED  BY <1>1, <1>2, <1>3, <1>4, <1>5, <1>6, <1>7, <1>8, <1>9 DEF Data!TypeOK, DataTypes, Recording

(* the last row of a conversation is the newest of the widget, unless      *)
(* another conversation has made one since its request began;              *)
LEMMA DataIsFresh == Data!WidgetDataAssumption /\ DataInv => Data!ReadIsFresh
<1> SUFFICES ASSUME Data!WidgetDataAssumption, DataInv,
                    NEW c \in Conv, pc[c] = "running", ~failed[c],
                    NEW w \in Widget, place[w] = "fetched", Data!Told(c, w) # 0,
                    ~\E i \in (since[c] + 1)..Len(rows) :
                        rows[i].widget = w /\ rows[i].conv # c
             PROVE  rows[Data!ReadLatest(ReaderOf[c], w)].version = Data!Told(c, w)
    BY DEF Data!ReadIsFresh
<1>1. /\ chat[c] \in Seq(ChatMessage) /\ rows \in Seq(Recording) /\ Len(rows) \in Nat
      /\ since[c] \in Nat /\ todo[c] = <<>>
      /\ Accounted(place, chat[c], rows, todo[c], since[c], c)
      BY DEF DataInv, DataTypes, Served, Active
<1> DEFINE d == Data!Told(c, w)
           n == Len(rows)
<1>2. d \in Nat \ {0} /\ Heard(place, chat[c], w, d)  BY <1>1, ToldIs DEF Heard
<1> HIDE DEF d
<1>3. LastRow(rows, since[c], c, w, d)  BY <1>1, <1>2, NoneMentioned DEF Accounted
<1>4. PICK i \in (since[c] + 1)..n :
          /\ rows[i].conv = c /\ rows[i].widget = w /\ rows[i].version = d
          /\ \A j \in (i + 1)..n : rows[j].conv = c => rows[j].widget # w
      BY <1>3 DEF LastRow
<1> DEFINE R == Data!OfWidget(ReaderOf[c], w)
<1>5. i \in R /\ R \in SUBSET (0..n)
  <2>1. i \in 1..n  BY <1>1, <1>4
  <2> QED  BY <2>1, <1>4 DEF Data!OfWidget, Data!Own
<1>6. Data!Max(R) \in R /\ i <= Data!Max(R)  BY <1>1, <1>5, Largest
<1> DEFINE h == Data!Max(R)
<1>7. h \in 1..n /\ rows[h].widget = w  BY <1>6 DEF Data!OfWidget, Data!Own
<1> HIDE DEF h
<1>8. h = i
  <2>1. SUFFICES ASSUME h # i  PROVE FALSE
        OBVIOUS
  <2>2. h \in (i + 1)..n /\ h \in (since[c] + 1)..n  BY <2>1, <1>1, <1>4, <1>6, <1>7 DEF h
  <2>3. rows[h].conv = c  BY <2>2, <1>7
  <2> QED  BY <2>2, <2>3, <1>4, <1>7
<1>9. Data!ReadLatest(ReaderOf[c], w) = h  BY <1>5 DEF Data!ReadLatest, h
<1> QED  BY <1>4, <1>8, <1>9 DEF d

(* what is called stored has a row, and what was told has its table named; *)
LEMMA DataIsPrompted == Data!WidgetDataAssumption /\ DataInv => Data!PromptIsTrue
<1> SUFFICES ASSUME Data!WidgetDataAssumption, DataInv,
                    NEW c \in Conv, pc[c] \in {"running", "querying"}
             PROVE  /\ \A w \in prompt[c].stored :
                          Data!ReadLatest(ReaderOf[c], w) # 0 /\ TableOf[w] \in prompt[c].tables
                    /\ \A w \in Widget : (place[w] # "extra" /\ Data!Told(c, w) # 0 /\ ~failed[c]) =>
                          TableOf[w] \in prompt[c].tables
    BY DEF Data!PromptIsTrue
<1>1. /\ chat[c] \in Seq(ChatMessage) /\ Len(rows) \in Nat
      /\ Promised(place, chat[c], rows, prompt[c], c, failed[c])
      BY DEF DataInv, DataTypes, Served
<1>2. ASSUME NEW w \in prompt[c].stored
      PROVE  Data!ReadLatest(ReaderOf[c], w) # 0 /\ TableOf[w] \in prompt[c].tables
  <2>1. HasRow(rows, ReaderOf[c], w) /\ TableOf[w] \in prompt[c].tables  BY <1>1 DEF Promised
  <2> DEFINE R == Data!OfWidget(ReaderOf[c], w)
  <2>2. R # {} /\ R \in SUBSET (0..Len(rows)) /\ 0 \notin R
        BY <2>1, <1>1 DEF HasRow, Data!OfWidget, Data!Own
  <2>3. Data!Max(R) \in R  BY <2>2, <1>1, Largest
  <2> QED  BY <2>1, <2>2, <2>3 DEF Data!ReadLatest
<1>3. ASSUME NEW w \in Widget, place[w] # "extra", Data!Told(c, w) # 0, ~failed[c]
      PROVE  TableOf[w] \in prompt[c].tables
  <2>1. Data!Told(c, w) \in Nat \ {0} /\ Heard(place, chat[c], w, Data!Told(c, w))
        BY <1>1, <1>3, ToldIs DEF Heard
  <2> QED  BY <2>1, <1>1, <1>3 DEF Promised
<1> QED  BY <1>2, <1>3

(* a query chooses the newest rows and shows what it chose.                *)
LEMMA DataIsQueried == Data!WidgetDataAssumption /\ DataInv => Data!NewestAreQueried /\ Data!QueryIsSound
<1> SUFFICES ASSUME Data!WidgetDataAssumption, DataInv  PROVE Data!NewestAreQueried /\ Data!QueryIsSound
    OBVIOUS
<1>1. rows \in Seq([conv : Conv, widget : Widget, version : Nat \ {0}])
      BY DEF DataInv, DataTypes, Recording
<1>2. Data!NewestAreQueried  BY <1>1, SchemaIs, SameSets DEF Data!NewestAreQueried
<1>3. Data!QueryIsSound  BY DEF DataInv, Queried, Data!QueryIsSound
<1> QED  BY <1>2, <1>3

(* runtime/widget_store.py and the two places of the router and the agent  *)
(* that use it, for any widgets, conversations, users, tables and          *)
(* connections, chats of any length and any of the bounds: what the agent  *)
(* reads is fresh, what the prompt says is true, and a query shows the     *)
(* newest recording.                                                       *)
THEOREM WidgetsRead ==
    Data!WidgetDataAssumption /\ Data!Spec =>
        [](Data!TypeOK /\ Data!ReadIsFresh /\ Data!PromptIsTrue /\ Data!NewestAreQueried /\ Data!QueryIsSound)
<1> SUFFICES ASSUME Data!WidgetDataAssumption
             PROVE  Data!Spec => [](Data!TypeOK /\ Data!ReadIsFresh /\ Data!PromptIsTrue /\ Data!NewestAreQueried
                               /\ Data!QueryIsSound)
    OBVIOUS
<1>1. Data!Init => DataInv  BY DataStarts
<1>2. DataInv /\ [Data!Next]_Data!vars => DataInv'  BY DataHolds
<1>3. DataInv => Data!TypeOK /\ Data!ReadIsFresh /\ Data!PromptIsTrue /\ Data!NewestAreQueried /\ Data!QueryIsSound
      BY DataIsTyped, DataIsFresh, DataIsPrompted, DataIsQueried
<1> QED  BY <1>1, <1>2, <1>3, PTL DEF Data!Spec

-----------------------------------------------------------------------------
(* Beside each other the exchanges, the data of widgets and the accounts   *)
(* behave as each does by itself.                                          *)
THEOREM PartsAreThemselves == RequestsSpec => Spec /\ Data!Spec /\ Entry!Spec
<1>1. RequestsInit => Init /\ Data!Init /\ Entry!Init  BY DEF RequestsInit
<1>2. ASSUME [RequestsNext]_<<part, vars, fetching, entering>>
      PROVE  [Next]_vars /\ [Data!Next]_(Data!vars) /\ [Entry!Next]_(Entry!vars)
      BY <1>2 DEF RequestsNext, fetching, entering, Data!vars, Data!request, Data!query,
                  Entry!vars, Entry!ghosts
<1> QED  BY <1>1, <1>2, PTL DEF RequestsSpec, Spec, Data!Spec, Entry!Spec

(* runtime/widget_store.py, app/router.py and runtime/emit.py, side by     *)
(* side: the agent reads of a widget what its conversation was last told,  *)
(* the prompt is right about the store, and a query shows the newest       *)
(* recording of each table.                                                *)
THEOREM WidgetsAreReadHolds == RequestsSpec => []WidgetsAreRead
<1>1. Data!TypeOK /\ Data!ReadIsFresh /\ Data!PromptIsTrue /\ Data!NewestAreQueried
        /\ Data!QueryIsSound => WidgetsAreRead
      BY DEF WidgetsAreRead
<1> QED  BY <1>1, RequestsAssumption, PartsAreThemselves, WidgetsRead, PTL

(* plugins/auth, the users and the commands of app/app.py, side by side.   *)
THEOREM KeysHoldBeside == RequestsSpec => KeysHold
<1>1. EntryInv => Entry!TypeOK
  <2> SUFFICES ASSUME EntryInv  PROVE Entry!TypeOK
      OBVIOUS
  <2>1. EntryTypes /\ \A k \in Key : KeyInv(k)  BY DEF EntryInv
  <2>2. \A r \in Request : req[r] \in RequestRow  BY <2>1 DEF EntryTypes
  <2>3. \A c \in Command : cmd[c] \in CommandRow  BY <2>1 DEF EntryTypes
  <2>4. \A k \in Key : keys[k] # None => keys[k] \in KeyRow /\ k \in issued
        BY <2>1 DEF EntryTypes, KeyInv
  <2> QED  BY <2>1, <2>2, <2>3, <2>4
           DEF EntryTypes, Entry!TypeOK, RequestRow, CommandRow, CallRow, KeyRow, Underway
<1>2. Entry!TypeOK /\ Entry!KeysHaveUser /\ Entry!DeadKeysStayOut =>
          (part = "accounts" => Entry!TypeOK /\ Entry!KeysHaveUser /\ Entry!DeadKeysStayOut)
      OBVIOUS
<1> QED
    BY <1>1, <1>2, PartsAreThemselves, EntryInvariance, KeysHaveUserHolds,
       DeadKeysStayOutHolds,
       ErasedComesBack, PTL DEF KeysHold
=============================================================================
