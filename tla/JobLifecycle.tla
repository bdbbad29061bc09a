---------------------------- MODULE JobLifecycle ----------------------------
(***************************************************************************)
(* What the background-job registry of one run promises to the agent: a    *)
(* job is submitted while the run is open, settles exactly once, and is    *)
(* settled at the latest by the step that closes the run.  Jobs.tla is     *)
(* shown to implement this specification.                                  *)
(***************************************************************************)
CONSTANT Job

VARIABLES status,   \* what a snapshot of the job reports
          closed    \* the run has ended

vars == <<status, closed>>

Settled == {"done", "error", "canceled"}

Init == /\ status = [j \in Job |-> "absent"]
        /\ closed = FALSE

Submit(j) == /\ ~closed
             /\ status[j] = "absent"
             /\ status' = [status EXCEPT ![j] = "running"]
             /\ UNCHANGED closed

Settle(j) == /\ status[j] = "running"
             /\ \E s \in Settled : status' = [status EXCEPT ![j] = s]
             /\ UNCHANGED closed

(* Ending the run reaps whatever is still running, in the same step.       *)
Close == /\ ~closed
         /\ closed' = TRUE
         /\ status' = [j \in Job |-> IF status[j] = "running"
                                     THEN "canceled" ELSE status[j]]

Next == \/ \E j \in Job : Submit(j) \/ Settle(j)
        \/ Close

Spec == Init /\ [][Next]_vars
=============================================================================
