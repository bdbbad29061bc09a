--------------------------- MODULE TraceLifecycle ---------------------------
(***************************************************************************)
(* The life of a row of the traces table, one per /v1/query exchange, as a *)
(* reader of GET /v1/traces/{id} may see it: it is opened once, closed     *)
(* once with a final status, never reopened, and erased with its user.  A  *)
(* completed exchange may still turn into a cancelled one: the connection  *)
(* can be torn down while the closing write is on its way.  QueryRun.tla   *)
(* is shown to implement this specification.                               *)
(***************************************************************************)
CONSTANT Run

VARIABLE trace

Final  == {"completed", "cancelled", "error", "paused", "dispatched"}

Init == trace = [r \in Run |-> "none"]

Begin(r) == /\ trace[r] = "none"
            /\ trace' = [trace EXCEPT ![r] = "running"]

Close(r) == /\ trace[r] = "running"
            /\ \E s \in Final : trace' = [trace EXCEPT ![r] = s]

Amend(r) == /\ trace[r] = "completed"
            /\ trace' = [trace EXCEPT ![r] = "cancelled"]

(* Deleting a user erases the rows that exist, all in one transaction.     *)
Erase(S) == trace' = [r \in Run |-> IF r \in S /\ trace[r] # "none"
                                    THEN "erased" ELSE trace[r]]

Next == \/ \E r \in Run : Begin(r) \/ Close(r) \/ Amend(r)
        \/ \E S \in SUBSET Run : Erase(S)

Spec == Init /\ [][Next]_trace
=============================================================================
