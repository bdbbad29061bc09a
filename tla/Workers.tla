------------------------------ MODULE Workers ------------------------------
(***************************************************************************)
(* What works beside an exchange, one part at a time: the parts share no   *)
(* state, and a behaviour is one of the part that WorkersInit chooses.     *)
(* They are the rate limiter, RateLimiter itself, and Registry, the        *)
(* background jobs of one run.                                             *)
(***************************************************************************)
EXTENDS RateLimiter

CONSTANTS Job, Waiter, Stubborn, Faulty, Threaded  \* of Jobs

VARIABLES part, open, state, outcome, finished, task, cancelReq, waiter, hand, granted

registry == <<open, state, outcome, finished, task, cancelReq, waiter, hand, granted>>

Registry == INSTANCE Jobs

ASSUME WorkersAssumption == Registry!JobsAssumption

WorkersInit == part \in {"limiter", "jobs"} /\ Init /\ Registry!Init

WorkersNext ==
    /\ UNCHANGED part
    /\ \/ part = "limiter" /\ Next /\ UNCHANGED registry
       \/ part = "jobs" /\ Registry!Next /\ UNCHANGED vars

Limiting(A) == part = "limiter" /\ A /\ UNCHANGED <<part, registry>>

(* The fairness of the limiter, when it is the part, and of the jobs, of   *)
(* which there are none when they are not.                                 *)
WorkersSpec ==
    /\ WorkersInit /\ [][WorkersNext]_<<part, vars, registry>>
    /\ WF_vars(Limiting(Tick))
    /\ \A c \in Caller : WF_vars(Limiting(Check(c) \/ Charge(c) \/ Sleep(c) \/ Wake(c)))
    /\ WF_vars(Limiting(\E c \in Caller : Lock(c)))
    /\ Registry!Fairness

-----------------------------------------------------------------------------
(* The types of the parts.                                                 *)
TypesOK == IF part = "limiter" THEN TypeOK ELSE Registry!TypeOK

(* The state of a job that no cancel_job call touches agrees with its task.*)
StateTracksTask == part = "jobs" => Registry!StateTracksTask

(* Every job is gone some time after its run has ended.                    *)
RunEndReapsAll == Registry!RunEndReapsAll

(* The registry implements the abstract lifecycle for its plain jobs.      *)
ImplementsLifecycle == Registry!ImplementsLifecycle
=============================================================================
