-------------------------------- MODULE Jobs --------------------------------
(***************************************************************************)
(* The per-run background-job registry (runtime/jobs.py) together with the *)
(* asyncio tasks it drives, the tools that read it                         *)
(* (plugins/tools/background_jobs.py) and the run that owns it             *)
(* (runtime/context.py, bind).                                             *)
(*                                                                         *)
(* asyncio is external and modelled by the three facts the registry relies *)
(* on: a created task takes its first step later; Task.cancel() only       *)
(* records a request, and the CancelledError is thrown at the task's next  *)
(* step, before anything else it could have done there; cancelling a task  *)
(* whose first step has not run ends it without running its body.          *)
(*                                                                         *)
(* The event loop is one thread.  The cancel_job tool is another: it is a  *)
(* plain function, which LangChain calls on an executor thread, so that    *)
(* JobRegistry.cancel may run there while the loop is in the middle of a   *)
(* step of the very task it cancels.                                       *)
(***************************************************************************)
EXTENDS Naturals

CONSTANTS
    Job,       \* job ids
    Waiter,    \* calls of JobRegistry.wait
    Stubborn,  \* jobs whose coroutine may catch the CancelledError and go on
    Faulty,    \* jobs submitted as a factory that may raise when it is called
    Threaded   \* jobs that cancel_job may be called for

JobsAssumption ==
    Stubborn \subseteq Job /\ Faulty \subseteq Job /\ Threaded \subseteq Job

VARIABLES
    open,       \* inside bind(ctx)
    state,      \* _Job.state, "absent" for an id not in _jobs
    outcome,    \* _Job.result / _Job.error: "none", "value" or "failure"
    finished,   \* _Job.finished_at: how often it was written, 0 for None
    task,       \* the asyncio task behind the job
    cancelReq,  \* task.cancel() was accepted, the CancelledError is not thrown yet
    waiter,     \* calls of wait()
    hand,       \* how far the executor thread is in JobRegistry.cancel
    granted     \* history: the jobs for which cancel() answered True

jobVars == <<state, outcome, finished, task, cancelReq>>
vars    == <<open, jobVars, waiter, hand, granted>>

Terminal   == {"done", "error", "canceled"}
JobState   == {"absent", "running"} \cup Terminal
Landing    == {"landing", "landed"}    \* in its last step, outcome unwritten, written
LiveTask   == {"ready", "awaiting"} \cup Landing
EndedTask  == {"returned", "raised", "cancelled"}

Idle        == [at |-> "idle"]
Blocked(j)  == [at |-> "blocked", job |-> j]
Escaped(j)  == [at |-> "escaped", job |-> j]      \* an exception left wait()
Interrupted(j) == [at |-> "interrupted", job |-> j]  \* the caller was torn down

(* _snapshot(job, include_result=True): the result only when it is DONE.   *)
Snapshot(j) == [at |-> "returned", job |-> j, state |-> state[j],
                result |-> state[j] = "done"]
TimedOut(j) == [at |-> "returned", job |-> j, state |-> "TIMEOUT",
                result |-> FALSE]

WaiterState ==
         {Idle}
    \cup [at : {"blocked", "escaped", "interrupted"}, job : Job]
    \cup [at : {"returned"}, job : Job, state : JobState \cup {"TIMEOUT"},
          result : BOOLEAN]

(* Every variable stays within its type: a snapshot never shows a state    *)
(* outside the ones a job of this source is put in.                        *)
TypeOK ==
    /\ open \in BOOLEAN
    /\ state \in [Job -> JobState]
    /\ outcome \in [Job -> {"none", "value", "failure"}]
    /\ finished \in [Job -> Nat]
    /\ task \in [Job -> {"none"} \cup LiveTask \cup EndedTask]
    /\ cancelReq \in [Job -> BOOLEAN]
    /\ waiter \in [Waiter -> WaiterState]
    /\ hand \in [Job -> {"away", "checked", "delivered"}]
    /\ granted \in SUBSET Job

Init ==
    /\ open = TRUE
    /\ state = [j \in Job |-> "absent"]
    /\ outcome = [j \in Job |-> "none"]
    /\ finished = [j \in Job |-> 0]
    /\ task = [j \in Job |-> "none"]
    /\ cancelReq = [j \in Job |-> FALSE]
    /\ waiter = [w \in Waiter |-> Idle]
    /\ hand = [j \in Job |-> "away"]
    /\ granted = {}

(* The event loop is not in the middle of a task's last step.              *)
Quiet == \A j \in Job : task[j] \notin Landing

-----------------------------------------------------------------------------
(* The registry's synchronous operations.                                  *)

(* Mutant: a job starts in the reserved state PENDING.                     *)
Submit_Pending(j) ==
    /\ Quiet /\ open
    /\ state[j] = "absent"
    /\ state' = [state EXCEPT ![j] = "pending"]
    /\ task' = [task EXCEPT ![j] = "ready"]
    /\ UNCHANGED <<open, outcome, finished, cancelReq, waiter, hand, granted>>

Submit(j) ==
    /\ Quiet /\ open
    /\ state[j] = "absent"
    /\ state' = [state EXCEPT ![j] = "running"]
    /\ task' = [task EXCEPT ![j] = "ready"]
    /\ UNCHANGED <<open, outcome, finished, cancelReq, waiter, hand, granted>>

(* The body of cancel() and of one turn of cancel_all()'s loop: the task   *)
(* accepts the request only while it is alive, and the job's state is set  *)
(* at once, before the task has seen anything.                             *)
Cancellable(j) == state[j] = "running" /\ task[j] \in LiveTask

(* Mutant: finished_at is left for the task to write.                      *)
MarkCanceled_Unstamped(S) ==
    /\ state' = [j \in Job |-> IF j \in S THEN "canceled" ELSE state[j]]
    /\ cancelReq' = [j \in Job |-> cancelReq[j] \/ j \in S]
    /\ UNCHANGED <<outcome, finished, task>>

(* Mutant: the state too is left for the task to write.                    *)
MarkCanceled_Lazy(S) ==
    /\ cancelReq' = [j \in Job |-> cancelReq[j] \/ j \in S]
    /\ UNCHANGED <<state, outcome, finished, task>>

MarkCanceled(S) ==
    /\ state' = [j \in Job |-> IF j \in S THEN "canceled" ELSE state[j]]
    /\ finished' = [j \in Job |-> IF j \in S /\ finished[j] = 0
                                  THEN 1 ELSE finished[j]]
    /\ cancelReq' = [j \in Job |-> cancelReq[j] \/ j \in S]
    /\ UNCHANGED <<outcome, task>>

(* cancel() for an unknown or settled job, or one whose task has ended,    *)
(* answers False and changes nothing: a stuttering step.                   *)
Cancel(j) ==
    /\ Quiet /\ open
    /\ Cancellable(j)
    /\ MarkCanceled({j})
    /\ granted' = granted \cup {j}
    /\ UNCHANGED <<open, waiter, hand>>

(* Mutant: cancel_all passes over the tasks that have not started yet.     *)
Close_StartedOnly ==
    /\ Quiet /\ open
    /\ open' = FALSE
    /\ MarkCanceled({j \in Job : Cancellable(j) /\ task[j] = "awaiting"})
    /\ waiter' = [w \in Waiter |-> IF waiter[w].at = "blocked"
                                   THEN Interrupted(waiter[w].job)
                                   ELSE waiter[w]]
    /\ UNCHANGED <<hand, granted>>

(* bind()'s finally: cleanup_state -> cancel_all.  A wait() that is still  *)
(* blocked belongs to a tool call of the run that is being torn down.      *)
Close ==
    /\ Quiet /\ open
    /\ open' = FALSE
    /\ MarkCanceled({j \in Job : Cancellable(j)})
    /\ waiter' = [w \in Waiter |-> IF waiter[w].at = "blocked"
                                   THEN Interrupted(waiter[w].job)
                                   ELSE waiter[w]]
    /\ UNCHANGED <<hand, granted>>

-----------------------------------------------------------------------------
(* Steps of the task that executes _run.                                   *)

(* The factory is called, and the coroutine runs to its first await.       *)
Start(j) ==
    /\ Quiet /\ task[j] = "ready" /\ ~cancelReq[j]
    /\ task' = [task EXCEPT ![j] = "awaiting"]
    /\ UNCHANGED <<open, state, outcome, finished, cancelReq, waiter, hand, granted>>

(* The call of the factory is outside _run's try: the task ends with the   *)
(* exception and the job is left as it was.                                *)
FactoryRaises(j) ==
    /\ Quiet /\ j \in Faulty
    /\ task[j] = "ready" /\ ~cancelReq[j]
    /\ task' = [task EXCEPT ![j] = "raised"]
    /\ UNCHANGED <<open, state, outcome, finished, cancelReq, waiter, hand, granted>>

(* Cancelled before its first step: the body never runs.                   *)
DropUnstarted(j) ==
    /\ Quiet /\ task[j] = "ready" /\ cancelReq[j]
    /\ task' = [task EXCEPT ![j] = "cancelled"]
    /\ cancelReq' = [cancelReq EXCEPT ![j] = FALSE]
    /\ UNCHANGED <<open, state, outcome, finished, waiter, hand, granted>>

(* The awaited coroutine returns, or raises an Exception: the task's last  *)
(* step has begun and nothing can be thrown into it any more.              *)
Land(j) ==
    /\ Quiet /\ task[j] = "awaiting" /\ ~cancelReq[j]
    /\ task' = [task EXCEPT ![j] = "landing"]
    /\ UNCHANGED <<open, state, outcome, finished, cancelReq, waiter, hand, granted>>

(* The outcome is written, without a look at the state the job has by now. *)
Finish(j) ==
    /\ task[j] = "landing"
    /\ \E end \in {[state |-> "done", outcome |-> "value"],
                   [state |-> "error", outcome |-> "failure"]} :
          /\ state' = [state EXCEPT ![j] = end.state]
          /\ outcome' = [outcome EXCEPT ![j] = end.outcome]
    /\ finished' = [finished EXCEPT ![j] = @ + 1]
    /\ task' = [task EXCEPT ![j] = "landed"]
    /\ UNCHANGED <<open, cancelReq, waiter, hand, granted>>

(* The step is over.  A cancellation that came during it makes asyncio end *)
(* the task as cancelled, although its body has returned.                  *)
End(j) ==
    /\ task[j] = "landed"
    /\ task' = [task EXCEPT ![j] = IF cancelReq[j] THEN "cancelled" ELSE "returned"]
    /\ cancelReq' = [cancelReq EXCEPT ![j] = FALSE]
    /\ UNCHANGED <<open, state, outcome, finished, waiter, hand, granted>>

(* The CancelledError leaves the coroutine: except CancelledError.         *)
Unwind(j) ==
    /\ Quiet /\ task[j] = "awaiting" /\ cancelReq[j]
    /\ state' = [state EXCEPT ![j] = "canceled"]
    /\ finished' = [finished EXCEPT ![j] = IF @ = 0 THEN 1 ELSE @]
    /\ task' = [task EXCEPT ![j] = "cancelled"]
    /\ cancelReq' = [cancelReq EXCEPT ![j] = FALSE]
    /\ UNCHANGED <<open, outcome, waiter, hand, granted>>

(* The coroutine catches the CancelledError and keeps going.               *)
Swallow(j) ==
    /\ Quiet /\ j \in Stubborn
    /\ task[j] = "awaiting" /\ cancelReq[j]
    /\ cancelReq' = [cancelReq EXCEPT ![j] = FALSE]
    /\ UNCHANGED <<open, state, outcome, finished, task, waiter, hand, granted>>

-----------------------------------------------------------------------------
(* JobRegistry.cancel on the executor thread of a cancel_job call: the     *)
(* test of the state, task.cancel() and the marking are three steps.  The  *)
(* thread is not stopped when the run ends.                                *)

ThreadCheck(j) ==
    /\ j \in Threaded
    /\ open
    /\ hand[j] = "away"
    /\ state[j] = "running"
    /\ hand' = [hand EXCEPT ![j] = "checked"]
    /\ UNCHANGED <<open, jobVars, waiter, granted>>

ThreadDeliver(j) ==
    /\ hand[j] = "checked"
    /\ IF task[j] \in LiveTask
       THEN /\ cancelReq' = [cancelReq EXCEPT ![j] = TRUE]
            /\ hand' = [hand EXCEPT ![j] = "delivered"]
            /\ granted' = granted \cup {j}
       ELSE /\ hand' = [hand EXCEPT ![j] = "away"]
            /\ UNCHANGED <<cancelReq, granted>>
    /\ UNCHANGED <<open, state, outcome, finished, task, waiter>>

ThreadMark(j) ==
    /\ hand[j] = "delivered"
    /\ state' = [state EXCEPT ![j] = "canceled"]
    /\ finished' = [finished EXCEPT ![j] = IF @ = 0 THEN 1 ELSE @]
    /\ hand' = [hand EXCEPT ![j] = "away"]
    /\ UNCHANGED <<open, outcome, task, cancelReq, waiter, granted>>

-----------------------------------------------------------------------------
(* wait(job_id, timeout_s).  An unknown id raises KeyError: no step.       *)

Wait(w, j) ==
    /\ Quiet /\ open
    /\ waiter[w] = Idle
    /\ state[j] # "absent"
    /\ waiter' = [waiter EXCEPT ![w] = IF state[j] \in Terminal
                                       THEN Snapshot(j) ELSE Blocked(j)]
    /\ UNCHANGED <<open, jobVars, hand, granted>>

(* shield(task) follows the task: a cancelled or failed task raises out of *)
(* wait(), and only a task that returned leads to the final snapshot.      *)
Wake(w) ==
    /\ Quiet /\ waiter[w].at = "blocked"
    /\ LET j == waiter[w].job
       IN  /\ task[j] \in EndedTask
           /\ waiter' = [waiter EXCEPT ![w] = IF task[j] = "returned"
                                              THEN Snapshot(j) ELSE Escaped(j)]
    /\ UNCHANGED <<open, jobVars, hand, granted>>

(* The timeout may fire before the task ends, or in the same turn of the   *)
(* event loop in which it has just ended.                                  *)
TimeOut(w) ==
    /\ Quiet /\ waiter[w].at = "blocked"
    /\ waiter' = [waiter EXCEPT ![w] = TimedOut(waiter[w].job)]
    /\ UNCHANGED <<open, jobVars, hand, granted>>

-----------------------------------------------------------------------------
TaskStep(j) == \/ Start(j) \/ FactoryRaises(j) \/ DropUnstarted(j)
               \/ Land(j) \/ Finish(j) \/ End(j)
               \/ Unwind(j) \/ Swallow(j)

ThreadStep(j) == ThreadCheck(j) \/ ThreadDeliver(j) \/ ThreadMark(j)

Next ==
    \/ \E j \in Job : Submit(j) \/ Cancel(j) \/ TaskStep(j) \/ ThreadStep(j)
    \/ \E w \in Waiter : Wake(w) \/ TimeOut(w) \/ \E j \in Job : Wait(w, j)
    \/ Close

Spec == Init /\ [][Next]_vars

(* The event loop runs every ready task and every due timer and completes  *)
(* the steps it began, and so does the executor thread; nothing makes the  *)
(* coroutine behind a job return, so Land is not fair.                     *)
Fairness ==
    /\ \A j \in Job :
          /\ WF_vars(Start(j) \/ FactoryRaises(j) \/ DropUnstarted(j)
                     \/ Finish(j) \/ End(j) \/ Unwind(j) \/ Swallow(j))
          /\ WF_vars(ThreadDeliver(j) \/ ThreadMark(j))
    /\ \A w \in Waiter : WF_vars(Wake(w) \/ TimeOut(w))

FairSpec == Spec /\ Fairness

-----------------------------------------------------------------------------
(* The jobs whose coroutine lets a cancellation through, and of those the  *)
(* ones that are only ever cancelled on the event loop; the plain ones     *)
(* have a factory that does not raise either.                              *)
Obedient == Job \ Stubborn
Settling == Obedient \ Threaded
Plain    == Settling \ Faulty

(* The state of a job that no cancel_job call touches agrees with its task:*)
(* it is RUNNING only while the task lives and nobody cancelled it, or for *)
(* ever after the factory raised; it has a finished_at exactly when it is  *)
(* final, and a result exactly when it is DONE; and it is final before the *)
(* last step only by a cancellation, and then it is CANCELED, on its way   *)
(* out unless the coroutine is one that ignores it.                        *)
StateTracksTask ==
    \A j \in Job \ Threaded :
        /\ state[j] = "running" => \/ task[j] \in LiveTask /\ ~cancelReq[j]
                                   \/ task[j] = "raised" /\ j \in Faulty
        /\ state[j] \in Terminal <=> finished[j] > 0
        /\ state[j] = "done" <=> outcome[j] = "value"
        /\ state[j] \in Terminal /\ task[j] \in LiveTask \ {"landed"}
              => state[j] = "canceled" /\ (cancelReq[j] \/ j \in Stubborn)

(* cancel() that answered True is final: whatever the coroutine was about  *)
(* to return is dropped, the job ends CANCELED and never DONE or ERROR.    *)
CancelSticks ==
    \A j \in granted \cap Settling : state[j] = "canceled" /\ outcome[j] = "none"

(* After bind() has exited no background task runs on unnoticed: each one  *)
(* left has a CancelledError on its way, unless its coroutine ignores it.  *)
ClosedRunReaps ==
    ~open => \A j \in Obedient : task[j] \in LiveTask => cancelReq[j]

(* What wait() reported as final stays what the registry reports: no later *)
(* step of the task overwrites a state an agent has been shown.            *)
WaitIsFinal ==
    \A w \in Waiter :
        (waiter[w].at = "returned" /\ waiter[w].state # "TIMEOUT")
            => LET j == waiter[w].job
               IN  j \in Settling =>
                      /\ state[j] \in Terminal
                      /\ waiter[w].state = state[j]
                      /\ waiter[w].result <=> state[j] = "done"

(* An exception leaves wait() only when the job was cancelled under the    *)
(* waiter or its factory raised; a job's own exception never does, not     *)
(* even when it races a cancel_job call.                                   *)
EscapeHasCause ==
    \A w \in Waiter :
        waiter[w].at = "escaped" =>
            LET j == waiter[w].job
            IN  task[j] = "cancelled" \/ (task[j] = "raised" /\ j \in Faulty)

(* A settled job never changes again: neither its state, nor its result,   *)
(* nor its finished_at.                                                    *)
SettledStaysSettled ==
    [][\A j \in Settling : state[j] \in Terminal =>
            /\ state'[j] = state[j]
            /\ outcome'[j] = outcome[j]
            /\ finished'[j] = finished[j]]_vars

(* Every job is gone some time after its run has ended, without waiting    *)
(* for the coroutine's own work to finish.                                 *)
RunEndReapsAll ==
    \A j \in Obedient : ~open ~> task[j] \notin LiveTask

(* wait_for_job never hangs: the tool always passes a timeout.             *)
WaitReturns == \A w \in Waiter : waiter[w].at = "blocked" ~> waiter[w].at # "blocked"

(* The registry implements the abstract lifecycle for its plain jobs.      *)
Lifecycle == INSTANCE JobLifecycle WITH
                Job    <- Plain,
                status <- [j \in Plain |-> state[j]],
                closed <- ~open

ImplementsLifecycle == Lifecycle!Spec

-----------------------------------------------------------------------------
(* Claims of the documentation that the code does not keep.                *)

(* cancel(): "On success the job's state is set to CANCELED", which is one *)
(* of the final states; CANCELED: "The job was cancelled before            *)
(* completing."                                                            *)
GrantedIsCanceled ==
    \A j \in granted : hand[j] = "away" => state[j] = "canceled"
=============================================================================
