----------------------------- MODULE Checkpoints -----------------------------
(***************************************************************************)
(* persistence/prune.py, run_prune: the checkpoints that agents save while *)
(* they run, and the sweep that drops old ones.  A thread of checkpoints   *)
(* belongs to one trace, whose id its own id ends in; what is old is told  *)
(* by the rows of traces, in another database, which the same sweep has    *)
(* just deleted from.                                                      *)
(***************************************************************************)
EXTENDS Naturals, FiniteSets

CONSTANTS
    Trace,
    None,
    KeepLast,        \* checkpoint_keep_last
    HistoryDays,     \* history_retention_days
    CheckpointDays,  \* checkpoint_retention_days
    MaxClock,        \* bound: days
    MaxSteps         \* bound: checkpoints of a thread

CheckpointsAssumption ==
    /\ KeepLast \in Nat /\ MaxClock \in Nat /\ MaxSteps \in Nat
    /\ HistoryDays \in Nat /\ CheckpointDays \in Nat
    /\ None \notin Nat

Time == 0..MaxClock
Step == 1..MaxSteps
Sweep == [pc : {"idle", "swept", "asked", "listed"},
          now : Time,
          recent : SUBSET Trace,   \* the traces inside the window
          stale : SUBSET Trace,    \* the threads to drop
          late : SUBSET Trace]     \* history: those that began since it asked

VARIABLES
    clock,
    started,   \* started_at of the rows of traces
    began,     \* history: when its row was inserted, there or not
    removed,   \* history: the traces that went with their users
    running,   \* the exchanges whose agents are at work
    thread,    \* the checkpoints of each thread
    last,      \* the newest checkpoint an agent has saved
    writes,    \* the rows of writes: what was done after a checkpoint
    wrote,     \* history: the writes after the newest one
    sweep,
    dropped    \* history: the threads that were dropped as a whole

vars == <<clock, started, began, removed, running, thread, last, writes, wrote, sweep, dropped>>

Idle == [pc |-> "idle", now |-> 0, recent |-> {}, stale |-> {}, late |-> {}]

(* The type of every variable; no thread has a checkpoint nobody saved.    *)
TypeOK ==
    /\ clock \in Time
    /\ started \in [Trace -> Time \cup {None}] /\ began \in [Trace -> Time \cup {None}]
    /\ running \in SUBSET Trace /\ removed \in SUBSET Trace
    /\ thread \in [Trace -> SUBSET Step] /\ last \in [Trace -> 0..MaxSteps]
    /\ writes \in SUBSET (Trace \X Step) /\ wrote \in SUBSET Trace
    /\ sweep \in Sweep
    /\ dropped \in SUBSET Trace
    /\ \A t \in Trace : thread[t] \subseteq 1..last[t]

Init ==
    /\ clock = 0
    /\ started = [t \in Trace |-> None] /\ began = [t \in Trace |-> None]
    /\ running = {} /\ removed = {}
    /\ thread = [t \in Trace |-> {}] /\ last = [t \in Trace |-> 0]
    /\ writes = {} /\ wrote = {}
    /\ sweep = Idle
    /\ dropped = {}

-----------------------------------------------------------------------------
agent == <<thread, last, writes, wrote>>

(* Mutant: a row that is still there is begun anew.                        *)
Began_Anew(t) == [started EXCEPT ![t] = clock]

(* The rows after begin_trace: one that is there is reopened and keeps the *)
(* day on which it was inserted.  run_agent and run_turn have a new id for *)
(* every exchange, the store takes any.                                    *)
Began(t) == [started EXCEPT ![t] = IF @ = None THEN clock ELSE @]

Begin(t) ==
    /\ t \notin running
    /\ started' = Began(t)
    /\ running' = running \cup {t}
    /\ IF started[t] = None
       THEN /\ began' = [began EXCEPT ![t] = clock]
            /\ removed' = removed \ {t}
            /\ sweep' = [sweep EXCEPT !.late = IF sweep.pc \in {"asked", "listed"}
                                               THEN @ \cup {t} ELSE @]
       ELSE UNCHANGED <<began, removed, sweep>>
    /\ UNCHANGED <<clock, agent, dropped>>

(* delete_user takes the row of the trace, and no checkpoint.              *)
DeleteUser(t) ==
    /\ started[t] # None
    /\ started' = [started EXCEPT ![t] = None]
    /\ removed' = removed \cup {t}
    /\ UNCHANGED <<clock, began, running, agent, sweep, dropped>>

(* The saver of LangGraph: a checkpoint after every step of the agent ...  *)
Save(t) ==
    /\ t \in running /\ last[t] < MaxSteps
    /\ last' = [last EXCEPT ![t] = @ + 1]
    /\ thread' = [thread EXCEPT ![t] = @ \cup {last[t] + 1}]
    /\ wrote' = wrote \ {t}
    /\ dropped' = dropped \ {t}
    /\ UNCHANGED <<clock, started, began, removed, running, writes, sweep>>

(* ... and the results of single tasks between two of them.                *)
WriteAfter(t) ==
    /\ t \in running /\ last[t] > 0
    /\ writes' = writes \cup {<<t, last[t]>>}
    /\ wrote' = wrote \cup {t}
    /\ UNCHANGED <<clock, started, began, removed, running, thread, last, sweep, dropped>>

(* The exchange ends, or the process does.                                 *)
End(t) ==
    /\ t \in running
    /\ running' = running \ {t}
    /\ UNCHANGED <<clock, started, began, removed, agent, sweep, dropped>>

Tick ==
    /\ clock < MaxClock
    /\ clock' = clock + 1
    /\ UNCHANGED <<started, began, removed, running, agent, sweep, dropped>>

-----------------------------------------------------------------------------
(* run_prune: history goes first, by started_at, running or not.           *)
SweepHistory ==
    /\ sweep.pc = "idle"
    /\ started' = [t \in Trace |->
          IF started[t] # None /\ started[t] + HistoryDays < clock THEN None ELSE started[t]]
    /\ sweep' = [Idle EXCEPT !.pc = "swept", !.now = clock]
    /\ UNCHANGED <<clock, began, removed, running, agent, dropped>>

(* Mutant: strictly inside the window.                                     *)
Recent_Strict == {t \in Trace : started[t] # None /\ started[t] + CheckpointDays > sweep.now}

Recent == {t \in Trace : started[t] # None /\ started[t] + CheckpointDays >= sweep.now}

(* recent_trace_ids of what is left.                                       *)
AskRecent ==
    /\ sweep.pc = "swept"
    /\ sweep' = [sweep EXCEPT !.pc = "asked", !.recent = Recent]
    /\ UNCHANGED <<clock, started, began, removed, running, agent, dropped>>

(* prune_checkpoints: the threads are read outside of the transaction (all *)
(* that run_agent makes have the colon without which one is left alone) ...*)
ListThreads ==
    /\ sweep.pc = "asked"
    /\ sweep' = [sweep EXCEPT !.pc = "listed",
                    !.stale = {t \in Trace : thread[t] # {}} \ sweep.recent]
    /\ UNCHANGED <<clock, started, began, removed, running, agent, dropped>>

(* Mutant: the oldest are the ones to keep.                                *)
Newest_Oldest(S) ==
    {n \in S : Cardinality({m \in S : m < n}) < (IF KeepLast = 0 THEN 1 ELSE KeepLast)}

Newest(S) ==
    {n \in S : Cardinality({m \in S : m > n}) < (IF KeepLast = 0 THEN 1 ELSE KeepLast)}

(* ... which drops the stale ones, keeps the newest checkpoints of the     *)
(* others and then the writes whose checkpoint is there.                   *)
Drop ==
    /\ sweep.pc = "listed"
    /\ thread' = [t \in Trace |-> IF t \in sweep.stale THEN {} ELSE Newest(thread[t])]
    /\ writes' = {w \in writes : w[2] \in thread'[w[1]]}
    /\ dropped' = dropped \cup sweep.stale
    /\ sweep' = Idle
    /\ UNCHANGED <<clock, started, began, removed, running, last, wrote>>

(* A step raises: the sweep waits for its next interval.                   *)
SweepFails ==
    /\ sweep.pc # "idle"
    /\ sweep' = Idle
    /\ UNCHANGED <<clock, started, began, removed, running, agent, dropped>>

Next ==
    \/ \E t \in Trace : Begin(t) \/ DeleteUser(t) \/ Save(t) \/ WriteAfter(t) \/ End(t)
    \/ Tick
    \/ SweepHistory \/ AskRecent \/ ListThreads \/ Drop \/ SweepFails

Spec == Init /\ [][Next]_vars

-----------------------------------------------------------------------------
(* Whatever a sweep takes of a thread it does not drop, the point to go on *)
(* from stays: the newest checkpoint and what was done after it.           *)
ResumePointKept ==
    \A t \in Trace \ dropped :
        /\ last[t] > 0 => last[t] \in thread[t]
        /\ t \in wrote => <<t, last[t]>> \in writes

(* A thread is only dropped when the row of its exchange was inserted      *)
(* before the window of the checkpoints or of the history, whatever has    *)
(* been done since (the run may still be at work, or its trace have been   *)
(* reopened), or while the sweep was under way and had already asked for   *)
(* the traces to keep, or when the row went with its user.                 *)
DropsOnlyOld ==
    \A t \in dropped' \ dropped :
        \/ began[t] + CheckpointDays < sweep.now
        \/ began[t] + HistoryDays < sweep.now
        \/ t \in sweep.late
        \/ t \in removed
=============================================================================
