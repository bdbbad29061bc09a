------------------------------ MODULE ToolLoop ------------------------------
(***************************************************************************)
(* The loop of one agent run as the middleware of runtime/builder.py sees  *)
(* it: model calls with the usage recorder behind them, and the tool calls *)
(* of one answer, which run side by side, each through the announcer, the  *)
(* ledger and the loop guard.  The guard is one object for all of them.    *)
(***************************************************************************)
EXTENDS Naturals, Sequences, FiniteSets

CONSTANTS
    Key,          \* a tool with its arguments
    None,
    MaxRepeats,   \* max_repeats of the loop guard
    ModelLimit,   \* model_run_limit
    ToolLimit,    \* tool_run_limit
    MaxCalls      \* bound: tool calls of one answer

ASSUME ToolLoopAssumption ==
    /\ MaxRepeats \in Nat /\ ModelLimit \in Nat /\ ToolLimit \in Nat /\ MaxCalls \in Nat
    /\ None \notin Key

VARIABLES
    pc,       \* "model", "usage", "tools", "done", "failed"
    models,   \* model calls so far
    usage,    \* rows of usage
    calls,    \* the calls of the last answer: key and state
    guard,    \* _last_key, _repeat_count, _tripped
    ledger,   \* rows of tool_calls: key and state
    steps,    \* what was emitted: calls announced, calls reported as errors, warnings
    started,  \* history: the keys, in the order their calls reached the guard
    ran       \* history: which of them it let run

vars == <<pc, models, usage, calls, guard, ledger, steps, started, ran>>

State == {"new", "running", "answered", "raised", "complete", "error", "unrecorded", "bubbled"}
Ended == {"complete", "error", "unrecorded", "bubbled"}

Init ==
    /\ pc = "model" /\ models = 0 /\ usage = 0 /\ calls = <<>>
    /\ guard = [last |-> None, count |-> 0, tripped |-> FALSE]
    /\ ledger = <<>> /\ steps = [announced |-> 0, errors |-> 0, warnings |-> 0]
    /\ started = <<>> /\ ran = <<>>

-----------------------------------------------------------------------------
(* The call limits look before the model does: model calls and, with       *)
(* ToolLimit, the calls that were made.                                    *)
LimitReached ==
    /\ pc = "model"
    /\ models >= ModelLimit \/ Len(started) >= ToolLimit
    /\ pc' = "done"
    /\ UNCHANGED <<models, usage, calls, guard, ledger, steps, started, ran>>

(* The model answers.  Equal calls of one answer are merged when the       *)
(* normaliser is in the stack and finds them, so they may or may not be.   *)
ModelAnswers(keys) ==
    /\ pc = "model"
    /\ models < ModelLimit /\ Len(started) < ToolLimit
    /\ models' = models + 1
    /\ calls' = [i \in DOMAIN keys |-> [key |-> keys[i], state |-> "new"]]
    /\ pc' = "usage"
    /\ UNCHANGED <<usage, guard, ledger, steps, started, ran>>

ModelFails ==
    /\ pc = "model"
    /\ models < ModelLimit /\ Len(started) < ToolLimit
    /\ pc' = "failed"
    /\ UNCHANGED <<models, usage, calls, guard, ledger, steps, started, ran>>

(* usage_recorder, aafter_model: an answer without usage leaves no row, an *)
(* answer without calls is the last.                                       *)
RecordUsage ==
    /\ pc = "usage"
    /\ usage' \in {usage, usage + 1}
    /\ pc' = IF calls = <<>> THEN "done" ELSE "tools"
    /\ UNCHANGED <<models, calls, guard, ledger, steps, started, ran>>

UsageFails ==
    /\ pc = "usage"
    /\ pc' = "failed"
    /\ UNCHANGED <<models, usage, calls, guard, ledger, steps, started, ran>>

-----------------------------------------------------------------------------
(* Mutant: a new streak keeps the old count.                               *)
Counted_Carries(key) ==
    [guard EXCEPT !.last = key, !.count = @ + 1,
                  !.tripped = IF key = guard.last THEN @ ELSE FALSE]

Counted(key) ==
    IF key = guard.last THEN [guard EXCEPT !.count = @ + 1]
    ELSE [last |-> key, count |-> 1, tripped |-> FALSE]

(* A call comes in, up to where it waits for its tool: announced, counted, *)
(* and either let through or answered by the guard in place of the tool.   *)
(* The calls of an answer start in its order.                              *)
Start(i) ==
    LET key == calls[i].key
        now == Counted(key)
        free == now.count <= MaxRepeats
    IN  /\ pc = "tools" /\ calls[i].state = "new"
        /\ \A j \in 1..(i - 1) : calls[j].state # "new"
        /\ calls' = [calls EXCEPT ![i].state = IF free THEN "running" ELSE "answered"]
        /\ guard' = [now EXCEPT !.tripped = @ \/ ~free]
        /\ steps' = [steps EXCEPT !.announced = @ + 1,
                         !.warnings = IF free \/ now.tripped THEN @ ELSE @ + 1]
        /\ started' = Append(started, key) /\ ran' = Append(ran, free)
        /\ UNCHANGED <<pc, models, usage, ledger>>

(* The tool comes back: with a result, an exception, or an interrupt of    *)
(* the graph, which no middleware takes for an error.                      *)
ToolEnds(i, state) ==
    /\ pc = "tools" /\ calls[i].state = "running"
    /\ state \in {"answered", "raised", "bubbled"}
    /\ calls' = [calls EXCEPT ![i].state = state]
    /\ UNCHANGED <<pc, models, usage, guard, ledger, steps, started, ran>>

Outcome == [answered |-> "complete", raised |-> "error"]

(* The ledger writes its row, and the announcer, outside of it, reports    *)
(* the exception that it raises again.                                     *)
Record(i) ==
    /\ pc = "tools" /\ calls[i].state \in DOMAIN Outcome
    /\ calls' = [calls EXCEPT ![i].state = Outcome[@]]
    /\ ledger' = Append(ledger, [key |-> calls[i].key, state |-> Outcome[calls[i].state]])
    /\ steps' = [steps EXCEPT !.errors = IF calls[i].state = "raised" THEN @ + 1 ELSE @]
    /\ UNCHANGED <<pc, models, usage, guard, started, ran>>

(* The store fails: its exception takes the place of the tool's result, or *)
(* of the tool's own exception.                                            *)
RecordFails(i) ==
    /\ pc = "tools" /\ calls[i].state \in DOMAIN Outcome
    /\ calls' = [calls EXCEPT ![i].state = "unrecorded"]
    /\ steps' = [steps EXCEPT !.errors = @ + 1]
    /\ UNCHANGED <<pc, models, usage, guard, ledger, started, ran>>

(* All have come back and the model is asked again ...                     *)
Continue ==
    /\ pc = "tools" /\ \A i \in DOMAIN calls : calls[i].state = "complete"
    /\ pc' = "model"
    /\ UNCHANGED <<models, usage, calls, guard, ledger, steps, started, ran>>

(* ... or one left with an exception: the run ends, the others with it.    *)
Break ==
    /\ pc = "tools" /\ \E i \in DOMAIN calls : calls[i].state \in Ended \ {"complete"}
    /\ pc' = "failed"
    /\ UNCHANGED <<models, usage, calls, guard, ledger, steps, started, ran>>

Keys == UNION {[1..n -> Key] : n \in 0..MaxCalls}

Next ==
    \/ LimitReached \/ ModelFails \/ RecordUsage \/ UsageFails \/ Continue \/ Break
    \/ \E keys \in Keys : ModelAnswers(keys)
    \/ \E i \in DOMAIN calls :
          \/ Start(i) \/ Record(i) \/ RecordFails(i)
          \/ \E state \in {"answered", "raised", "bubbled"} : ToolEnds(i, state)

Spec == Init /\ [][Next]_vars

-----------------------------------------------------------------------------
(* The type of every variable.                                             *)
TypeOK ==
    /\ pc \in {"model", "usage", "tools", "done", "failed"}
    /\ models \in 0..ModelLimit /\ usage \in 0..models
    /\ calls \in Seq([key : Key, state : State])
    /\ guard \in [last : Key \cup {None}, count : Nat, tripped : BOOLEAN]
    /\ ledger \in Seq([key : Key, state : {"complete", "error"}])
    /\ steps \in [announced : Nat, errors : Nat, warnings : Nat]
    /\ started \in Seq(Key) /\ ran \in Seq(BOOLEAN) /\ Len(ran) = Len(started)

(* The last n calls that reached the guard were one and the same.          *)
Streak(n, at) ==
    n <= at /\ \A k \in (at - n + 1)..at : started[k] = started[at]

(* The guard answers for a tool exactly when the MaxRepeats calls before   *)
(* it, of this answer or of earlier ones, were the same call, whether they *)
(* ran, failed or are still running.                                       *)
BlockedIffRepeated ==
    \A n \in DOMAIN started : ran[n] = ~Streak(MaxRepeats + 1, n)

(* The user is warned once for each streak that got too long.              *)
WarnedOncePerStreak ==
    steps.warnings =
        Cardinality({n \in DOMAIN started : ~ran[n] /\ (n = 1 \/ ran[n - 1] \/ started[n] # started[n - 1])})

(* The ledger has a row for every call that has ended, with what became of *)
(* it, those the guard answered for among them; only an interrupt and a    *)
(* store that fails leave none.                                            *)
LedgerIsWhole ==
    LET In(S) == {i \in DOMAIN calls : calls[i].state \in S}
    IN  /\ Len(ledger) + Cardinality(In({"running", "answered", "raised", "unrecorded", "bubbled"}))
               = Len(started)
        /\ Cardinality({n \in DOMAIN ledger : ledger[n].state = "error"}) = Cardinality(In({"error"}))

(* The user is shown an error for every call that failed, and for one      *)
(* whose result the ledger could not write: its exception is all the       *)
(* announcer sees.                                                         *)
ErrorsAreShown ==
    steps.errors = Cardinality({i \in DOMAIN calls : calls[i].state \in {"error", "unrecorded"}})

(* The guard answers for a tool exactly after MaxRepeats equal calls; and  *)
(* warnings, ledger rows and error steps are as many as the calls they are *)
(* about, whatever the order in which the calls come back.                 *)
CallsAreCounted ==
    /\ TypeOK /\ BlockedIffRepeated
    /\ WarnedOncePerStreak /\ LedgerIsWhole /\ ErrorsAreShown
=============================================================================
