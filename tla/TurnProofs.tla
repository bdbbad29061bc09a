--------------------------- MODULE TurnProofs ---------------------------
(***************************************************************************)
(* What Turn.tla says of the parts of an answer, for any values of the     *)
(* constants.  The tool loop: whom the loop guard answers, how often it    *)
(* warns, and what the ledger and the announcer have of the calls that     *)
(* ended.  The extras: which artifacts and citations are shown, and in     *)
(* which order.  Each is proved of the part by itself, and at the end of   *)
(* the turn; what goes into the turn is left to InputProofs.               *)
(***************************************************************************)
EXTENDS Turn, FiniteSetTheorems, SequenceTheorems, TLAPS

ToolCall == [key : Key, state : State]

(* Those of the calls of one answer that are in one of some states.        *)
In(some, S) == {i \in DOMAIN some : some[i].state \in S}

Between == {"running", "answered", "raised", "unrecorded", "bubbled"}

Warned == {n \in DOMAIN started : ~ran[n] /\ (n = 1 \/ ran[n - 1] \/ started[n] # started[n - 1])}

Failed == {n \in DOMAIN ledger : ledger[n].state = "error"}

(* The last n of the called up to one place are the same.                    *)
Same(called, n, at) == n <= at /\ \A k \in (at - n + 1)..at : called[k] = called[at]

(* No call of an answer is started before its usage was looked at, and     *)
(* none is left when the model is asked again.                             *)
Paced ==
    /\ pc = "usage" => usage < models /\ \A i \in DOMAIN calls : calls[i].state = "new"
    /\ pc = "model" => \A i \in DOMAIN calls : calls[i].state = "complete"

(* The guard counts the streak that the last call ended, and has tripped   *)
(* when that call was not let through.                                     *)
Guarded ==
    LET last == Len(started)
    IN  /\ guard.last = IF last = 0 THEN None ELSE started[last]
        /\ guard.count \in 0..last
        /\ \A m \in Nat : Same(started, m, last) <=> m <= guard.count
        /\ guard.tripped <=> last # 0 /\ ~ran[last]

(* The inductive invariant.                                                *)
IInv ==
    /\ TypeOK /\ Paced /\ Guarded /\ BlockedIffRepeated
    /\ steps.warnings = Cardinality(Warned)
    /\ Len(ledger) + Cardinality(In(calls, Between)) = Len(started)
    /\ Cardinality(Failed) = Cardinality(In(calls, {"error"}))
    /\ steps.errors = Cardinality(In(calls, {"error", "unrecorded"}))

-----------------------------------------------------------------------------
(* The calls of one answer, which are finitely many.                       *)
LEMMA CallsTyped ==
    ASSUME TypeOK
    PROVE  /\ calls \in Seq(ToolCall) /\ Len(calls) \in Nat /\ DOMAIN calls = 1..Len(calls)
           /\ \A i \in DOMAIN calls :
                 calls[i] \in ToolCall /\ calls[i].key \in Key /\ calls[i].state \in State
<1>1. calls \in Seq(ToolCall)  BY DEF TypeOK, ToolCall
<1>2. Len(calls) \in Nat /\ DOMAIN calls = 1..Len(calls)
         /\ \A i \in DOMAIN calls : calls[i] \in ToolCall
      BY <1>1
<1>3. \A c \in ToolCall : c.key \in Key /\ c.state \in State  BY DEF ToolCall
<1> QED  BY <1>1, <1>2, <1>3

(* How many of them are in a state is a number.                            *)
LEMMA InIsFinite ==
    ASSUME TypeOK, NEW S
    PROVE  IsFiniteSet(In(calls, S)) /\ Cardinality(In(calls, S)) \in Nat
<1>1. Len(calls) \in Nat /\ In(calls, S) \subseteq 1..Len(calls)  BY CallsTyped DEF In
<1>2. IsFiniteSet(1..Len(calls))  BY <1>1, FS_Interval
<1>3. IsFiniteSet(In(calls, S))  BY <1>1, <1>2, FS_Subset
<1> QED  BY <1>3, FS_CardinalityType

(* The call i comes into the state s.                                      *)
Moves(i, s) == calls' = [calls EXCEPT ![i].state = s]

(* A call that goes from one state to another leaves some sets and enters  *)
(* some; every other call stays where it is.                               *)
LEMMA OneMoves ==
    ASSUME TypeOK, NEW i \in DOMAIN calls, NEW s, NEW S, Moves(i, s)
    PROVE  /\ (s \in S <=> calls[i].state \in S) =>
                 Cardinality(In(calls', S)) = Cardinality(In(calls, S))
           /\ s \in S /\ calls[i].state \notin S =>
                 Cardinality(In(calls', S)) = Cardinality(In(calls, S)) + 1
           /\ s \notin S /\ calls[i].state \in S =>
                 Cardinality(In(calls', S)) = Cardinality(In(calls, S)) - 1
<1>1. \A j \in DOMAIN calls : calls[j] \in ToolCall  BY CallsTyped
<1>2. /\ DOMAIN calls' = DOMAIN calls
      /\ \A j \in DOMAIN calls : calls'[j].state = IF j = i THEN s ELSE calls[j].state
      BY <1>1 DEF ToolCall, Moves
<1>3. IsFiniteSet(In(calls, S)) /\ Cardinality(In(calls, S)) \in Nat  BY InIsFinite
<1>4. CASE s \in S <=> calls[i].state \in S
  <2>1. In(calls', S) = In(calls, S)  BY <1>2, <1>4 DEF In
  <2> QED  BY <2>1, <1>4
<1>5. CASE s \in S /\ calls[i].state \notin S
  <2>1. In(calls', S) = In(calls, S) \cup {i} /\ i \notin In(calls, S)  BY <1>2, <1>5 DEF In
  <2> QED  BY <2>1, <1>3, <1>5, FS_AddElement
<1>6. CASE s \notin S /\ calls[i].state \in S
  <2>1. In(calls', S) = In(calls, S) \ {i} /\ i \in In(calls, S)  BY <1>2, <1>6 DEF In
  <2> QED  BY <2>1, <1>3, <1>6, FS_RemoveElement
<1> QED  BY <1>4, <1>5, <1>6

(* A call stays a call.                                                    *)
LEMMA StillCalls ==
    ASSUME TypeOK, NEW i \in DOMAIN calls, NEW s \in State, Moves(i, s)
    PROVE  calls' \in Seq(ToolCall)
<1>1. calls \in Seq(ToolCall) /\ calls[i] \in ToolCall  BY CallsTyped
<1>2. [calls[i] EXCEPT !.state = s] \in ToolCall  BY <1>1 DEF ToolCall
<1>3. calls' = [calls EXCEPT ![i] = [calls[i] EXCEPT !.state = s]]  BY DEF Moves
<1> QED  BY <1>1, <1>2, <1>3

(* What became of the tool is what the ledger writes.                      *)
LEMMA Outcomes ==
    /\ DOMAIN Outcome = {"answered", "raised"}
    /\ Outcome["answered"] = "complete" /\ Outcome["raised"] = "error"
  BY DEF Outcome

(* What is in the invariant about the guard reads nothing else.            *)
LEMMA GuardKeeps ==
    ASSUME IInv, UNCHANGED <<guard, started, ran>>, steps'.warnings = steps.warnings
    PROVE  Guarded' /\ BlockedIffRepeated' /\ steps'.warnings = Cardinality(Warned')
<1>1. BlockedIffRepeated'  BY DEF IInv, BlockedIffRepeated, Streak
<1>2. Warned' = Warned  BY DEF Warned
<1> QED  BY <1>1, <1>2 DEF IInv, Guarded

-----------------------------------------------------------------------------
(* At the start nothing is counted, called or written.                     *)
LEMMA InitHolds == Init => IInv
<1> SUFFICES ASSUME Init  PROVE IInv
    OBVIOUS
<1>1. TypeOK  BY ToolLoopAssumption DEF Init, TypeOK
<1>2. Len(started) = 0 /\ DOMAIN started = {} /\ DOMAIN ledger = {} /\ Len(ledger) = 0
         /\ DOMAIN calls = {}
      BY DEF Init
<1>3. \A m \in Nat : Same(started, m, 0) <=> m <= 0  BY DEF Same
<1>4. Guarded /\ BlockedIffRepeated /\ Paced
      BY <1>2, <1>3 DEF Guarded, BlockedIffRepeated, Paced, Init
<1>5. /\ Warned = {} /\ Failed = {}
      /\ In(calls, Between) = {} /\ In(calls, {"error"}) = {}
      /\ In(calls, {"error", "unrecorded"}) = {}
      BY <1>2 DEF Warned, Failed, In
<1>6. Cardinality({}) = 0  BY FS_EmptySet
<1>7. steps.warnings = 0 /\ steps.errors = 0  BY DEF Init
<1>8. /\ Cardinality(Warned) = 0 /\ Cardinality(Failed) = 0
      /\ Cardinality(In(calls, Between)) = 0 /\ Cardinality(In(calls, {"error"})) = 0
      /\ Cardinality(In(calls, {"error", "unrecorded"})) = 0
      BY <1>5, <1>6
<1> QED  BY <1>1, <1>2, <1>4, <1>7, <1>8 DEF IInv

-----------------------------------------------------------------------------
(* The call that reaches the guard: the streak it ends is one longer than  *)
(* the one before it, or begins with it.                                   *)
LEMMA StreakGrows ==
    ASSUME TypeOK, Guarded, NEW key \in Key, NEW last, last = Len(started),
           NEW m \in Nat
    PROVE  /\ Same(Append(started, key), m, last + 1) <=> m <= Counted(key).count
           /\ \A n \in 1..last : Same(Append(started, key), m, n) <=> Same(started, m, n)
<1> DEFINE called == Append(started, key)
<1>1. /\ last \in Nat /\ called[last + 1] = key
      /\ \A n \in 1..last : called[n] = started[n] /\ started[n] \in Key
      BY DEF TypeOK
<1> HIDE DEF called
<1>2. \A n \in 1..last : Same(called, m, n) <=> Same(started, m, n)
      BY <1>1 DEF Same
<1>3. guard.count \in 0..last /\ \A n \in Nat : Same(started, n, last) <=> n <= guard.count
      BY DEF Guarded
<1>4. Same(called, m, last + 1) <=> m <= Counted(key).count
  <2>1. CASE key = guard.last
    <3>1. last # 0 /\ started[last] = key
          BY <2>1, ToolLoopAssumption DEF Guarded
    <3>2. Counted(key).count = guard.count + 1
          BY <2>1 DEF Counted, TypeOK
    <3>3. CASE m = 0
      <4>1. Same(called, m, last + 1)  BY <3>3, <1>1 DEF Same
      <4> QED  BY <4>1, <3>3, <3>2, <1>3
    <3>4. CASE m # 0
      <4>1. Same(called, m, last + 1) <=> Same(started, m - 1, last)
        <5>1. last - (m - 1) + 1 = (last + 1) - m + 1  BY <1>1
        <5>2. ASSUME Same(called, m, last + 1)  PROVE Same(started, m - 1, last)
              BY <5>2, <3>1, <3>4, <1>1 DEF Same
        <5>3. ASSUME Same(started, m - 1, last)  PROVE Same(called, m, last + 1)
          <6> SUFFICES ASSUME NEW k \in ((last + 1) - m + 1)..(last + 1)
                       PROVE  called[k] = key
              BY <5>3, <3>4, <1>1 DEF Same
          <6>1. CASE k = last + 1  BY <6>1, <1>1
          <6>2. CASE k # last + 1
            <7>1. k \in (last - (m - 1) + 1)..last /\ k \in 1..last
                  BY <6>2, <5>3, <1>1 DEF Same
            <7> QED  BY <7>1, <5>3, <3>1, <1>1 DEF Same
          <6> QED  BY <6>1, <6>2
        <5> QED  BY <5>2, <5>3
      <4>2. m - 1 \in Nat  BY <3>4
      <4> QED  BY <4>1, <4>2, <3>2, <1>3
    <3> QED  BY <3>3, <3>4
  <2>2. CASE key # guard.last
    <3>1. Counted(key).count = 1  BY <2>2 DEF Counted
    <3>2. last = 0 \/ started[last] # key  BY <2>2 DEF Guarded
    <3>3. ASSUME Same(called, m, last + 1), ~(m <= 1)  PROVE FALSE
      <4>1. last \in ((last + 1) - m + 1)..(last + 1) /\ last # 0  BY <3>3, <1>1 DEF Same
      <4> QED  BY <4>1, <3>2, <3>3, <1>1 DEF Same
    <3>4. ASSUME m <= 1  PROVE Same(called, m, last + 1)
          BY <3>4, <1>1 DEF Same
    <3> QED  BY <3>1, <3>3, <3>4
  <2> QED  BY <2>1, <2>2
<1> QED  BY <1>2, <1>4 DEF called

(* A call reaches the guard, which lets it run or answers for it.          *)
LEMMA StartKeeps ==
    ASSUME IInv, NEW i \in DOMAIN calls, Start(i)
    PROVE  IInv'
<1> DEFINE key  == calls[i].key
           now  == Counted(key)
           free == now.count <= MaxRepeats
           last == Len(started)
<1>1. /\ pc = "tools" /\ calls[i].state = "new"
      /\ calls' = [calls EXCEPT ![i].state = IF free THEN "running" ELSE "answered"]
      /\ guard' = [now EXCEPT !.tripped = @ \/ ~free]
      /\ steps' = [steps EXCEPT !.announced = @ + 1,
                       !.warnings = IF free \/ now.tripped THEN @ ELSE @ + 1]
      /\ started' = Append(started, key) /\ ran' = Append(ran, free)
      /\ UNCHANGED <<pc, models, usage, ledger>>
      BY DEF Start
<1>f. free \in BOOLEAN /\ (free <=> now.count <= MaxRepeats)  OBVIOUS
<1> HIDE DEF free
<1>2. key \in Key  BY CallsTyped DEF IInv
<1>3. /\ last \in Nat /\ Len(started') = last + 1 /\ started'[last + 1] = key
      /\ started \in Seq(Key) /\ ran \in Seq(BOOLEAN) /\ Len(ran) = last
      /\ \A n \in 1..last : started'[n] = started[n] /\ ran'[n] = ran[n] /\ started[n] \in Key
      /\ (ran'[last + 1] <=> free) /\ Len(ran') = last + 1
      BY <1>1 DEF IInv, TypeOK
<1>4. /\ now \in [last : Key \cup {None}, count : Nat, tripped : BOOLEAN]
      /\ now.last = key /\ now.count \in 1..(last + 1)
      /\ now.tripped <=> key = guard.last /\ guard.tripped
  <2>1. /\ guard \in [last : Key \cup {None}, count : Nat, tripped : BOOLEAN]
        /\ guard.count \in 0..last
        BY DEF IInv, TypeOK, Guarded
  <2> QED  BY <2>1, <1>2, <1>3 DEF Counted
<1>t. TypeOK  BY DEF IInv
<1>5. /\ guard' \in [last : Key \cup {None}, count : Nat, tripped : BOOLEAN]
      /\ guard'.last = key /\ guard'.count = now.count
      /\ guard'.tripped <=> now.tripped \/ ~free
      BY <1>1, <1>4
<1>6. now.tripped <=> last # 0 /\ key = started[last] /\ ~ran[last]
      BY <1>2, <1>3, <1>4, ToolLoopAssumption DEF IInv, Guarded
<1>7. now.tripped => ~free
  <2> SUFFICES ASSUME now.tripped  PROVE ~free
      OBVIOUS
  <2>1. last \in 1..last /\ ~ran[last]  BY <1>6, <1>3
  <2>2. Same(started, MaxRepeats + 1, last)
        BY <2>1, <1>3 DEF IInv, BlockedIffRepeated, Streak, Same
  <2>3. MaxRepeats + 1 <= guard.count  BY <2>2, ToolLoopAssumption DEF IInv, Guarded
  <2>4. now.count = guard.count + 1 /\ guard.count \in Nat
        BY <1>4 DEF Counted, IInv, TypeOK
  <2> QED  BY <2>3, <2>4, <1>f, ToolLoopAssumption
<1>8. /\ \A m \in Nat : Same(started', m, last + 1) <=> m <= now.count
      /\ \A m \in Nat, n \in 1..last : Same(started', m, n) <=> Same(started, m, n)
      BY <1>1, <1>2, StreakGrows DEF IInv
<1> HIDE DEF now
<1>r. \A n \in 1..(last + 1) : ran'[n] \in BOOLEAN
  <2>1. ran' \in Seq(BOOLEAN)  BY <1>1, <1>3, <1>f
  <2> QED  BY <2>1, <1>3
<1>9. Guarded'
  <2>1. guard'.last = IF Len(started') = 0 THEN None ELSE started'[Len(started')]
        BY <1>3, <1>5
  <2>2. guard'.count \in 0..Len(started')  BY <1>3, <1>4, <1>5
  <2>3. \A m \in Nat : Same(started', m, Len(started')) <=> m <= guard'.count
        BY <1>3, <1>5, <1>8
  <2>4. guard'.tripped <=> Len(started') # 0 /\ ~ran'[Len(started')]
        BY <1>3, <1>5, <1>7
  <2> QED  BY <2>1, <2>2, <2>3, <2>4 DEF Guarded
<1>10. BlockedIffRepeated'
  <2> SUFFICES ASSUME NEW n \in 1..(last + 1)
               PROVE  ran'[n] = ~Same(started', MaxRepeats + 1, n)
      BY <1>3 DEF BlockedIffRepeated, Streak, Same
  <2>1. MaxRepeats + 1 \in Nat  BY ToolLoopAssumption
  <2>2. CASE n = last + 1
    <3>1. free <=> ~(MaxRepeats + 1 <= now.count)  BY <1>4, <1>f, ToolLoopAssumption
    <3>2. Same(started', MaxRepeats + 1, n) <=> MaxRepeats + 1 <= now.count  BY <2>1, <2>2, <1>8
    <3>3. (ran'[n] <=> free) /\ ran'[n] \in BOOLEAN  BY <2>2, <1>3, <1>r
    <3> QED  BY <3>1, <3>2, <3>3
  <2>3. CASE n # last + 1
    <3>1. n \in 1..last  BY <2>3, <1>3
    <3>2. ran[n] = ~Same(started, MaxRepeats + 1, n)
          BY <3>1, <1>3 DEF IInv, BlockedIffRepeated, Streak, Same
    <3>3. Same(started', MaxRepeats + 1, n) <=> Same(started, MaxRepeats + 1, n)
          BY <3>1, <2>1, <1>8
    <3>4. ran'[n] = ran[n]  BY <3>1, <1>3
    <3> QED  BY <3>2, <3>3, <3>4
  <2> QED  BY <2>2, <2>3
<1>11. /\ steps' \in [announced : Nat, errors : Nat, warnings : Nat]
       /\ steps'.errors = steps.errors
       /\ steps'.warnings = IF free \/ now.tripped THEN steps.warnings ELSE steps.warnings + 1
  <2>1. steps \in [announced : Nat, errors : Nat, warnings : Nat]  BY <1>t DEF TypeOK
  <2> DEFINE w == IF free \/ now.tripped THEN steps.warnings ELSE steps.warnings + 1
             said == [steps EXCEPT !.announced = @ + 1]
  <2>2. w \in Nat  BY <2>1
  <2>3. /\ said \in [announced : Nat, errors : Nat, warnings : Nat]
        /\ said.errors = steps.errors
        BY <2>1
  <2>4. steps' = [said EXCEPT !.warnings = w]  BY <1>1
  <2>5. w = IF free \/ now.tripped THEN steps.warnings ELSE steps.warnings + 1  OBVIOUS
  <2> HIDE DEF w, said
  <2>6. /\ steps' \in [announced : Nat, errors : Nat, warnings : Nat]
        /\ steps'.errors = steps.errors /\ steps'.warnings = w
        BY <2>2, <2>3, <2>4
  <2> QED  BY <2>5, <2>6
<1>12. steps'.warnings = Cardinality(Warned')
  <2>1. IsFiniteSet(Warned) /\ Cardinality(Warned) \in Nat /\ Warned \subseteq 1..last
    <3>1. Warned \subseteq 1..last  BY <1>3 DEF Warned
    <3>2. last \in Int  BY <1>3
    <3>4. IsFiniteSet(1..last)  BY <3>2, FS_Interval
    <3>3. IsFiniteSet(Warned)  BY <3>1, <3>4, FS_Subset
    <3> QED  BY <3>1, <3>3, FS_CardinalityType
  <2>2. \A n \in 1..last : n \in Warned' <=> n \in Warned
        BY <1>3 DEF Warned
  <2>3. last + 1 \in Warned' <=> ~free /\ ~now.tripped
    <3>1. last + 1 \in Warned' <=>
             ~ran'[last + 1] /\ (last = 0 \/ ran'[last] \/ started'[last + 1] # started'[last])
          BY <1>3 DEF Warned
    <3>2. last # 0 => started'[last] = started[last] /\ (ran'[last] <=> ran[last])
          BY <1>3
    <3>3. ran'[last + 1] <=> free  BY <1>3
    <3> QED  BY <3>1, <3>2, <3>3, <1>3, <1>6
  <2>4. Warned' \subseteq 1..(last + 1)  BY <1>3 DEF Warned
  <2>i. 1..(last + 1) = 1..last \cup {last + 1} /\ last + 1 \notin 1..last  BY <1>3
  <2>5. CASE ~free /\ ~now.tripped
    <3>1. Warned' = Warned \cup {last + 1} /\ last + 1 \notin Warned
          BY <2>1, <2>2, <2>3, <2>4, <2>5, <2>i
    <3>2. Cardinality(Warned') = Cardinality(Warned) + 1
          BY <3>1, <2>1, FS_AddElement
    <3> QED  BY <3>2, <2>5, <1>11 DEF IInv
  <2>6. CASE free \/ now.tripped
    <3>1. Warned' = Warned  BY <2>1, <2>2, <2>3, <2>4, <2>6, <2>i
    <3> QED  BY <3>1, <2>6, <1>11 DEF IInv
  <2> QED  BY <2>5, <2>6
<1>13. PICK s \in {"running", "answered"} : Moves(i, s)
       BY <1>1 DEF Moves, free
<1>14. TypeOK'
  <2>1. calls' \in Seq(ToolCall)  BY <1>13, <1>t, StillCalls DEF State
  <2>2. started' \in Seq(Key) /\ ran' \in Seq(BOOLEAN)  BY <1>1, <1>2, <1>3, <1>f
  <2> QED  BY <2>1, <2>2, <1>1, <1>3, <1>5, <1>11 DEF IInv, TypeOK, ToolCall
<1>15. Paced'  BY <1>1 DEF Paced
<1>16. Len(ledger)' + Cardinality(In(calls', Between)) = Len(started)'
  <2>1. Cardinality(In(calls', Between)) = Cardinality(In(calls, Between)) + 1
        BY <1>1, <1>13, <1>t, OneMoves DEF Between
  <2>2. Cardinality(In(calls, Between)) \in Nat /\ Len(ledger) \in Nat
        BY InIsFinite DEF IInv, TypeOK
  <2> QED  BY <2>1, <2>2, <1>1, <1>3 DEF IInv
<1>17. /\ Cardinality(In(calls', {"error"})) = Cardinality(In(calls, {"error"}))
       /\ Cardinality(In(calls', {"error", "unrecorded"}))
            = Cardinality(In(calls, {"error", "unrecorded"}))
  <2>1. calls[i].state \notin {"error", "unrecorded"} /\ s \notin {"error", "unrecorded"}
        BY <1>1
  <2>2. Cardinality(In(calls', {"error"})) = Cardinality(In(calls, {"error"}))
        BY <2>1, <1>13, <1>t, OneMoves
  <2>3. Cardinality(In(calls', {"error", "unrecorded"}))
           = Cardinality(In(calls, {"error", "unrecorded"}))
        BY <2>1, <1>13, <1>t, OneMoves
  <2> QED  BY <2>2, <2>3
<1>18. Failed' = Failed  BY <1>1 DEF Failed
<1> QED  BY <1>9, <1>10, <1>11, <1>12, <1>14, <1>15, <1>16, <1>17, <1>18 DEF IInv

-----------------------------------------------------------------------------
(* The tool comes back.                                                    *)
LEMMA ToolEndsKeeps ==
    ASSUME IInv, NEW i \in DOMAIN calls, NEW s \in {"answered", "raised", "bubbled"},
           ToolEnds(i, s)
    PROVE  IInv'
<1>t. TypeOK  BY DEF IInv
<1>1. /\ calls[i].state = "running" /\ calls' = [calls EXCEPT ![i].state = s] /\ pc = "tools"
      /\ UNCHANGED <<pc, models, usage, guard, ledger, steps, started, ran>>
      BY DEF ToolEnds
<1>m. Moves(i, s)  BY <1>1 DEF Moves
<1>2. calls' \in Seq(ToolCall)  BY <1>m, <1>t, StillCalls DEF State
<1>3. TypeOK' /\ Paced'  BY <1>1, <1>2 DEF IInv, TypeOK, ToolCall, Paced
<1>4. /\ Cardinality(In(calls', Between)) = Cardinality(In(calls, Between))
      /\ Cardinality(In(calls', {"error"})) = Cardinality(In(calls, {"error"}))
      /\ Cardinality(In(calls', {"error", "unrecorded"}))
           = Cardinality(In(calls, {"error", "unrecorded"}))
  <2>1. s \in Between /\ calls[i].state \in Between  BY <1>1 DEF Between
  <2>2. calls[i].state \notin {"error", "unrecorded"} /\ s \notin {"error", "unrecorded"}
        BY <1>1
  <2>3. Cardinality(In(calls', Between)) = Cardinality(In(calls, Between))
        BY <2>1, <1>m, <1>t, OneMoves
  <2>4. Cardinality(In(calls', {"error"})) = Cardinality(In(calls, {"error"}))
        BY <2>2, <1>m, <1>t, OneMoves
  <2>5. Cardinality(In(calls', {"error", "unrecorded"}))
           = Cardinality(In(calls, {"error", "unrecorded"}))
        BY <2>2, <1>m, <1>t, OneMoves
  <2> QED  BY <2>3, <2>4, <2>5
<1>5. Failed' = Failed  BY <1>1 DEF Failed
<1> QED  BY <1>1, <1>3, <1>4, <1>5, GuardKeeps DEF IInv

(* The ledger writes the row of a call.                                    *)
LEMMA RecordKeeps ==
    ASSUME IInv, NEW i \in DOMAIN calls, Record(i)
    PROVE  IInv'
<1> DEFINE s   == Outcome[calls[i].state]
           row == [key |-> calls[i].key, state |-> s]
           n   == Len(ledger) + 1
<1>t. TypeOK  BY DEF IInv
<1>1. /\ pc = "tools" /\ calls[i].state \in {"answered", "raised"}
      /\ calls' = [calls EXCEPT ![i].state = Outcome[@]]
      /\ ledger' = Append(ledger, row)
      /\ steps' = [steps EXCEPT !.errors = IF calls[i].state = "raised" THEN @ + 1 ELSE @]
      /\ UNCHANGED <<pc, models, usage, guard, started, ran>>
      BY Outcomes DEF Record
<1>2. s \in {"complete", "error"} /\ (s = "error" <=> calls[i].state = "raised")
      BY <1>1, Outcomes
<1>3. calls' = [calls EXCEPT ![i].state = s]
      BY <1>1 DEF IInv, TypeOK
<1> HIDE DEF s
<1>m. Moves(i, s)  BY <1>3 DEF Moves
<1>4. calls' \in Seq(ToolCall)  BY <1>2, <1>m, <1>t, StillCalls DEF State
<1>5. row \in [key : Key, state : {"complete", "error"}]
      BY <1>2, <1>t, CallsTyped
<1>6. /\ ledger \in Seq([key : Key, state : {"complete", "error"}]) /\ Len(ledger) \in Nat
      /\ ledger' \in Seq([key : Key, state : {"complete", "error"}])
      /\ Len(ledger') = n /\ ledger'[n].state = s
      /\ \A k \in 1..Len(ledger) : ledger'[k] = ledger[k]
      BY <1>1, <1>5 DEF IInv, TypeOK
<1>7. /\ steps' \in [announced : Nat, errors : Nat, warnings : Nat]
      /\ steps'.warnings = steps.warnings
      /\ steps'.errors = IF s = "error" THEN steps.errors + 1 ELSE steps.errors
  <2>1. steps \in [announced : Nat, errors : Nat, warnings : Nat]  BY <1>t DEF TypeOK
  <2> QED  BY <2>1, <1>1, <1>2
<1>8. TypeOK' /\ Paced'  BY <1>1, <1>4, <1>6, <1>7 DEF IInv, TypeOK, ToolCall, Paced
<1>9. Cardinality(In(calls', Between)) = Cardinality(In(calls, Between)) - 1
      BY <1>1, <1>2, <1>m, <1>t, OneMoves DEF Between
<1>10. /\ Cardinality(In(calls', {"error"}))
              = IF s = "error" THEN Cardinality(In(calls, {"error"})) + 1
                ELSE Cardinality(In(calls, {"error"}))
       /\ Cardinality(In(calls', {"error", "unrecorded"}))
              = IF s = "error" THEN Cardinality(In(calls, {"error", "unrecorded"})) + 1
                ELSE Cardinality(In(calls, {"error", "unrecorded"}))
  <2>1. calls[i].state \notin {"error", "unrecorded"}  BY <1>1
  <2>2. CASE s = "error"
        BY <2>1, <2>2, <1>m, <1>t, OneMoves
  <2>3. CASE s = "complete"
        BY <2>1, <2>3, <1>m, <1>t, OneMoves
  <2> QED  BY <2>2, <2>3, <1>2
<1>11. Cardinality(Failed')
          = IF s = "error" THEN Cardinality(Failed) + 1 ELSE Cardinality(Failed)
  <2>1. IsFiniteSet(Failed) /\ Failed \subseteq 1..Len(ledger)
    <3>1. Failed \subseteq 1..Len(ledger)  BY <1>6 DEF Failed
    <3>2. IsFiniteSet(1..Len(ledger))  BY <1>6, FS_Interval
    <3> QED  BY <3>1, <3>2, FS_Subset
  <2>2. CASE s = "error"
    <3>1. Failed' = Failed \cup {n} /\ n \notin Failed  BY <1>6, <2>1, <2>2 DEF Failed
    <3> QED  BY <3>1, <2>1, <2>2, FS_AddElement
  <2>3. CASE s # "error"
    <3>1. Failed' = Failed  BY <1>6, <2>3 DEF Failed
    <3> QED  BY <3>1, <2>3
  <2> QED  BY <2>2, <2>3
<1>12. Cardinality(In(calls, Between)) \in Nat  BY InIsFinite DEF IInv
<1>13. Len(ledger)' + Cardinality(In(calls', Between)) = Len(started)'
       BY <1>1, <1>6, <1>9, <1>12 DEF IInv
<1>14. Guarded' /\ BlockedIffRepeated' /\ steps'.warnings = Cardinality(Warned')
       BY <1>1, <1>7, GuardKeeps
<1> QED  BY <1>7, <1>8, <1>10, <1>11, <1>13, <1>14 DEF IInv

(* The store fails, and there is no row but an error.                      *)
LEMMA RecordFailsKeeps ==
    ASSUME IInv, NEW i \in DOMAIN calls, RecordFails(i)
    PROVE  IInv'
<1>t. TypeOK  BY DEF IInv
<1>1. /\ pc = "tools" /\ calls[i].state \in {"answered", "raised"}
      /\ calls' = [calls EXCEPT ![i].state = "unrecorded"]
      /\ steps' = [steps EXCEPT !.errors = @ + 1]
      /\ UNCHANGED <<pc, models, usage, guard, ledger, started, ran>>
      BY Outcomes DEF RecordFails
<1>m. Moves(i, "unrecorded")  BY <1>1 DEF Moves
<1>2. calls' \in Seq(ToolCall)  BY <1>m, <1>t, StillCalls DEF State
<1>3. /\ steps' \in [announced : Nat, errors : Nat, warnings : Nat]
      /\ steps'.warnings = steps.warnings /\ steps'.errors = steps.errors + 1
  <2>1. steps \in [announced : Nat, errors : Nat, warnings : Nat]  BY <1>t DEF TypeOK
  <2> QED  BY <2>1, <1>1
<1>4. TypeOK' /\ Paced'  BY <1>1, <1>2, <1>3 DEF IInv, TypeOK, ToolCall, Paced
<1>5. /\ Cardinality(In(calls', Between)) = Cardinality(In(calls, Between))
      /\ Cardinality(In(calls', {"error"})) = Cardinality(In(calls, {"error"}))
      /\ Cardinality(In(calls', {"error", "unrecorded"}))
           = Cardinality(In(calls, {"error", "unrecorded"})) + 1
  <2>1. "unrecorded" \in Between /\ calls[i].state \in Between  BY <1>1 DEF Between
  <2>2. /\ calls[i].state \notin {"error", "unrecorded"}
        /\ calls[i].state \notin {"error"} /\ "unrecorded" \notin {"error"}
        /\ "unrecorded" \in {"error", "unrecorded"}
        BY <1>1
  <2>3. Cardinality(In(calls', Between)) = Cardinality(In(calls, Between))
        BY <2>1, <1>m, <1>t, OneMoves
  <2>4. Cardinality(In(calls', {"error"})) = Cardinality(In(calls, {"error"}))
        BY <2>2, <1>m, <1>t, OneMoves
  <2>5. Cardinality(In(calls', {"error", "unrecorded"}))
           = Cardinality(In(calls, {"error", "unrecorded"})) + 1
        BY <2>2, <1>m, <1>t, OneMoves
  <2> QED  BY <2>3, <2>4, <2>5
<1>6. Failed' = Failed  BY <1>1 DEF Failed
<1> QED  BY <1>1, <1>3, <1>4, <1>5, <1>6, GuardKeeps DEF IInv

-----------------------------------------------------------------------------
(* The model answers: the calls of the answer before have all been         *)
(* recorded, none of them as an error.                                     *)
LEMMA ModelAnswersKeeps ==
    ASSUME IInv, NEW called \in Keys, ModelAnswers(called)
    PROVE  IInv'
<1>1. PICK k \in 0..MaxCalls : called \in [1..k -> Key]
      BY DEF Keys
<1>2. calls' = [j \in 1..k |-> [key |-> called[j], state |-> "new"]]
      BY <1>1 DEF ModelAnswers
<1>3. /\ calls' \in Seq(ToolCall) /\ DOMAIN calls' = 1..k
      /\ \A j \in 1..k : calls'[j].state = "new"
      BY <1>1, <1>2, ToolLoopAssumption DEF ToolCall, State
<1>4. /\ models' = models + 1 /\ models < ModelLimit /\ pc = "model" /\ pc' = "usage"
      /\ UNCHANGED <<usage, guard, ledger, steps, started, ran>>
      BY DEF ModelAnswers
<1>5. models \in 0..ModelLimit /\ usage \in 0..models /\ ModelLimit \in Nat
      BY ToolLoopAssumption DEF IInv, TypeOK
<1>6. TypeOK' /\ Paced'
      BY <1>3, <1>4, <1>5 DEF IInv, TypeOK, ToolCall, Paced
<1>7. \A i \in DOMAIN calls : calls[i].state = "complete"  BY <1>4 DEF IInv, Paced
<1>8. /\ In(calls, Between) = {} /\ In(calls, {"error"}) = {}
      /\ In(calls, {"error", "unrecorded"}) = {}
      BY <1>7 DEF In, Between
<1>9. /\ In(calls', Between) = {} /\ In(calls', {"error"}) = {}
      /\ In(calls', {"error", "unrecorded"}) = {}
      BY <1>3 DEF In, Between
<1>10. Failed' = Failed  BY <1>4 DEF Failed
<1> QED  BY <1>4, <1>6, <1>8, <1>9, <1>10, GuardKeeps DEF IInv

(* The other steps change no call.                                         *)
LEMMA CallsStay ==
    ASSUME IInv, UNCHANGED <<models, calls, guard, ledger, steps, started, ran>>,
           pc' \in {"model", "usage", "tools", "done", "failed"},
           usage' \in 0..models, Paced'
    PROVE  IInv'
<1>1. TypeOK'  BY DEF IInv, TypeOK
<1>3. Failed' = Failed  BY DEF Failed
<1> QED  BY <1>1, <1>3, GuardKeeps DEF IInv

(* Every step keeps the invariant.                                         *)
LEMMA Invariance == Spec => []IInv
<1>1. ASSUME IInv, [Next]_vars  PROVE IInv'
  <2>1. CASE LimitReached
        BY <2>1, <1>1, CallsStay DEF LimitReached, IInv, TypeOK, Paced
  <2>2. CASE ModelFails
        BY <2>2, <1>1, CallsStay DEF ModelFails, IInv, TypeOK, Paced
  <2>3. CASE RecordUsage
    <3>1. usage' \in 0..models  BY <2>3, <1>1 DEF RecordUsage, IInv, TypeOK, Paced
    <3> QED  BY <3>1, <2>3, <1>1, CallsStay DEF RecordUsage, Paced
  <2>4. CASE UsageFails
        BY <2>4, <1>1, CallsStay DEF UsageFails, IInv, TypeOK, Paced
  <2>5. CASE Continue
        BY <2>5, <1>1, CallsStay DEF Continue, IInv, TypeOK, Paced
  <2>6. CASE Break
        BY <2>6, <1>1, CallsStay DEF Break, IInv, TypeOK, Paced
  <2>7. ASSUME NEW called \in Keys, ModelAnswers(called)  PROVE IInv'
        BY <2>7, <1>1, ModelAnswersKeeps
  <2>8. ASSUME NEW i \in DOMAIN calls,
               \/ Start(i) \/ Record(i) \/ RecordFails(i)
               \/ \E state \in {"answered", "raised", "bubbled"} : ToolEnds(i, state)
        PROVE  IInv'
        BY <2>8, <1>1, StartKeeps, RecordKeeps, RecordFailsKeeps, ToolEndsKeeps
  <2>9. CASE UNCHANGED vars
        BY <2>9, <1>1, CallsStay DEF vars, IInv, TypeOK, Paced
  <2> QED  BY <1>1, <2>1, <2>2, <2>3, <2>4, <2>5, <2>6, <2>7, <2>8, <2>9 DEF Next
<1> QED  BY <1>1, InitHolds, PTL DEF Spec

(* loop_guard.py, tool_call_ledger.py and tool_call_announcer.py, whatever *)
(* the order in which the calls of an answer come back: the guard answers  *)
(* for a tool exactly after MaxRepeats equal calls and warns once for each *)
(* such streak, every call that ended has its row, and every error a step. *)
THEOREM CallsAreCountedHolds == Spec => []CallsAreCounted
<1>1. IInv => CallsAreCounted
      BY DEF IInv, CallsAreCounted, WarnedOncePerStreak, LedgerIsWhole, ErrorsAreShown,
             Warned, In, Between, Failed
<1> QED  BY <1>1, Invariance, PTL

-----------------------------------------------------------------------------
(* Five folds over sequences: the walk over the headings of a body, the    *)
(* writing of what is left of it, the choice of the citations, and what    *)
(* the artifacts of a stream and of a reply come to; with what Folding     *)
(* proves of each.                                                         *)
Cutting  == INSTANCE Folding WITH Op <- Shown!Cut
Writing  == INSTANCE Folding WITH Op <- Shown!Write
Choosing == INSTANCE Folding WITH Op <- Shown!Choose
Building == INSTANCE Folding WITH Op <- Shown!Built
Getting  == INSTANCE Folding WITH Op <- Shown!Got

(* What Extras takes from the community modules is what is used here.      *)
LEMMA SameSizes == \A S : Shown!Cardinality(S) = Cardinality(S)
  BY DEF Shown!Cardinality, Cardinality, Shown!IsFiniteSet, IsFiniteSet

(* The least and the greatest of a set of positions are in it and bound    *)
(* it.                                                                     *)
LEMMA Smallest ==
    ASSUME NEW T \in SUBSET Nat, T # {}
    PROVE  Shown!Min(T) \in T /\ \A m \in T : Shown!Min(T) <= m
<1>1. PICK n \in T : \A m \in T : n <= m  BY Cutting!Least
<1> QED  BY <1>1 DEF Shown!Min

LEMMA Largest ==
    ASSUME NEW k \in Nat, NEW T \in SUBSET (0..k), T # {}
    PROVE  Shown!Max(T) \in T /\ \A m \in T : m <= Shown!Max(T)
<1>1. Cutting!Max(T) \in T /\ \A m \in T : m <= Cutting!Max(T)  BY Cutting!Greatest
<1>2. Shown!Max(T) = Cutting!Max(T)  BY DEF Shown!Max, Cutting!Max
<1> QED  BY <1>1, <1>2

(* Folding, of each of the folds as Extras writes it.  The walk:           *)
LEMMA CutOfEmpty == \A base : Shown!FoldLeft(Shown!Cut, base, <<>>) = base
<1>1. \A x, y : Shown!FoldLeft(Shown!Cut, x, y) = Cutting!FoldLeft(Shown!Cut, x, y)
      BY DEF Shown!FoldLeft, Shown!MapThenFoldSet, Cutting!FoldLeft, Cutting!MapThenFoldSet, Shown!Max, Cutting!Max
<1> QED  BY <1>1, Cutting!FoldOfEmpty

LEMMA CutOfAppend ==
    ASSUME NEW base, NEW S, NEW s \in Seq(S), NEW e \in S
    PROVE  Shown!FoldLeft(Shown!Cut, base, Append(s, e)) = Shown!Cut(Shown!FoldLeft(Shown!Cut, base, s), e)
<1>1. \A x, y : Shown!FoldLeft(Shown!Cut, x, y) = Cutting!FoldLeft(Shown!Cut, x, y)
      BY DEF Shown!FoldLeft, Shown!MapThenFoldSet, Cutting!FoldLeft, Cutting!MapThenFoldSet, Shown!Max, Cutting!Max
<1>2. Cutting!FoldLeft(Shown!Cut, base, Append(s, e)) = Shown!Cut(Cutting!FoldLeft(Shown!Cut, base, s), e)
      BY Cutting!FoldOfAppend
<1> QED  BY <1>1, <1>2, Zenon

(* the writing;                                                            *)
LEMMA WriteOfEmpty == \A base : Shown!FoldLeft(Shown!Write, base, <<>>) = base
<1>1. \A x, y : Shown!FoldLeft(Shown!Write, x, y) = Writing!FoldLeft(Shown!Write, x, y)
      BY DEF Shown!FoldLeft, Shown!MapThenFoldSet, Writing!FoldLeft, Writing!MapThenFoldSet, Shown!Max, Writing!Max
<1> QED  BY <1>1, Writing!FoldOfEmpty

LEMMA WriteOfConcat ==
    ASSUME NEW base, NEW S, NEW s \in Seq(S), NEW t \in Seq(S)
    PROVE  Shown!FoldLeft(Shown!Write, base, s \o t) = Shown!FoldLeft(Shown!Write, Shown!FoldLeft(Shown!Write, base, s), t)
<1>1. \A x, y : Shown!FoldLeft(Shown!Write, x, y) = Writing!FoldLeft(Shown!Write, x, y)
      BY DEF Shown!FoldLeft, Shown!MapThenFoldSet, Writing!FoldLeft, Writing!MapThenFoldSet, Shown!Max, Writing!Max
<1>2. Writing!FoldLeft(Shown!Write, base, s \o t) = Writing!FoldLeft(Shown!Write, Writing!FoldLeft(Shown!Write, base, s), t)
      BY Writing!FoldOfConcat
<1> QED  BY <1>1, <1>2, Zenon

(* the artifacts of a stream;                                              *)
LEMMA BuiltOfEmpty == \A base : Shown!FoldLeft(Shown!Built, base, <<>>) = base
<1>1. \A x, y : Shown!FoldLeft(Shown!Built, x, y) = Building!FoldLeft(Shown!Built, x, y)
      BY DEF Shown!FoldLeft, Shown!MapThenFoldSet, Building!FoldLeft, Building!MapThenFoldSet, Shown!Max, Building!Max
<1> QED  BY <1>1, Building!FoldOfEmpty

LEMMA BuiltOfAppend ==
    ASSUME NEW base, NEW S, NEW s \in Seq(S), NEW e \in S
    PROVE  Shown!FoldLeft(Shown!Built, base, Append(s, e)) = Shown!Built(Shown!FoldLeft(Shown!Built, base, s), e)
<1>1. \A x, y : Shown!FoldLeft(Shown!Built, x, y) = Building!FoldLeft(Shown!Built, x, y)
      BY DEF Shown!FoldLeft, Shown!MapThenFoldSet, Building!FoldLeft, Building!MapThenFoldSet, Shown!Max, Building!Max
<1>2. Building!FoldLeft(Shown!Built, base, Append(s, e)) = Shown!Built(Building!FoldLeft(Shown!Built, base, s), e)
      BY Building!FoldOfAppend
<1> QED  BY <1>1, <1>2, Zenon

LEMMA BuiltOfTail ==
    ASSUME NEW base, NEW S, NEW s \in Seq(S), s # <<>>
    PROVE  Shown!FoldLeft(Shown!Built, base, s) = Shown!FoldLeft(Shown!Built, Shown!Built(base, Head(s)), Tail(s))
<1>1. \A x, y : Shown!FoldLeft(Shown!Built, x, y) = Building!FoldLeft(Shown!Built, x, y)
      BY DEF Shown!FoldLeft, Shown!MapThenFoldSet, Building!FoldLeft, Building!MapThenFoldSet, Shown!Max, Building!Max
<1>2. Building!FoldLeft(Shown!Built, base, s) = Building!FoldLeft(Shown!Built, Shown!Built(base, Head(s)), Tail(s))
      BY Building!FoldOfTail
<1> QED  BY <1>1, <1>2, Zenon

(* and those of a reply.                                                   *)
LEMMA GotOfEmpty == \A base : Shown!FoldLeft(Shown!Got, base, <<>>) = base
<1>1. \A x, y : Shown!FoldLeft(Shown!Got, x, y) = Getting!FoldLeft(Shown!Got, x, y)
      BY DEF Shown!FoldLeft, Shown!MapThenFoldSet, Getting!FoldLeft, Getting!MapThenFoldSet, Shown!Max, Getting!Max
<1> QED  BY <1>1, Getting!FoldOfEmpty

LEMMA GotOfAppend ==
    ASSUME NEW base, NEW S, NEW s \in Seq(S), NEW e \in S
    PROVE  Shown!FoldLeft(Shown!Got, base, Append(s, e)) = Shown!Got(Shown!FoldLeft(Shown!Got, base, s), e)
<1>1. \A x, y : Shown!FoldLeft(Shown!Got, x, y) = Getting!FoldLeft(Shown!Got, x, y)
      BY DEF Shown!FoldLeft, Shown!MapThenFoldSet, Getting!FoldLeft, Getting!MapThenFoldSet, Shown!Max, Getting!Max
<1>2. Getting!FoldLeft(Shown!Got, base, Append(s, e)) = Shown!Got(Getting!FoldLeft(Shown!Got, base, s), e)
      BY Getting!FoldOfAppend
<1> QED  BY <1>1, <1>2, Zenon

-----------------------------------------------------------------------------
(* A line of a body; the headings up to a line; whether the last of them   *)
(* makes the line one of a scratchpad; and the body with those lines       *)
(* marked as calls, which the writing leaves out.                          *)
Line == Word \cup {"plan", "head", "call"}

Above(body, i) == {j \in Shown!Headings(body) : j <= i}

Planned(body, i) == Above(body, i) # {} /\ body[Shown!Max(Above(body, i))] = "plan"

Marked(body) == [i \in 1..Len(body) |-> IF Planned(body, i) THEN "call" ELSE body[i]]

(* Where the walk is after k lines: what it has kept is what the marked    *)
(* body has up to the cursor, and from the cursor on nothing is of a       *)
(* scratchpad.                                                             *)
Walked(body, k, walk) ==
    /\ walk \in [body : {body}, text : Seq(Line), cursor : 1..(Len(body) + 1)]
    /\ Shown!FoldLeft(Shown!Write, <<>>, walk.text)
          = Shown!FoldLeft(Shown!Write, <<>>, SubSeq(Marked(body), 1, walk.cursor - 1))
    /\ \A i \in walk.cursor..k : ~Planned(body, i)
    /\ walk.cursor \in Shown!Headings(body) \cup {1, Len(body) + 1}
    /\ \A h \in Shown!Headings(body) : h > k => walk.cursor <= h

(* The last heading up to a line decides about it.                         *)
LEMMA LastHeading ==
    ASSUME NEW body \in Seq(Line), NEW i \in 1..Len(body), NEW p \in Above(body, i),
           \A j \in Shown!Headings(body) : j <= i => j <= p
    PROVE  Planned(body, i) <=> body[p] = "plan"
<1>1. i \in Nat /\ Above(body, i) \in SUBSET (0..i) /\ Above(body, i) # {}
      BY DEF Above, Shown!Headings
<1>2. Shown!Max(Above(body, i)) \in Above(body, i) /\ \A m \in Above(body, i) : m <= Shown!Max(Above(body, i))
      BY <1>1, Largest
<1>3. Shown!Max(Above(body, i)) <= p /\ p <= Shown!Max(Above(body, i))  BY <1>2 DEF Above
<1>4. p \in Nat /\ Shown!Max(Above(body, i)) \in Nat  BY <1>1, <1>2
<1>5. Shown!Max(Above(body, i)) = p  BY <1>3, <1>4
<1> QED  BY <1>1, <1>5 DEF Planned

(* A heading decides about its own line,                                   *)
LEMMA HeadingPlanned ==
    ASSUME NEW body \in Seq(Line), NEW i \in Shown!Headings(body)
    PROVE  Planned(body, i) <=> body[i] = "plan"
<1>1. i \in 1..Len(body) /\ i \in Above(body, i)  BY DEF Above, Shown!Headings
<1> QED  BY <1>1, LastHeading

(* and a line without one is like the line before it.                      *)
LEMMA PlannedAsBefore ==
    ASSUME NEW body \in Seq(Line), NEW i \in 1..Len(body), i \notin Shown!Headings(body)
    PROVE  Planned(body, i) <=> i # 1 /\ Planned(body, i - 1)
<1>1. \A j \in Shown!Headings(body) : j \in Nat /\ j >= 1  BY DEF Shown!Headings
<1>2. Len(body) \in Nat  OBVIOUS
<1>3. \A j \in Shown!Headings(body) : j <= i <=> j <= i - 1
  <2>1. TAKE j \in Shown!Headings(body)
  <2>2. j # i /\ j \in Nat /\ i \in Nat  BY <1>1, <1>2
  <2> QED  BY <2>2
<1>4. Above(body, i) = Above(body, i - 1)  BY <1>3 DEF Above
<1>5. CASE i = 1
  <2>1. Above(body, i) = {}  BY <1>1, <1>3, <1>5 DEF Above
  <2> QED  BY <2>1, <1>5 DEF Planned
<1> QED  BY <1>4, <1>5 DEF Planned

(* The marked body has the lines of the body.                              *)
LEMMA MarkedTyped ==
    ASSUME NEW body \in Seq(Line)
    PROVE  /\ Len(body) \in Nat /\ Marked(body) \in Seq(Line) /\ Len(Marked(body)) = Len(body)
           /\ \A i \in 1..Len(body) :
                 Marked(body)[i] = IF Planned(body, i) THEN "call" ELSE body[i]
<1>1. Len(body) \in Nat /\ \A i \in 1..Len(body) : body[i] \in Line  OBVIOUS
<1>2. "call" \in Line  BY DEF Line
<1> QED  BY <1>1, <1>2 DEF Marked

(* The next heading lies behind, with no other one between.                *)
LEMMA NextIs ==
    ASSUME NEW body \in Seq(Line), NEW k \in 1..Len(body)
    PROVE  LET upto == Shown!NextHeading(body, k)
           IN  /\ upto \in Shown!Headings(body) \cup {Len(body) + 1} /\ upto \in (k + 1)..(Len(body) + 1)
               /\ \A h \in Shown!Headings(body) : h > k => upto <= h
<1> DEFINE T == {j \in Shown!Headings(body) : j > k} \cup {Len(body) + 1}
<1>0. Len(body) \in Nat /\ Shown!Headings(body) \subseteq 1..Len(body)  BY DEF Shown!Headings
<1>1. T \in SUBSET Nat /\ T # {}  BY <1>0
<1>2. Shown!NextHeading(body, k) = Shown!Min(T)  BY DEF Shown!NextHeading
<1>3. Shown!Min(T) \in T /\ \A m \in T : Shown!Min(T) <= m  BY <1>1, Smallest
<1>4. \A t \in T : t \in (k + 1)..(Len(body) + 1)  BY <1>0
<1>5. \A h \in Shown!Headings(body) : h > k => Shown!Min(T) <= h  BY <1>3
<1>6. T \subseteq Shown!Headings(body) \cup {Len(body) + 1}  OBVIOUS
<1> QED  BY <1>2, <1>3, <1>4, <1>5, <1>6

(* Nothing is written of calls.                                            *)
LEMMA AllCalls ==
    \A base : \A s \in Seq({"call"}) : Shown!FoldLeft(Shown!Write, base, s) = base
<1> TAKE base
<1> DEFINE Holds == Seq({"call"}) \X {base}
<1>1. <<>> \in Seq({"call"}) /\ <<<<>>, base>> \in Holds
  <2>1. <<>> \in Seq({"call"})  OBVIOUS
  <2> QED  BY <2>1
<1>2. ASSUME NEW s \in Seq({"call"}), NEW e \in {"call"}, NEW acc, <<s, acc>> \in Holds
      PROVE  <<Append(s, e), Shown!Write(acc, e)>> \in Holds
  <2>1. acc = base /\ e = "call" /\ Append(s, e) \in Seq({"call"})  BY <1>2
  <2>2. Shown!Write(acc, e) = base  BY <2>1 DEF Shown!Write
  <2> QED  BY <2>1, <2>2
<1> HIDE DEF Holds
<1>3. \A s \in Seq({"call"}) : <<s, Writing!FoldLeft(Shown!Write, base, s)>> \in Holds
      BY <1>1, <1>2, Writing!FoldInduction
<1>4. \A s : Shown!FoldLeft(Shown!Write, base, s) = Writing!FoldLeft(Shown!Write, base, s)
      BY DEF Shown!FoldLeft, Shown!MapThenFoldSet, Writing!FoldLeft, Writing!MapThenFoldSet, Shown!Max, Writing!Max
<1>5. \A s \in Seq({"call"}) : <<s, Shown!FoldLeft(Shown!Write, base, s)>> \in Holds  BY <1>3, <1>4
<1> QED  BY <1>5 DEF Holds

(* A piece of a text and the one after it.                                 *)
LEMMA Adjacent ==
    ASSUME NEW s \in Seq(Line), NEW c \in 1..(Len(s) + 1), NEW d \in (c - 1)..Len(s)
    PROVE  SubSeq(s, 1, c - 1) \o SubSeq(s, c, d) = SubSeq(s, 1, d)
<1>1. PICK a \in 1..(Len(s) + 1) : a = 1  OBVIOUS
<1>2. PICK b \in (a - 1)..Len(s) : b = c - 1  BY <1>1
<1>3. PICK e \in b..Len(s) : e = d  BY <1>2
<1>4. SubSeq(s, a, b) \o SubSeq(s, b + 1, e) = SubSeq(s, a, e)  BY ConcatAdjacentSubSeq
<1>5. b + 1 = c  BY <1>2
<1> QED  BY <1>1, <1>2, <1>3, <1>4, <1>5

(* Two texts that agree from one place to another have this piece in       *)
(* common.                                                                 *)
LEMMA SubSeqSame ==
    ASSUME NEW S, NEW s, NEW t, NEW a \in Int, NEW b \in Int,
           \A j \in a..b : s[j] \in S /\ t[j] = s[j]
    PROVE  SubSeq(s, a, b) = SubSeq(t, a, b) /\ SubSeq(t, a, b) \in Seq(S)
<1> DEFINE u == SubSeq(s, a, b)
           v == SubSeq(t, a, b)
<1>1. u \in Seq(S) /\ Len(u) = (IF a <= b THEN b - a + 1 ELSE 0)
      /\ \A j \in 1..(b - a + 1) : u[j] = s[a + j - 1]
      BY SubSeqProperties
<1>2. v \in Seq(S) /\ Len(v) = (IF a <= b THEN b - a + 1 ELSE 0)
      /\ \A j \in 1..(b - a + 1) : v[j] = t[a + j - 1]
      BY SubSeqProperties
<1>3. \A j \in 1..(b - a + 1) : a + j - 1 \in a..b  OBVIOUS
<1>4. \A j \in 1..(b - a + 1) : u[j] = v[j]  BY <1>1, <1>2, <1>3
<1>5. Len(u) = Len(v) /\ 1..Len(u) \subseteq 1..(b - a + 1)  BY <1>1, <1>2
<1> HIDE DEF u, v
<1>6. u = v  BY <1>1, <1>2, <1>4, <1>5, SeqEqual
<1> QED  BY <1>2, <1>6 DEF u, v

(* One line more.                                                          *)
LEMMA CutKeeps ==
    ASSUME NEW body \in Seq(Line), NEW k \in 0..(Len(body) - 1), NEW walk, Walked(body, k, walk)
    PROVE  Walked(body, k + 1, Shown!Cut(walk, k + 1))
<1> DEFINE n == Len(body)
           i == k + 1
           c == walk.cursor
           m == Marked(body)
<1>1. n \in Nat /\ k \in Nat /\ i \in 1..n /\ c \in 1..(n + 1)
      /\ walk.body = body /\ walk.text \in Seq(Line)
      BY DEF Walked
<1>2. m \in Seq(Line) /\ Len(m) = n
      /\ \A j \in 1..n : m[j] = IF Planned(body, j) THEN "call" ELSE body[j]
      BY MarkedTyped
<1>3. Shown!Headings(body) \subseteq 1..n /\ \A j \in 1..n : j \in Shown!Headings(body) <=> body[j] \in {"plan", "head"}
      BY DEF Shown!Headings
<1>4. \A j \in c..k : ~Planned(body, j)  BY DEF Walked
<1>5. c \in Shown!Headings(body) \cup {1, n + 1} /\ \A h \in Shown!Headings(body) : h > k => c <= h
      BY DEF Walked
<1>6. Shown!FoldLeft(Shown!Write, <<>>, walk.text) = Shown!FoldLeft(Shown!Write, <<>>, SubSeq(m, 1, c - 1))
      BY DEF Walked
<1> HIDE DEF n, i, c, m
<1>7. CASE body[i] # "plan"
  <2>1. Shown!Cut(walk, i) = walk  BY <1>1, <1>7 DEF Shown!Cut
  <2>2. ~(c <= i) \/ ~Planned(body, i)
    <3>1. CASE i \in Shown!Headings(body)  BY <3>1, <1>7, HeadingPlanned
    <3>2. CASE i \notin Shown!Headings(body) /\ c <= i
      <4>1. i # 1 => i - 1 = k /\ k >= 1  BY <1>1 DEF i
      <4>2. i # 1 => c <= k
        <5>1. c # i \/ i = 1  BY <3>2, <1>5, <1>1
        <5> QED  BY <5>1, <3>2, <4>1, <1>1
      <4>3. i # 1 => ~Planned(body, i - 1)  BY <4>1, <4>2, <1>4, <1>1
      <4>4. i \in 1..Len(body)  BY <1>1 DEF n
      <4> QED  BY <4>3, <4>4, <3>2, PlannedAsBefore
    <3> QED  BY <3>1, <3>2
  <2>3. \A j \in c..i : ~Planned(body, j)
    <3>1. \A j \in c..i : j = i \/ j \in c..k  BY <1>1 DEF i
    <3>2. \A j \in c..i : j = i => c <= i  BY <1>1
    <3> QED  BY <3>1, <3>2, <2>2, <1>4
  <2>4. \A h \in Shown!Headings(body) : h > i => c <= h
    <3>1. \A h \in Shown!Headings(body) : h > i => h > k  BY <1>1, <1>3 DEF i
    <3> QED  BY <3>1, <1>5
  <2> QED  BY <2>1, <2>3, <2>4, <1>1, <1>5, <1>6 DEF Walked, n, i, c, m
<1>8. CASE body[i] = "plan"
  <2> DEFINE upto == Shown!NextHeading(body, i)
             mid  == SubSeq(body, c, k)
  <2>1. i \in Shown!Headings(body) /\ c <= i  BY <1>1, <1>3, <1>5, <1>8 DEF i
  <2>2. Shown!Cut(walk, i) = [walk EXCEPT !.text = walk.text \o mid, !.cursor = upto]
    <3>1. SubSeq(walk.body, walk.cursor, i - 1) = mid  BY <1>1 DEF i, c
    <3> QED  BY <3>1, <1>1, <1>8 DEF Shown!Cut
  <2>3. upto \in Shown!Headings(body) \cup {n + 1} /\ upto \in (i + 1)..(n + 1)
        /\ \A h \in Shown!Headings(body) : h > i => upto <= h
        BY <1>1, NextIs DEF n
  <2> HIDE DEF upto
  <2>4. mid \in Seq(Line) /\ mid = SubSeq(m, c, k)
    <3>1. \A j \in c..k : j \in 1..n /\ body[j] \in Line /\ m[j] = body[j] /\ m[j] \in Line
      <4>1. TAKE j \in c..k
      <4>2. j \in 1..n  BY <1>1 DEF i
      <4>3. ~Planned(body, j)  BY <1>4
      <4>4. m[j] = body[j]  BY <4>2, <4>3, <1>2
      <4> QED  BY <4>2, <4>4, <1>2
    <3>2. c \in Int /\ k \in Int  BY <1>1
    <3> QED  BY <3>1, <3>2, SubSeqSame
  <2> HIDE DEF mid
  <2>5. SubSeq(m, 1, k) = SubSeq(m, 1, c - 1) \o mid /\ SubSeq(m, 1, c - 1) \in Seq(Line)
        /\ SubSeq(m, 1, k) \in Seq(Line)
    <3>1. c \in 1..(Len(m) + 1) /\ k \in (c - 1)..Len(m)  BY <1>1, <1>2, <2>1 DEF i
    <3>2. SubSeq(m, 1, c - 1) \o SubSeq(m, c, k) = SubSeq(m, 1, k)  BY <3>1, <1>2, Adjacent
    <3>4. \A j \in 1..(c - 1) : m[j] \in Line  BY <1>1, <1>2
    <3>5. \A j \in 1..k : m[j] \in Line  BY <1>1, <1>2 DEF i
    <3>6. c - 1 \in Int /\ k \in Int /\ 1 \in Int  BY <1>1
    <3>7. SubSeq(m, 1, c - 1) \in Seq(Line)  BY <3>4, <3>6, SubSeqProperties
    <3>8. SubSeq(m, 1, k) \in Seq(Line)  BY <3>5, <3>6, SubSeqProperties
    <3> QED  BY <3>2, <3>7, <3>8, <2>4
  <2>6. SubSeq(m, i, upto - 1) \in Seq({"call"})
        /\ SubSeq(m, 1, upto - 1) = SubSeq(m, 1, k) \o SubSeq(m, i, upto - 1)
    <3>1. \A j \in i..(upto - 1) : j \in 1..n /\ Planned(body, j)
      <4>1. TAKE j \in i..(upto - 1)
      <4>2. j \in 1..Len(body)  BY <1>1, <2>3 DEF n
      <4>3. i \in Above(body, j)  BY <2>1, <1>1, <2>3 DEF Above
      <4>4. \A h \in Shown!Headings(body) : h <= j => h <= i
        <5>1. TAKE h \in Shown!Headings(body)
        <5>2. h > i => upto <= h  BY <2>3
        <5>3. h \in Nat /\ j < upto  BY <1>3, <1>1, <2>3
        <5> QED  BY <5>2, <5>3, <1>1, <2>3
      <4> QED  BY <4>2, <4>3, <4>4, <1>8, LastHeading DEF n
    <3>2. \A j \in i..(upto - 1) : m[j] \in {"call"}  BY <3>1, <1>2
    <3>3. SubSeq(m, i, upto - 1) \in Seq({"call"})
      <4>1. i \in Int /\ upto - 1 \in Int  BY <1>1, <2>3
      <4> QED  BY <3>2, <4>1, SubSeqProperties
    <3>4. i \in 1..(Len(m) + 1) /\ upto - 1 \in (i - 1)..Len(m) /\ i - 1 = k
          BY <1>1, <1>2, <2>3 DEF i
    <3>5. SubSeq(m, 1, i - 1) \o SubSeq(m, i, upto - 1) = SubSeq(m, 1, upto - 1)
          BY <3>4, <1>2, Adjacent
    <3> QED  BY <3>3, <3>4, <3>5
  <2>7. Shown!FoldLeft(Shown!Write, <<>>, walk.text \o mid) = Shown!FoldLeft(Shown!Write, <<>>, SubSeq(m, 1, upto - 1))
    <3>0. \A s, t \in Seq(Line) : Shown!FoldLeft(Shown!Write, <<>>, s \o t)
                                      = Shown!FoldLeft(Shown!Write, Shown!FoldLeft(Shown!Write, <<>>, s), t)
          BY WriteOfConcat
    <3>1. Shown!FoldLeft(Shown!Write, <<>>, walk.text \o mid)
              = Shown!FoldLeft(Shown!Write, Shown!FoldLeft(Shown!Write, <<>>, walk.text), mid)
          BY <1>1, <2>4, <3>0
    <3>2. Shown!FoldLeft(Shown!Write, <<>>, SubSeq(m, 1, c - 1) \o mid)
              = Shown!FoldLeft(Shown!Write, Shown!FoldLeft(Shown!Write, <<>>, SubSeq(m, 1, c - 1)), mid)
          BY <2>4, <2>5, <3>0
    <3>3. SubSeq(m, i, upto - 1) \in Seq(Line)  BY <2>6, SeqMonotonic DEF Line
    <3>4. Shown!FoldLeft(Shown!Write, <<>>, SubSeq(m, 1, k) \o SubSeq(m, i, upto - 1))
              = Shown!FoldLeft(Shown!Write, Shown!FoldLeft(Shown!Write, <<>>, SubSeq(m, 1, k)), SubSeq(m, i, upto - 1))
          BY <2>5, <3>3, <3>0
    <3>5. Shown!FoldLeft(Shown!Write, Shown!FoldLeft(Shown!Write, <<>>, SubSeq(m, 1, k)), SubSeq(m, i, upto - 1))
              = Shown!FoldLeft(Shown!Write, <<>>, SubSeq(m, 1, k))
          BY <2>6, AllCalls
    <3> QED  BY <3>1, <3>2, <3>4, <3>5, <1>6, <2>5, <2>6
  <2>8. \A j \in upto..i : FALSE  BY <1>1, <2>3
  <2>9. walk.text \o mid \in Seq(Line)  BY <1>1, <2>4
  <2>10. upto \in 1..(n + 1)  BY <1>1, <2>3
  <2>11. Shown!Cut(walk, i) \in [body : {body}, text : Seq(Line), cursor : 1..(n + 1)]
         /\ Shown!Cut(walk, i).text = walk.text \o mid /\ Shown!Cut(walk, i).cursor = upto
    <3>1. walk \in [body : {body}, text : Seq(Line), cursor : 1..(n + 1)]  BY DEF Walked, n
    <3> QED  BY <3>1, <2>2, <2>9, <2>10
  <2> QED  BY <2>3, <2>7, <2>8, <2>11 DEF Walked, n, i, m
<1> QED  BY <1>7, <1>8

(* _sanitise_markdown_body, for bodies of any length: what is left has     *)
(* nothing of a scratchpad, and all of the analysis.                       *)
LEMMA Polished ==
    ASSUME NEW body \in Seq(Line)
    PROVE  Shown!Sanitised(body) = Shown!Analysis(body)
<1>a. \A base : \A s \in Seq(Nat), e \in Nat :
          Shown!FoldLeft(Shown!Cut, base, Append(s, e)) = Shown!Cut(Shown!FoldLeft(Shown!Cut, base, s), e)
      BY CutOfAppend
<1> DEFINE n     == Len(body)
           start == [body |-> body, text |-> <<>>, cursor |-> 1]
           ids   == [i \in 1..n |-> i]
           m     == Marked(body)
           InOrder(s) == Len(s) <= n /\ \A i \in 1..Len(s) : s[i] = i
           T == {s \in Seq(Nat) : InOrder(s) => Walked(body, Len(s), Shown!FoldLeft(Shown!Cut, start, s))}
<1>0. n \in Nat /\ m \in Seq(Line) /\ Len(m) = n
      /\ \A j \in 1..n : m[j] = IF Planned(body, j) THEN "call" ELSE body[j]
      BY MarkedTyped
<1>1. <<>> \in T
  <2>1. Shown!FoldLeft(Shown!Cut, start, <<>>) = start  BY CutOfEmpty
  <2>2. <<>> \in Seq(Nat) /\ <<>> \in Seq(Line) /\ Len(<<>>) = 0  OBVIOUS
  <2>3. start.text = <<>> /\ start.cursor = 1 /\ SubSeq(Marked(body), 1, start.cursor - 1) = <<>>
        BY SubSeqEmpty
  <2>4. start \in [body : {body}, text : Seq(Line), cursor : 1..(n + 1)]  BY <1>0, <2>2
  <2>5. \A h \in Shown!Headings(body) : 1 <= h  BY DEF Shown!Headings
  <2>6. Walked(body, 0, start)
    <3>1. Shown!FoldLeft(Shown!Write, <<>>, start.text)
              = Shown!FoldLeft(Shown!Write, <<>>, SubSeq(Marked(body), 1, start.cursor - 1))
          BY <2>3
    <3>2. \A i \in start.cursor..0 : FALSE  BY <2>3
    <3>3. \A h \in Shown!Headings(body) : start.cursor <= h  BY <2>3, <2>5
    <3> HIDE DEF start
    <3> QED  BY <2>3, <2>4, <3>1, <3>2, <3>3 DEF Walked
  <2> QED  BY <2>1, <2>2, <2>6
<1>2. ASSUME NEW s \in Seq(Nat), NEW e \in Nat, s \in T  PROVE Append(s, e) \in T
  <2>0. Append(s, e) \in Seq(Nat)  OBVIOUS
  <2>1. SUFFICES ASSUME InOrder(Append(s, e))
                 PROVE  Walked(body, Len(Append(s, e)), Shown!FoldLeft(Shown!Cut, start, Append(s, e)))
        BY <2>0
  <2>2. Append(s, e) \in Seq(Nat) /\ Len(Append(s, e)) = Len(s) + 1 /\ Len(s) \in Nat
        /\ Append(s, e)[Len(s) + 1] = e /\ \A i \in 1..Len(s) : Append(s, e)[i] = s[i]
        OBVIOUS
  <2>3. Len(s) + 1 \in 1..(Len(s) + 1) /\ 1..Len(s) \subseteq 1..(Len(s) + 1)  BY <2>2
  <2>4. e = Len(s) + 1 /\ InOrder(s) /\ Len(s) \in 0..(n - 1)  BY <2>1, <2>2, <2>3, <1>0
  <2>5. Walked(body, Len(s), Shown!FoldLeft(Shown!Cut, start, s))  BY <1>2, <2>4
  <2>6. Walked(body, Len(s) + 1, Shown!Cut(Shown!FoldLeft(Shown!Cut, start, s), Len(s) + 1))
        BY <2>4, <2>5, CutKeeps
  <2>7. Shown!FoldLeft(Shown!Cut, start, Append(s, e)) = Shown!Cut(Shown!FoldLeft(Shown!Cut, start, s), e)
    <3> HIDE DEF start, T
    <3> QED  BY <1>a
  <2> QED  BY <2>2, <2>4, <2>6, <2>7
<1> HIDE DEF T
<1>3. Seq(Nat) \subseteq T  BY <1>1, <1>2, Cutting!SequenceInduction
<1> DEFINE walk == Shown!FoldLeft(Shown!Cut, start, ids)
           c == walk.cursor
<1>4. ids \in Seq(Nat) /\ Len(ids) = n /\ InOrder(ids)  BY <1>0
<1>5. Walked(body, n, walk)  BY <1>3, <1>4 DEF T
<1>6. Shown!Sanitised(body) = Shown!FoldLeft(Shown!Write, <<>>, walk.text \o SubSeq(body, c, n))
      BY DEF Shown!Sanitised
<1> HIDE DEF walk
<1>7. c \in 1..(n + 1) /\ walk.text \in Seq(Line)
      /\ Shown!FoldLeft(Shown!Write, <<>>, walk.text) = Shown!FoldLeft(Shown!Write, <<>>, SubSeq(m, 1, c - 1))
      /\ \A i \in c..n : ~Planned(body, i)
      BY <1>5 DEF Walked
<1> HIDE DEF c, m
<1>8. SubSeq(body, c, n) = SubSeq(m, c, n) /\ SubSeq(m, c, n) \in Seq(Line)
  <2>1. \A j \in c..n : j \in 1..n /\ body[j] \in Line /\ m[j] = body[j] /\ m[j] \in Line
    <3>1. TAKE j \in c..n
    <3>2. j \in 1..n  BY <1>0, <1>7
    <3>3. m[j] = body[j]  BY <3>2, <1>7, <1>0
    <3> QED  BY <3>2, <3>3, <1>0
  <2>2. c \in Int /\ n \in Int  BY <1>0, <1>7
  <2> QED  BY <2>1, <2>2, SubSeqSame
<1>9. SubSeq(m, 1, c - 1) \in Seq(Line)
  <2>1. \A j \in 1..(c - 1) : m[j] \in Line  BY <1>0, <1>7
  <2>2. c - 1 \in Int /\ 1 \in Int  BY <1>0, <1>7
  <2> QED  BY <2>1, <2>2, SubSeqProperties
<1>10. SubSeq(m, 1, c - 1) \o SubSeq(m, c, n) = m
  <2>1. c \in 1..(Len(m) + 1) /\ n \in (c - 1)..Len(m)  BY <1>0, <1>7
  <2>2. SubSeq(m, 1, c - 1) \o SubSeq(m, c, n) = SubSeq(m, 1, n)  BY <2>1, <1>0, Adjacent
  <2> QED  BY <2>2, <1>0, SubSeqFull
<1>11. \A s, t \in Seq(Line) : Shown!FoldLeft(Shown!Write, <<>>, s \o t)
                                   = Shown!FoldLeft(Shown!Write, Shown!FoldLeft(Shown!Write, <<>>, s), t)
       BY WriteOfConcat
<1>12. Shown!FoldLeft(Shown!Write, <<>>, walk.text \o SubSeq(m, c, n))
           = Shown!FoldLeft(Shown!Write, Shown!FoldLeft(Shown!Write, <<>>, walk.text), SubSeq(m, c, n))
       BY <1>7, <1>8, <1>11
<1>13. Shown!FoldLeft(Shown!Write, <<>>, SubSeq(m, 1, c - 1) \o SubSeq(m, c, n))
           = Shown!FoldLeft(Shown!Write, Shown!FoldLeft(Shown!Write, <<>>, SubSeq(m, 1, c - 1)), SubSeq(m, c, n))
       BY <1>8, <1>9, <1>11
<1>14. Shown!Analysis(body) = Shown!FoldLeft(Shown!Write, <<>>, m)
       BY DEF Shown!Analysis, m, Marked, Planned, Above
<1> QED  BY <1>6, <1>7, <1>8, <1>10, <1>12, <1>13, <1>14

-----------------------------------------------------------------------------
(* What is emitted, and what the client gets.                              *)
Payloads == {Shown!Payload(s) : s \in Show}

Arts == {Shown!Wire(p) : p \in Payloads}

Event == [type : {"artifact"}, payload : Payloads] \cup [type : {"citation"}, c : Shown!Citation]
         \cup [type : {"text"}, words : SUBSET Word] \cup [type : {"break", "call"}]

Frame == [kind : {"row", "call"}] \cup [kind : {"text"}, words : SUBSET Word]
         \cup [kind : {"artifact"}, artifact : Arts]
         \cup [kind : {"citations"}, all : Seq(Shown!Citation)]

(* The types of the state; the stream is the end of what was emitted.      *)
ExtrasTypes ==
    /\ emitted \in Seq(Event) /\ stream \in Seq(Event)
    /\ Len(emitted) <= MaxEmits /\ Len(stream) <= Len(emitted)
    /\ \A i \in 1..Len(stream) : stream[i] = emitted[Len(emitted) - Len(stream) + i]
    /\ cited \subseteq Page \cup (Backed \X {0})
    /\ agent \in {"running", "done", "failed"}
    /\ drain \in {"reading", "draining", "over", "left"}
    /\ prose \subseteq Word /\ noted \subseteq Word
    /\ artifacts \in Seq(Arts) /\ citations \in Seq(Shown!Citation)
    /\ out \in Seq(Frame)

(* The citations among the first n events, and the first of each source.   *)
CitedBy(e, n) == {i \in 1..n : e[i].type = "citation"}

First(e, n) == {i \in CitedBy(e, n) : \A j \in CitedBy(e, n) :
                                         j < i => Shown!KeyOf(e[j].c) # Shown!KeyOf(e[i].c)}

(* The buffer of citations, after n events: all their keys, and the first  *)
(* citation of each, once.                                                 *)
Held(e, n, cs, ks) ==
    /\ ks = {Shown!KeyOf(e[i].c) : i \in CitedBy(e, n)}
    /\ {cs[i] : i \in 1..Len(cs)} = {e[i].c : i \in First(e, n)}
    /\ \A i, j \in 1..Len(cs) : Shown!KeyOf(cs[i]) = Shown!KeyOf(cs[j]) => i = j

(* The words of the frames; and whether the frames cite what they should.  *)
ShownIn(fs) ==
    UNION ({fs[i].words : i \in {j \in 1..Len(fs) : fs[j].kind = "text"}}
           \cup {Shown!WordsOf(fs[i].artifact) : i \in {j \in 1..Len(fs) : fs[j].kind = "artifact"}})

Told(es, fs) ==
    LET due == {es[i].c : i \in {j \in First(es, Len(es)) : Shown!Relevant(es[j].c, ShownIn(fs))}}
        got == {i \in 1..Len(fs) : fs[i].kind = "citations"}
    IN  IF due = {} THEN got = {}
        ELSE \E i \in got : /\ got = {i} /\ Shown!Range(fs[i].all) = due
                            /\ Len(fs[i].all) = Cardinality(due)

(* Between two events: nothing but steps was sent, and the artifacts in    *)
(* the buffer and those that are still to come are all.                    *)
Reading ==
    /\ \A i \in 1..Len(out) : out[i].kind = "row"
    /\ noted = {}
    /\ Shown!FoldLeft(Shown!Got, <<>>, out) = <<>>
    /\ Shown!FoldLeft(Shown!Built, artifacts, stream) = Shown!FoldLeft(Shown!Built, <<>>, emitted)

(* Between two frames of the end: those that were sent and those in the    *)
(* buffer are all.                                                         *)
Draining ==
    /\ stream = <<>>
    /\ \A i \in 1..Len(out) : out[i].kind \in {"row", "text", "artifact"}
    /\ noted = ShownIn(out)
    /\ Shown!FoldLeft(Shown!Got, <<>>, out) \o artifacts = Shown!FoldLeft(Shown!Built, <<>>, emitted)

(* The inductive invariant.                                                *)
ExtrasInv ==
    /\ ExtrasTypes /\ Shown!TailIsOrdered
    /\ drain \in {"reading", "draining"} =>
          Held(emitted, Len(emitted) - Len(stream), citations, keys)
    /\ \A i \in 1..Len(citations) : Shown!KeyOf(citations[i]) \in keys
    /\ drain = "reading" => Reading
    /\ drain = "draining" => Draining
    /\ drain = "over" => Shown!FoldLeft(Shown!Got, <<>>, out) = Shown!FoldLeft(Shown!Built, <<>>, emitted)
    /\ drain = "over" => Told(emitted, out)

-----------------------------------------------------------------------------
(* The wire shape of a payload.                                            *)
LEMMA PayloadTyped ==
    ASSUME Shown!ExtrasAssumption, NEW p \in Payloads
    PROVE  /\ p.type \in {"markdown", "table", "chart", "html"}
           /\ Shown!Wire(p) \in Arts /\ Shown!Wire(p).type \in {"text", "table", "chart", "html"}
<1>1. PICK s \in Show : p = Shown!Payload(s)  BY DEF Payloads
<1>2. s.tool \in {"markdown", "table", "chart", "file"}  BY DEF Shown!ExtrasAssumption
<1>3. p.type \in {"markdown", "table", "chart", "html"}
  <2>1. CASE s.tool = "markdown"  BY <1>1, <2>1 DEF Shown!Payload
  <2>2. CASE s.tool = "table"  BY <1>1, <2>2 DEF Shown!Payload
  <2>3. CASE s.tool = "chart"  BY <1>1, <2>3 DEF Shown!Payload
  <2>4. CASE s.tool = "file"  BY <1>1, <2>4 DEF Shown!Payload
  <2> QED  BY <1>2, <2>1, <2>2, <2>3, <2>4
<1>4. Shown!Wire(p).type = IF p.type = "markdown" THEN "text" ELSE p.type  BY DEF Shown!Wire
<1> QED  BY <1>3, <1>4 DEF Arts

(* The fields of an event, and of a frame.                                 *)
LEMMA EventTyped ==
    ASSUME NEW e \in Event
    PROVE  /\ e.type \in {"artifact", "citation", "text", "break", "call"}
           /\ e.type = "artifact" => e.payload \in Payloads
           /\ e.type = "citation" => e.c \in Shown!Citation
           /\ e.type = "text" => e.words \subseteq Word
  BY DEF Event

LEMMA FrameTyped ==
    ASSUME NEW f \in Frame
    PROVE  /\ f.kind \in {"row", "call", "text", "artifact", "citations"}
           /\ f.kind = "text" => f.words \subseteq Word
           /\ f.kind = "artifact" => f.artifact \in Arts
           /\ f.kind = "citations" => f.all \in Seq(Shown!Citation)
  BY DEF Frame

(* What the buffer holds depends on the first n events only.  One event    *)
(* more: it is no citation,                                                *)
LEMMA HeldSame ==
    ASSUME NEW e, NEW f, NEW n \in Nat, NEW cs, NEW ks, Held(e, n, cs, ks),
           \A i \in 1..n : f[i] = e[i]
    PROVE  Held(f, n, cs, ks)
<1>1. CitedBy(f, n) = CitedBy(e, n) /\ \A i \in CitedBy(e, n) : f[i] = e[i]  BY DEF CitedBy
<1>2. First(f, n) = First(e, n) /\ First(e, n) \subseteq CitedBy(e, n)  BY <1>1 DEF First
<1>3. {Shown!KeyOf(f[i].c) : i \in CitedBy(f, n)} = {Shown!KeyOf(e[i].c) : i \in CitedBy(e, n)}
      BY <1>1
<1>4. {f[i].c : i \in First(f, n)} = {e[i].c : i \in First(e, n)}  BY <1>1, <1>2
<1> QED  BY <1>3, <1>4 DEF Held

LEMMA HeldPast ==
    ASSUME NEW e, NEW n \in Nat, NEW cs, NEW ks, Held(e, n, cs, ks),
           e[n + 1].type # "citation"
    PROVE  Held(e, n + 1, cs, ks)
<1>1. CitedBy(e, n + 1) = CitedBy(e, n)
  <2>1. \A i \in 1..(n + 1) : i \in 1..n \/ i = n + 1  OBVIOUS
  <2>2. 1..n \subseteq 1..(n + 1)  OBVIOUS
  <2> QED  BY <2>1, <2>2 DEF CitedBy
<1>2. First(e, n + 1) = First(e, n)  BY <1>1 DEF First
<1> QED  BY <1>1, <1>2 DEF Held

(* or one of a source that was cited,                                      *)
LEMMA HeldAlready ==
    ASSUME NEW e, NEW n \in Nat, NEW cs, NEW ks, Held(e, n, cs, ks),
           e[n + 1].type = "citation", Shown!KeyOf(e[n + 1].c) \in ks
    PROVE  Held(e, n + 1, cs, ks)
<1>1. CitedBy(e, n + 1) = CitedBy(e, n) \cup {n + 1} /\ CitedBy(e, n) \subseteq 1..n
  <2>1. \A i \in 1..(n + 1) : i \in 1..n \/ i = n + 1  OBVIOUS
  <2>2. 1..n \subseteq 1..(n + 1) /\ n + 1 \in 1..(n + 1)  OBVIOUS
  <2> QED  BY <2>1, <2>2 DEF CitedBy
<1>2. PICK k \in CitedBy(e, n) : Shown!KeyOf(e[k].c) = Shown!KeyOf(e[n + 1].c)  BY DEF Held
<1>3. k < n + 1 /\ \A i \in CitedBy(e, n) : ~(n + 1 < i)  BY <1>1
<1>4. n + 1 \notin First(e, n + 1)  BY <1>1, <1>2, <1>3 DEF First
<1>5. First(e, n + 1) = First(e, n)  BY <1>1, <1>3, <1>4 DEF First
<1>6. {Shown!KeyOf(e[i].c) : i \in CitedBy(e, n + 1)} = {Shown!KeyOf(e[i].c) : i \in CitedBy(e, n)}
      BY <1>1, <1>2
<1> QED  BY <1>5, <1>6 DEF Held

(* or the first one of its source.                                         *)
LEMMA HeldNew ==
    ASSUME NEW e, NEW n \in Nat, NEW cs \in Seq(Shown!Citation), NEW ks, Held(e, n, cs, ks),
           e[n + 1].type = "citation", e[n + 1].c \in Shown!Citation, Shown!KeyOf(e[n + 1].c) \notin ks
    PROVE  Held(e, n + 1, Append(cs, e[n + 1].c), ks \cup {Shown!KeyOf(e[n + 1].c)})
<1> DEFINE c == e[n + 1].c
           ds == Append(cs, c)
<1>1. CitedBy(e, n + 1) = CitedBy(e, n) \cup {n + 1} /\ CitedBy(e, n) \subseteq 1..n
  <2>1. \A i \in 1..(n + 1) : i \in 1..n \/ i = n + 1  OBVIOUS
  <2>2. 1..n \subseteq 1..(n + 1) /\ n + 1 \in 1..(n + 1)  OBVIOUS
  <2> QED  BY <2>1, <2>2 DEF CitedBy
<1>2. \A k \in CitedBy(e, n) : Shown!KeyOf(e[k].c) # Shown!KeyOf(c)  BY DEF Held
<1>3. \A i \in CitedBy(e, n) : ~(n + 1 < i) /\ i < n + 1  BY <1>1
<1>4. n + 1 \in First(e, n + 1)  BY <1>1, <1>2 DEF First
<1>5. First(e, n + 1) = First(e, n) \cup {n + 1}  BY <1>1, <1>3, <1>4 DEF First
<1>6. {Shown!KeyOf(e[i].c) : i \in CitedBy(e, n + 1)} = ks \cup {Shown!KeyOf(c)}
  <2>1. {Shown!KeyOf(e[i].c) : i \in CitedBy(e, n) \cup {n + 1}}
            = {Shown!KeyOf(e[i].c) : i \in CitedBy(e, n)} \cup {Shown!KeyOf(c)}
        OBVIOUS
  <2> QED  BY <1>1, <2>1 DEF Held
<1>7. Len(ds) = Len(cs) + 1 /\ Len(cs) \in Nat /\ ds[Len(cs) + 1] = c
      /\ \A i \in 1..Len(cs) : ds[i] = cs[i]
      OBVIOUS
<1> HIDE DEF ds, c
<1>8. {ds[i] : i \in 1..Len(ds)} = {cs[i] : i \in 1..Len(cs)} \cup {c}
  <2>1. \A i \in 1..Len(ds) : i \in 1..Len(cs) \/ i = Len(cs) + 1  BY <1>7
  <2>2. Len(cs) + 1 \in 1..Len(ds) /\ 1..Len(cs) \subseteq 1..Len(ds)  BY <1>7
  <2> QED  BY <2>1, <2>2, <1>7
<1>9. {e[i].c : i \in First(e, n + 1)} = {e[i].c : i \in First(e, n)} \cup {c}
  <2>1. {e[i].c : i \in First(e, n) \cup {n + 1}} = {e[i].c : i \in First(e, n)} \cup {c}
        BY DEF c
  <2> QED  BY <1>5, <2>1
<1>10. {cs[i] : i \in 1..Len(cs)} = {e[i].c : i \in First(e, n)}  BY DEF Held
<1>11. \A i \in 1..Len(cs) : Shown!KeyOf(cs[i]) # Shown!KeyOf(c)
  <2>1. TAKE i \in 1..Len(cs)
  <2>2. PICK k \in First(e, n) : cs[i] = e[k].c  BY <1>10
  <2>3. k \in CitedBy(e, n)  BY <2>2 DEF First
  <2> QED  BY <1>2, <2>2, <2>3
<1>12. \A i, j \in 1..Len(ds) : Shown!KeyOf(ds[i]) = Shown!KeyOf(ds[j]) => i = j
  <2>1. TAKE i, j \in 1..Len(ds)
  <2>2. HAVE Shown!KeyOf(ds[i]) = Shown!KeyOf(ds[j])
  <2>3. \A k \in 1..Len(ds) : k \in 1..Len(cs) \/ k = Len(cs) + 1  BY <1>7
  <2>4. CASE i \in 1..Len(cs) /\ j \in 1..Len(cs)  BY <2>2, <2>4, <1>7 DEF Held
  <2>5. CASE i \in 1..Len(cs) /\ j = Len(cs) + 1  BY <2>2, <2>5, <1>7, <1>11
  <2>6. CASE j \in 1..Len(cs) /\ i = Len(cs) + 1  BY <2>2, <2>6, <1>7, <1>11
  <2>7. CASE i = Len(cs) + 1 /\ j = Len(cs) + 1  BY <2>7
  <2> QED  BY <2>3, <2>4, <2>5, <2>6, <2>7
<1>13. Held(e, n + 1, ds, ks \cup {Shown!KeyOf(c)})  BY <1>6, <1>8, <1>9, <1>10, <1>12 DEF Held
<1> QED  BY <1>13 DEF ds, c

(* One frame more shows its own words more.                                *)
LEMMA ShownOfAppend ==
    ASSUME NEW fs \in Seq(Frame), NEW f \in Frame
    PROVE  ShownIn(Append(fs, f)) = ShownIn(fs) \cup (IF f.kind = "text" THEN f.words
                                     ELSE IF f.kind = "artifact" THEN Shown!WordsOf(f.artifact) ELSE {})
<1> DEFINE gs == Append(fs, f)
           n == Len(fs)
<1>1. Len(gs) = n + 1 /\ n \in Nat /\ gs[n + 1] = f /\ \A i \in 1..n : gs[i] = fs[i]
      OBVIOUS
<1> HIDE DEF gs, n
<1>2. 1..(n + 1) = 1..n \cup {n + 1}  BY <1>1
<1>3. \A kind : {j \in 1..Len(gs) : gs[j].kind = kind}
                    = {j \in 1..n : fs[j].kind = kind} \cup (IF f.kind = kind THEN {n + 1} ELSE {})
      BY <1>1, <1>2
<1> DEFINE T == {j \in 1..n : fs[j].kind = "text"}
           A == {j \in 1..n : fs[j].kind = "artifact"}
<1>4. T \subseteq 1..n /\ A \subseteq 1..n  OBVIOUS
<1>5. {gs[i].words : i \in {j \in 1..Len(gs) : gs[j].kind = "text"}}
          = {fs[i].words : i \in T} \cup (IF f.kind = "text" THEN {f.words} ELSE {})
  <2> HIDE DEF T
  <2>1. {gs[i].words : i \in T} = {fs[i].words : i \in T}  BY <1>1, <1>4
  <2>2. {j \in 1..Len(gs) : gs[j].kind = "text"} = T \cup (IF f.kind = "text" THEN {n + 1} ELSE {})
        BY <1>3 DEF T
  <2> QED  BY <1>1, <2>1, <2>2
<1>6. {Shown!WordsOf(gs[i].artifact) : i \in {j \in 1..Len(gs) : gs[j].kind = "artifact"}}
          = {Shown!WordsOf(fs[i].artifact) : i \in A}
            \cup (IF f.kind = "artifact" THEN {Shown!WordsOf(f.artifact)} ELSE {})
  <2> HIDE DEF A
  <2>1. {Shown!WordsOf(gs[i].artifact) : i \in A} = {Shown!WordsOf(fs[i].artifact) : i \in A}  BY <1>1, <1>4
  <2>2. {j \in 1..Len(gs) : gs[j].kind = "artifact"}
            = A \cup (IF f.kind = "artifact" THEN {n + 1} ELSE {})
        BY <1>3 DEF A
  <2> QED  BY <1>1, <2>1, <2>2
<1>7. ShownIn(fs) = UNION ({fs[i].words : i \in T} \cup {Shown!WordsOf(fs[i].artifact) : i \in A})
      BY DEF ShownIn, n
<1>8. ShownIn(gs) = UNION ({fs[i].words : i \in T} \cup (IF f.kind = "text" THEN {f.words} ELSE {})
                           \cup {Shown!WordsOf(fs[i].artifact) : i \in A}
                           \cup (IF f.kind = "artifact" THEN {Shown!WordsOf(f.artifact)} ELSE {}))
      BY <1>5, <1>6 DEF ShownIn
<1> HIDE DEF T, A
<1>9. ShownIn(gs) = ShownIn(fs) \cup (IF f.kind = "text" THEN f.words
                                      ELSE IF f.kind = "artifact" THEN Shown!WordsOf(f.artifact) ELSE {})
  <2>1. CASE f.kind = "text"  BY <1>7, <1>8, <2>1
  <2>2. CASE f.kind = "artifact"  BY <1>7, <1>8, <2>2
  <2>3. CASE f.kind # "text" /\ f.kind # "artifact"  BY <1>7, <1>8, <2>3
  <2> QED  BY <2>1, <2>2, <2>3
<1> QED  BY <1>9 DEF gs

(* The choice has each citation of the buffer that is relevant, and none   *)
(* twice.                                                                  *)
LEMMA ChosenAre ==
    ASSUME NEW cs \in Seq(Shown!Citation),
           \A i, j \in 1..Len(cs) : Shown!KeyOf(cs[i]) = Shown!KeyOf(cs[j]) => i = j
    PROVE  LET kept == Shown!FoldLeft(Shown!Choose, <<>>, cs)
           IN  /\ kept \in Seq(Shown!Citation)
               /\ \A c : (\E i \in 1..Len(kept) : kept[i] = c)
                           <=> Shown!Relevant(c, noted) /\ \E i \in 1..Len(cs) : cs[i] = c
               /\ \A i, j \in 1..Len(kept) : kept[i] = kept[j] => i = j
<1> DEFINE Single(s) == \A i, j \in 1..Len(s) : Shown!KeyOf(s[i]) = Shown!KeyOf(s[j]) => i = j
           Are(s, k) == /\ \A c : (\E i \in 1..Len(k) : k[i] = c)
                                    <=> Shown!Relevant(c, noted) /\ \E i \in 1..Len(s) : s[i] = c
                        /\ \A i, j \in 1..Len(k) : k[i] = k[j] => i = j
           Holds == {p \in Seq(Shown!Citation) \X Seq(Shown!Citation) : Single(p[1]) => Are(p[1], p[2])}
<1> HIDE DEF Single, Are
<1>0. \A s, k \in Seq(Shown!Citation) : <<s, k>> \in Holds <=> (Single(s) => Are(s, k))  OBVIOUS
<1> HIDE DEF Holds
<1>1. <<<<>>, <<>>>> \in Holds
  <2>1. <<>> \in Seq(Shown!Citation) /\ Len(<<>>) = 0  OBVIOUS
  <2>2. Are(<<>>, <<>>)  BY <2>1 DEF Are
  <2> QED  BY <1>0, <2>1, <2>2
<1>2. ASSUME NEW s \in Seq(Shown!Citation), NEW e \in Shown!Citation, NEW k, <<s, k>> \in Holds
      PROVE  <<Append(s, e), Shown!Choose(k, e)>> \in Holds
  <2> DEFINE t == Append(s, e)
             l == Append(k, e)
  <2>1. k \in Seq(Shown!Citation) /\ (Single(s) => Are(s, k))
    <3>1. k \in Seq(Shown!Citation)  BY <1>2 DEF Holds
    <3> QED  BY <3>1, <1>0, <1>2
  <2>2. t \in Seq(Shown!Citation) /\ Len(t) = Len(s) + 1 /\ Len(s) \in Nat /\ t[Len(s) + 1] = e
        /\ \A i \in 1..Len(s) : t[i] = s[i]
        OBVIOUS
  <2>3. l \in Seq(Shown!Citation) /\ Len(l) = Len(k) + 1 /\ Len(k) \in Nat /\ l[Len(k) + 1] = e
        /\ \A i \in 1..Len(k) : l[i] = k[i]
        BY <2>1
  <2>4. Shown!Choose(k, e) = IF Shown!Relevant(e, noted) THEN l ELSE k  BY DEF Shown!Choose
  <2> HIDE DEF t, l
  <2> USE DEF Single, Are
  <2>5. ASSUME Single(t)  PROVE Are(t, Shown!Choose(k, e))
    <3>1. /\ \A i \in 1..Len(s) : i \in 1..Len(t)
          /\ Len(s) + 1 \in 1..Len(t)
          /\ \A i \in 1..Len(t) : i \in 1..Len(s) \/ i = Len(s) + 1
          BY <2>2
    <3>2. /\ \A i \in 1..Len(k) : i \in 1..Len(l)
          /\ Len(k) + 1 \in 1..Len(l)
          /\ \A i \in 1..Len(l) : i \in 1..Len(k) \/ i = Len(k) + 1
          BY <2>3
    <3>3. Single(s)  BY <2>2, <2>5, <3>1
    <3>4. Are(s, k)  BY <2>1, <3>3
    <3>5. \A i \in 1..Len(s) : s[i] # e
      <4>1. TAKE i \in 1..Len(s)
      <4>2. i # Len(s) + 1  BY <2>2
      <4> QED  BY <4>2, <2>2, <2>5, <3>1
    <3>6. \A c : (\E i \in 1..Len(t) : t[i] = c) <=> c = e \/ \E i \in 1..Len(s) : s[i] = c
          BY <2>2, <3>1
    <3>7. CASE Shown!Relevant(e, noted)
      <4>1. \A c : (\E i \in 1..Len(l) : l[i] = c) <=> c = e \/ \E i \in 1..Len(k) : k[i] = c
            BY <2>3, <3>2
      <4>2. \A i \in 1..Len(k) : k[i] # e  BY <3>4, <3>5
      <4>3. \A i, j \in 1..Len(l) : l[i] = l[j] => i = j
        <5>1. TAKE i, j \in 1..Len(l)
        <5>2. HAVE l[i] = l[j]
        <5>3. CASE i \in 1..Len(k) /\ j \in 1..Len(k)  BY <5>2, <5>3, <2>3, <3>4
        <5>4. CASE i \in 1..Len(k) /\ j = Len(k) + 1  BY <5>2, <5>4, <2>3, <4>2
        <5>5. CASE j \in 1..Len(k) /\ i = Len(k) + 1  BY <5>2, <5>5, <2>3, <4>2
        <5> QED  BY <5>3, <5>4, <5>5, <3>2
      <4>4. \A c : (\E i \in 1..Len(l) : l[i] = c)
                     <=> Shown!Relevant(c, noted) /\ \E i \in 1..Len(t) : t[i] = c
            BY <4>1, <3>4, <3>6, <3>7
      <4> QED  BY <2>4, <3>7, <4>3, <4>4
    <3>8. CASE ~Shown!Relevant(e, noted)
      <4>1. \A c : (\E i \in 1..Len(k) : k[i] = c)
                     <=> Shown!Relevant(c, noted) /\ \E i \in 1..Len(t) : t[i] = c
            BY <3>4, <3>6, <3>8
      <4> QED  BY <2>4, <3>4, <3>8, <4>1
    <3> QED  BY <3>7, <3>8
  <2> HIDE DEF Single, Are
  <2>6. Shown!Choose(k, e) \in Seq(Shown!Citation)  BY <2>1, <2>3, <2>4
  <2>7. <<t, Shown!Choose(k, e)>> \in Holds  BY <1>0, <2>2, <2>5, <2>6
  <2> QED  BY <2>7 DEF t
<1>3. \A s \in Seq(Shown!Citation) : <<s, Choosing!FoldLeft(Shown!Choose, <<>>, s)>> \in Holds
      BY <1>1, <1>2, Choosing!FoldInduction
<1>4. \A s : Shown!FoldLeft(Shown!Choose, <<>>, s) = Choosing!FoldLeft(Shown!Choose, <<>>, s)
      BY DEF Shown!FoldLeft, Shown!MapThenFoldSet, Choosing!FoldLeft, Choosing!MapThenFoldSet, Shown!Max, Choosing!Max
<1>5. <<cs, Shown!FoldLeft(Shown!Choose, <<>>, cs)>> \in Holds  BY <1>3, <1>4
<1>6. Shown!FoldLeft(Shown!Choose, <<>>, cs) \in Seq(Shown!Citation)  BY <1>5 DEF Holds
<1>7. Are(cs, Shown!FoldLeft(Shown!Choose, <<>>, cs))  BY <1>0, <1>5, <1>6 DEF Single
<1> QED  BY <1>6, <1>7 DEF Are

(* The order of the frames, and when it stays one.                         *)
Ordered(fs) ==
    \A i, j \in 1..Len(fs) : i < j =>
        /\ fs[i].kind # "citations"
        /\ fs[i].kind = "artifact" => fs[j].kind \in {"artifact", "citations"}

LEMMA OrderedOfAppend ==
    ASSUME NEW fs \in Seq(Frame), NEW f \in Frame, Ordered(fs),
           \A i \in 1..Len(fs) : /\ fs[i].kind # "citations"
                                 /\ fs[i].kind = "artifact" => f.kind \in {"artifact", "citations"}
    PROVE  Ordered(Append(fs, f))
<1> DEFINE gs == Append(fs, f)
<1>1. Len(gs) = Len(fs) + 1 /\ Len(fs) \in Nat /\ gs[Len(fs) + 1] = f
      /\ \A i \in 1..Len(fs) : gs[i] = fs[i]
      OBVIOUS
<1> HIDE DEF gs
<1>2. SUFFICES ASSUME NEW i \in 1..Len(gs), NEW j \in 1..Len(gs), i < j
               PROVE  /\ gs[i].kind # "citations"
                      /\ gs[i].kind = "artifact" => gs[j].kind \in {"artifact", "citations"}
      BY DEF Ordered, gs
<1>3. i \in 1..Len(fs) /\ (j \in 1..Len(fs) \/ j = Len(fs) + 1)  BY <1>1, <1>2
<1> QED  BY <1>1, <1>2, <1>3 DEF Ordered

(* One frame more:                                                         *)
LEMMA AppendTyped ==
    ASSUME NEW fs \in Seq(Frame), NEW f \in Frame, NEW K, f.kind \in K,
           \A i \in 1..Len(fs) : fs[i].kind \in K
    PROVE  /\ Append(fs, f) \in Seq(Frame) /\ Append(fs, f) = fs \o <<f>>
           /\ \A i \in 1..Len(Append(fs, f)) : Append(fs, f)[i].kind \in K
<1> DEFINE gs == Append(fs, f)
<1>1. gs \in Seq(Frame) /\ Len(gs) = Len(fs) + 1 /\ Len(fs) \in Nat /\ gs[Len(fs) + 1] = f
      /\ \A i \in 1..Len(fs) : gs[i] = fs[i]
      OBVIOUS
<1>2. gs = fs \o <<f>>  OBVIOUS
<1> HIDE DEF gs
<1>3. \A i \in 1..Len(gs) : i \in 1..Len(fs) \/ i = Len(fs) + 1  BY <1>1
<1>4. \A i \in 1..Len(gs) : gs[i].kind \in K  BY <1>1, <1>3
<1> QED  BY <1>1, <1>2, <1>4 DEF gs

(* and the artifacts among the frames.                                     *)
LEMMA GotMore ==
    \A fs \in Seq(Frame), f \in Frame :
        Shown!FoldLeft(Shown!Got, <<>>, Append(fs, f)) = Shown!Got(Shown!FoldLeft(Shown!Got, <<>>, fs), f)
  BY GotOfAppend

LEMMA GotTyped == \A fs \in Seq(Frame) : Shown!FoldLeft(Shown!Got, <<>>, fs) \in Seq(Arts)
<1> DEFINE T == {fs \in Seq(Frame) : Shown!FoldLeft(Shown!Got, <<>>, fs) \in Seq(Arts)}
<1>1. <<>> \in T
  <2>1. <<>> \in Seq(Frame) /\ <<>> \in Seq(Arts)  OBVIOUS
  <2> QED  BY <2>1, GotOfEmpty
<1>2. ASSUME NEW fs \in Seq(Frame), NEW f \in Frame, fs \in T  PROVE Append(fs, f) \in T
  <2>1. Shown!FoldLeft(Shown!Got, <<>>, Append(fs, f)) = Shown!Got(Shown!FoldLeft(Shown!Got, <<>>, fs), f)  BY GotMore
  <2>2. Shown!FoldLeft(Shown!Got, <<>>, fs) \in Seq(Arts)  BY <1>2
  <2>3. \A g \in Seq(Arts) : Shown!Got(g, f) \in Seq(Arts)
    <3>1. TAKE g \in Seq(Arts)
    <3>2. f.kind = "artifact" => f.artifact \in Arts  BY FrameTyped
    <3>3. Shown!Got(g, f) = IF f.kind = "artifact" THEN Append(g, f.artifact) ELSE g  BY DEF Shown!Got
    <3> QED  BY <3>2, <3>3
  <2>4. Append(fs, f) \in Seq(Frame)  OBVIOUS
  <2> QED  BY <2>1, <2>2, <2>3, <2>4
<1> HIDE DEF T
<1>3. Seq(Frame) \subseteq T  BY <1>1, <1>2, Cutting!SequenceInduction
<1> QED  BY <1>3 DEF T

(* A preface becomes a step, and steps are no artifacts.                   *)
LEMMA RowsKeep ==
    ASSUME NEW fs \in Seq(Frame), \A i \in 1..Len(fs) : fs[i].kind = "row",
           Shown!FoldLeft(Shown!Got, <<>>, fs) = <<>>, NEW words, NEW gs,
           gs = fs \o (IF words = {} THEN <<>> ELSE <<[kind |-> "row"]>>)
    PROVE  /\ gs \in Seq(Frame) /\ Shown!FoldLeft(Shown!Got, <<>>, gs) = <<>>
           /\ \A i \in 1..Len(gs) : gs[i].kind = "row"
<1>1. CASE words = {}
  <2>1. gs = fs  BY <1>1
  <2> QED  BY <2>1
<1>2. CASE words # {}
  <2>1. PICK f \in Frame : f = [kind |-> "row"]  BY DEF Frame
  <2>2. gs = fs \o <<f>> /\ f.kind = "row"  BY <1>2, <2>1
  <2>3. Append(fs, f) \in Seq(Frame) /\ Append(fs, f) = gs
        /\ \A i \in 1..Len(Append(fs, f)) : Append(fs, f)[i].kind \in {"row"}
        BY <2>2, AppendTyped
  <2>4. Shown!FoldLeft(Shown!Got, <<>>, Append(fs, f)) = Shown!Got(Shown!FoldLeft(Shown!Got, <<>>, fs), f)
        BY GotMore
  <2>5. Shown!Got(<<>>, f) = <<>>  BY <2>2 DEF Shown!Got
  <2> QED  BY <2>3, <2>4, <2>5
<1> QED  BY <1>1, <1>2

LEMMA RowsOrdered ==
    ASSUME NEW fs \in Seq(Frame), \A i \in 1..Len(fs) : fs[i].kind = "row"
    PROVE  Ordered(fs)
  BY DEF Ordered

-----------------------------------------------------------------------------
(* The invariant holds at first.                                           *)
LEMMA ExtrasStart == ASSUME Shown!ExtrasAssumption, Shown!Init  PROVE ExtrasInv
<1>1. <<>> \in Seq(Event) /\ <<>> \in Seq(Arts) /\ <<>> \in Seq(Shown!Citation) /\ <<>> \in Seq(Frame)
      /\ Len(<<>>) = 0
      OBVIOUS
<1>2. ExtrasTypes  BY <1>1 DEF ExtrasTypes, Shown!Init, Shown!ExtrasAssumption
<1>3. Shown!FoldLeft(Shown!Got, <<>>, <<>>) = <<>> /\ Shown!FoldLeft(Shown!Built, <<>>, <<>>) = <<>>
      BY GotOfEmpty, BuiltOfEmpty
<1>4. Reading  BY <1>1, <1>3 DEF Reading, Shown!Init
<1>5. Held(<<>>, 0, <<>>, {})  BY <1>1 DEF Held, CitedBy, First
<1>6. Held(emitted, Len(emitted) - Len(stream), citations, keys)  BY <1>1, <1>5 DEF Shown!Init
<1>7. Shown!TailIsOrdered  BY <1>1 DEF Shown!Init, Shown!TailIsOrdered
<1> QED  BY <1>1, <1>2, <1>4, <1>6, <1>7 DEF ExtrasInv, Shown!Init

(* The tools emit: one event more to come.                                 *)
LEMMA EmitsKeeps ==
    ASSUME ExtrasInv, NEW e \in Event, Shown!Working, Shown!Emits(e), UNCHANGED <<agent, Shown!adapter, out>>,
           cited' \subseteq Page \cup (Backed \X {0}), Shown!ExtrasAssumption
    PROVE  ExtrasInv'
<1> DEFINE n == Len(emitted) - Len(stream)
<1>1. drain = "reading" /\ agent = "running" /\ Len(emitted) < MaxEmits
      /\ stream' = Append(stream, e) /\ emitted' = Append(emitted, e)
      BY DEF Shown!Working, Shown!Emits
<1>2. UNCHANGED <<agent, drain, prose, artifacts, citations, keys, noted, out>>  BY DEF Shown!adapter
<1>3. ExtrasTypes /\ Shown!TailIsOrdered /\ Held(emitted, n, citations, keys) /\ Reading
      /\ \A i \in 1..Len(citations) : Shown!KeyOf(citations[i]) \in keys
      BY <1>1 DEF ExtrasInv
<1>4. emitted \in Seq(Event) /\ stream \in Seq(Event) /\ Len(emitted) \in Nat /\ Len(stream) \in Nat
      /\ Len(stream) <= Len(emitted)
      /\ \A i \in 1..Len(stream) : stream[i] = emitted[Len(emitted) - Len(stream) + i]
  <2>1. emitted \in Seq(Event) /\ stream \in Seq(Event)  BY <1>3 DEF ExtrasTypes
  <2>2. Len(emitted) \in Nat /\ Len(stream) \in Nat  BY <2>1
  <2>3. Len(stream) <= Len(emitted)
        /\ \A i \in 1..Len(stream) : stream[i] = emitted[Len(emitted) - Len(stream) + i]
        BY <1>3 DEF ExtrasTypes
  <2> QED  BY <2>1, <2>2, <2>3
<1>5. /\ emitted' \in Seq(Event) /\ Len(emitted') = Len(emitted) + 1
      /\ emitted'[Len(emitted) + 1] = e /\ \A i \in 1..Len(emitted) : emitted'[i] = emitted[i]
      BY <1>1, <1>4
<1>6. /\ stream' \in Seq(Event) /\ Len(stream') = Len(stream) + 1
      /\ stream'[Len(stream) + 1] = e /\ \A i \in 1..Len(stream) : stream'[i] = stream[i]
      BY <1>1, <1>4
<1>7. n \in Nat /\ n = Len(emitted') - Len(stream') /\ Len(emitted') <= MaxEmits
      BY <1>1, <1>4, <1>5, <1>6 DEF Shown!ExtrasAssumption
<1>8. \A i \in 1..Len(stream') : stream'[i] = emitted'[n + i]
  <2>1. TAKE i \in 1..Len(stream')
  <2>2. CASE i \in 1..Len(stream)
    <3>1. n + i \in 1..Len(emitted)  BY <2>2, <1>4
    <3> QED  BY <2>2, <3>1, <1>4, <1>5, <1>6
  <2>3. CASE i = Len(stream) + 1
    <3>1. n + i = Len(emitted) + 1  BY <2>3, <1>4
    <3> QED  BY <2>3, <3>1, <1>5, <1>6
  <2> QED  BY <2>2, <2>3, <1>6, <1>4
<1>9. ExtrasTypes'
  <2>1. /\ Len(stream') <= Len(emitted')
        /\ \A i \in 1..Len(stream') : stream'[i] = emitted'[Len(emitted') - Len(stream') + i]
        BY <1>4, <1>5, <1>6, <1>7, <1>8
  <2> QED  BY <2>1, <1>2, <1>3, <1>5, <1>6, <1>7 DEF ExtrasTypes
<1>10. Held(emitted', n, citations, keys)
  <2>1. \A i \in 1..n : emitted'[i] = emitted[i]  BY <1>4, <1>5
  <2> HIDE DEF n
  <2> QED  BY <2>1, <1>3, <1>7, HeldSame
<1>11. Reading'
  <2>1. Shown!FoldLeft(Shown!Built, artifacts, Append(stream, e)) = Shown!Built(Shown!FoldLeft(Shown!Built, artifacts, stream), e)
        BY <1>4, BuiltOfAppend
  <2>2. Shown!FoldLeft(Shown!Built, <<>>, Append(emitted, e)) = Shown!Built(Shown!FoldLeft(Shown!Built, <<>>, emitted), e)
        BY <1>4, BuiltOfAppend
  <2> QED  BY <1>1, <1>2, <1>3, <2>1, <2>2 DEF Reading
<1> QED  BY <1>1, <1>2, <1>3, <1>7, <1>9, <1>10, <1>11
         DEF ExtrasInv, Shown!TailIsOrdered

(* The citations of the tools.                                             *)
LEMMA CitedTyped ==
    ASSUME Shown!ExtrasAssumption
    PROVE  /\ \A h \in Hit : Shown!Source(h) \in Shown!Citation
           /\ \A p \in Page : [widget |-> IF p[1] \in Backed THEN p[1] ELSE None, page |-> p,
                               url |-> None, text |-> None, title |-> {}] \in Shown!Citation
           /\ \A w \in Backed : [widget |-> w, page |-> None, url |-> None, text |-> None,
                                 title |-> {}] \in Shown!Citation
  BY DEF Shown!Source, Shown!Citation, Shown!ExtrasAssumption

(* Each of the steps of the tools and of the agent:                        *)
LEMMA EmittingHolds ==
    ASSUME ExtrasInv, Shown!ExtrasAssumption,
           \/ \E s \in Show : Shown!EmitArtifact(s)
           \/ \E h \in Hit : Shown!CiteWeb(h)
           \/ \E p \in Page : Shown!CitePage(p)
           \/ \E w \in Backed : Shown!CiteWidget(w)
           \/ \E w \in Word : Shown!Say({w})
           \/ \E kind \in {"break", "call"} : Shown!Break(kind)
    PROVE  ExtrasInv'
<1>0. cited \subseteq Page \cup (Backed \X {0})  BY DEF ExtrasInv, ExtrasTypes
<1>1. ASSUME NEW s \in Show, Shown!EmitArtifact(s)  PROVE ExtrasInv'
  <2>1. [type |-> "artifact", payload |-> Shown!Payload(s)] \in Event  BY DEF Event, Payloads
  <2> QED  BY <1>0, <1>1, <2>1, EmitsKeeps DEF Shown!EmitArtifact
<1>2. ASSUME NEW c \in Shown!Citation, Shown!Cites(c), Shown!Working, UNCHANGED <<agent, Shown!adapter, out>>,
             cited' \subseteq Page \cup (Backed \X {0})
      PROVE  ExtrasInv'
  <2>1. [type |-> "citation", c |-> c] \in Event  BY DEF Event
  <2> QED  BY <1>2, <2>1, EmitsKeeps DEF Shown!Cites
<1>3. ASSUME NEW h \in Hit, Shown!CiteWeb(h)  PROVE ExtrasInv'
  <2>1. Shown!Source(h) \in Shown!Citation  BY CitedTyped
  <2> QED  BY <1>0, <1>2, <1>3, <2>1 DEF Shown!CiteWeb
<1>4. ASSUME NEW p \in Page, Shown!CitePage(p)  PROVE ExtrasInv'
  <2> DEFINE c == [widget |-> IF p[1] \in Backed THEN p[1] ELSE None, page |-> p,
                   url |-> None, text |-> None, title |-> {}]
  <2>1. c \in Shown!Citation  BY CitedTyped
  <2>2. Shown!Working /\ Shown!Cites(c) /\ cited' = cited \cup {p} /\ UNCHANGED <<agent, Shown!adapter, out>>
        BY <1>4 DEF Shown!CitePage
  <2> HIDE DEF c
  <2> QED  BY <1>0, <1>2, <2>1, <2>2
<1>5. ASSUME NEW w \in Backed, Shown!CiteWidget(w)  PROVE ExtrasInv'
  <2> DEFINE c == [widget |-> w, page |-> None, url |-> None, text |-> None, title |-> {}]
  <2>1. c \in Shown!Citation  BY CitedTyped
  <2>2. Shown!Working /\ Shown!Cites(c) /\ cited' = cited \cup {<<w, 0>>} /\ UNCHANGED <<agent, Shown!adapter, out>>
        BY <1>5 DEF Shown!CiteWidget
  <2> HIDE DEF c
  <2> QED  BY <1>0, <1>2, <2>1, <2>2
<1>6. ASSUME NEW w \in Word, Shown!Say({w})  PROVE ExtrasInv'
  <2>1. [type |-> "text", words |-> {w}] \in Event  BY DEF Event
  <2> QED  BY <1>0, <1>6, <2>1, EmitsKeeps DEF Shown!Say
<1>7. ASSUME NEW kind \in {"break", "call"}, Shown!Break(kind)  PROVE ExtrasInv'
  <2>1. [type |-> kind] \in Event  BY DEF Event
  <2> QED  BY <1>0, <1>7, <2>1, EmitsKeeps DEF Shown!Break
<1> QED  BY <1>1, <1>3, <1>4, <1>5, <1>6, <1>7

(* the agent ends or fails;                                                *)
LEMMA StopHolds ==
    ASSUME ExtrasInv, NEW how \in {"done", "failed"}, Shown!Stop(how)  PROVE ExtrasInv'
<1>1. UNCHANGED <<stream, emitted, cited, drain, prose, artifacts, citations, keys, noted, out>>
      /\ agent' = how
      BY DEF Shown!Stop, Shown!adapter
<1>2. ExtrasTypes'  BY <1>1 DEF ExtrasInv, ExtrasTypes
<1>3. Shown!TailIsOrdered'  BY <1>1 DEF ExtrasInv, Shown!TailIsOrdered
<1>4. (drain = "reading" => Reading)' /\ (drain = "draining" => Draining)'
      BY <1>1 DEF ExtrasInv, Reading, Draining
<1>5. /\ (drain \in {"reading", "draining"} =>
             Held(emitted, Len(emitted) - Len(stream), citations, keys))'
      /\ (\A i \in 1..Len(citations) : Shown!KeyOf(citations[i]) \in keys)'
      /\ (drain = "over" => Shown!FoldLeft(Shown!Got, <<>>, out) = Shown!FoldLeft(Shown!Built, <<>>, emitted))'
      /\ (drain = "over" => Told(emitted, out))'
      BY <1>1 DEF ExtrasInv
<1> QED  BY <1>2, <1>3, <1>4, <1>5 DEF ExtrasInv

(* and the generator unwinds, after which nothing is promised.             *)
LEMMA UnwindHolds == ASSUME ExtrasInv, Shown!Unwind  PROVE ExtrasInv'
<1>1. UNCHANGED <<stream, emitted, cited, agent, prose, artifacts, citations, keys, noted, out>>
      /\ drain' = "left"
      BY DEF Shown!Unwind, Shown!tools
<1> QED  BY <1>1 DEF ExtrasInv, ExtrasTypes, Shown!TailIsOrdered

-----------------------------------------------------------------------------
(* The adapter takes an event, and what was held when it took the one      *)
(* before is held still:                                                   *)
LEMMA TakenKeeps ==
    ASSUME ExtrasInv, NEW type, Shown!Taken(type)
    PROVE  /\ drain = "reading" /\ Head(stream) \in Event /\ Head(stream).type = type
           /\ UNCHANGED <<emitted, cited, agent>>
           /\ stream' \in Seq(Event) /\ emitted \in Seq(Event)
           /\ Len(stream') <= Len(emitted) /\ Len(emitted) <= MaxEmits
           /\ \A i \in 1..Len(stream') : stream'[i] = emitted[Len(emitted) - Len(stream') + i]
           /\ \E n \in Nat : /\ n = Len(emitted) - Len(stream)
                             /\ n + 1 = Len(emitted) - Len(stream')
                             /\ emitted[n + 1] = Head(stream)
           /\ Shown!FoldLeft(Shown!Built, artifacts, stream)
                 = Shown!FoldLeft(Shown!Built, Shown!Built(artifacts, Head(stream)), stream')
<1>1. drain = "reading" /\ stream # <<>> /\ Head(stream).type = type /\ stream' = Tail(stream)
      /\ UNCHANGED <<emitted, cited, agent>>
      BY DEF Shown!Taken
<1>2. emitted \in Seq(Event) /\ stream \in Seq(Event) /\ Len(emitted) \in Nat /\ Len(stream) \in Nat
      /\ Len(stream) <= Len(emitted) /\ Len(emitted) <= MaxEmits
      /\ \A i \in 1..Len(stream) : stream[i] = emitted[Len(emitted) - Len(stream) + i]
      BY DEF ExtrasInv, ExtrasTypes
<1>3. Head(stream) \in Event /\ stream' \in Seq(Event) /\ Len(stream') = Len(stream) - 1
      /\ \A i \in 1..Len(stream') : stream'[i] = stream[i + 1]
      BY <1>1, <1>2, HeadTailProperties
<1>4. Len(stream) >= 1 /\ Head(stream) = stream[1]  BY <1>1, <1>2
<1>5. \A i \in 1..Len(stream') : stream'[i] = emitted[Len(emitted) - Len(stream') + i]
  <2>1. TAKE i \in 1..Len(stream')
  <2>2. i + 1 \in 1..Len(stream)  BY <1>2, <1>3
  <2>3. stream'[i] = emitted[Len(emitted) - Len(stream) + (i + 1)]  BY <1>2, <1>3, <2>2
  <2>4. Len(emitted) - Len(stream) + (i + 1) = Len(emitted) - Len(stream') + i  BY <1>2, <1>3, <2>2
  <2> QED  BY <2>3, <2>4
<1>6. \E n \in Nat : /\ n = Len(emitted) - Len(stream)
                     /\ n + 1 = Len(emitted) - Len(stream')
                     /\ emitted[n + 1] = Head(stream)
  <2>1. 1 \in 1..Len(stream)  BY <1>2, <1>4
  <2>2. Head(stream) = emitted[Len(emitted) - Len(stream) + 1]  BY <1>2, <1>4, <2>1
  <2>3. Len(emitted) - Len(stream) \in Nat
        /\ Len(emitted) - Len(stream) + 1 = Len(emitted) - Len(stream')
        BY <1>2, <1>3
  <2>4. PICK n \in Nat : n = Len(emitted) - Len(stream)  BY <2>3
  <2> QED  BY <2>2, <2>3, <2>4
<1>7. Shown!FoldLeft(Shown!Built, artifacts, stream)
          = Shown!FoldLeft(Shown!Built, Shown!Built(artifacts, Head(stream)), Tail(stream))
      BY <1>1, <1>2, BuiltOfTail
<1>8. Len(stream') <= Len(emitted)  BY <1>2, <1>3
<1> QED  BY <1>1, <1>2, <1>3, <1>5, <1>6, <1>7, <1>8
(* and what is left of the invariant while it reads.                       *)
LEMMA TakingKeeps ==
    ASSUME ExtrasInv, NEW type, Shown!Taken(type), type # "citation", Shown!Built(artifacts, Head(stream)) = artifacts',
           UNCHANGED <<drain, citations, keys, noted>>, artifacts' \in Seq(Arts),
           prose' \subseteq Word, out' \in Seq(Frame),
           \A i \in 1..Len(out') : out'[i].kind = "row", Shown!FoldLeft(Shown!Got, <<>>, out') = <<>>
    PROVE  ExtrasInv'
<1>1. /\ drain = "reading" /\ drain' = "reading" /\ Head(stream) \in Event /\ Head(stream).type = type
      /\ UNCHANGED <<emitted, cited, agent>>
      /\ stream' \in Seq(Event) /\ emitted \in Seq(Event)
      /\ Len(stream') <= Len(emitted) /\ Len(emitted) <= MaxEmits
      /\ \A i \in 1..Len(stream') : stream'[i] = emitted[Len(emitted) - Len(stream') + i]
      /\ Shown!FoldLeft(Shown!Built, artifacts, stream)
            = Shown!FoldLeft(Shown!Built, Shown!Built(artifacts, Head(stream)), stream')
      BY TakenKeeps
<1>2. PICK n \in Nat : /\ n = Len(emitted) - Len(stream)
                       /\ n + 1 = Len(emitted) - Len(stream')
                       /\ emitted[n + 1] = Head(stream)
      BY TakenKeeps
<1>3. ExtrasTypes'  BY <1>1 DEF ExtrasInv, ExtrasTypes
<1>4. Shown!TailIsOrdered'  BY DEF Shown!TailIsOrdered
<1>5. Held(emitted, n, citations, keys)  BY <1>1, <1>2 DEF ExtrasInv
<1>6. Held(emitted, n + 1, citations, keys)  BY <1>1, <1>2, <1>5, HeldPast
<1>7. Reading'
  <2>1. Shown!FoldLeft(Shown!Built, artifacts', stream') = Shown!FoldLeft(Shown!Built, <<>>, emitted) /\ noted = {}
        BY <1>1 DEF ExtrasInv, Reading
  <2> QED  BY <1>1, <2>1 DEF Reading
<1> QED  BY <1>1, <1>2, <1>3, <1>4, <1>6, <1>7 DEF ExtrasInv

(* While it reads, it has sent steps only.                                 *)
LEMMA RowsNow ==
    ASSUME ExtrasInv, drain = "reading"
    PROVE  /\ out \in Seq(Frame) /\ Shown!FoldLeft(Shown!Got, <<>>, out) = <<>>
           /\ \A i \in 1..Len(out) : out[i].kind = "row"
           /\ prose \subseteq Word /\ artifacts \in Seq(Arts)
  BY DEF ExtrasInv, ExtrasTypes, Reading

(* An artifact, which is built or is not;                                  *)
LEMMA TakeArtifactHolds == ASSUME ExtrasInv, Shown!ExtrasAssumption, Shown!TakeArtifact  PROVE ExtrasInv'
<1> DEFINE p == Head(stream).payload
<1>1. Shown!Taken("artifact") /\ UNCHANGED <<drain, prose, citations, keys, noted, out>>
      /\ artifacts' = IF Shown!Builds(p) THEN Append(artifacts, Shown!Wire(p)) ELSE artifacts
      BY DEF Shown!TakeArtifact
<1>2. drain = "reading" /\ Head(stream) \in Event /\ Head(stream).type = "artifact"
      BY <1>1, TakenKeeps
<1>3. p \in Payloads  BY <1>2, EventTyped
<1>4. Shown!Built(artifacts, Head(stream)) = artifacts'  BY <1>1, <1>2 DEF Shown!Built
<1>5. Shown!Wire(p) \in Arts  BY <1>3, PayloadTyped
<1> HIDE DEF p
<1>6. artifacts' \in Seq(Arts)  BY <1>1, <1>2, <1>5, RowsNow
<1> QED  BY <1>1, <1>2, <1>4, <1>6, RowsNow, TakingKeeps

(* a text;                                                                 *)
LEMMA TakeTextHolds == ASSUME ExtrasInv, Shown!TakeText  PROVE ExtrasInv'
<1>1. Shown!Taken("text") /\ UNCHANGED <<drain, artifacts, citations, keys, noted, out>>
      /\ prose' = prose \cup Head(stream).words
      BY DEF Shown!TakeText
<1>2. drain = "reading" /\ Head(stream) \in Event /\ Head(stream).type = "text"
      BY <1>1, TakenKeeps
<1>3. Head(stream).words \subseteq Word  BY <1>2, EventTyped
<1>4. prose' \subseteq Word  BY <1>1, <1>2, <1>3, RowsNow
<1>5. Shown!Built(artifacts, Head(stream)) = artifacts'  BY <1>1, <1>2 DEF Shown!Built
<1> QED  BY <1>1, <1>2, <1>4, <1>5, RowsNow, TakingKeeps

(* the break after a preface;                                              *)
LEMMA TakeBreakHolds == ASSUME ExtrasInv, Shown!TakeBreak  PROVE ExtrasInv'
<1>1. Shown!Taken("break") /\ UNCHANGED <<drain, artifacts, citations, keys, noted>> /\ prose' = {}
      /\ out' = out \o (IF prose = {} THEN <<>> ELSE <<[kind |-> "row"]>>)
      BY DEF Shown!TakeBreak, Shown!Flush, Shown!Sends
<1>2. drain = "reading" /\ Head(stream).type = "break"  BY <1>1, TakenKeeps
<1>3. /\ out' \in Seq(Frame) /\ Shown!FoldLeft(Shown!Got, <<>>, out') = <<>>
      /\ \A i \in 1..Len(out') : out'[i].kind = "row"
      BY <1>1, <1>2, RowsNow, RowsKeep
<1>4. Shown!Built(artifacts, Head(stream)) = artifacts'  BY <1>1, <1>2 DEF Shown!Built
<1> QED  BY <1>1, <1>2, <1>3, <1>4, RowsNow, TakingKeeps

(* a citation;                                                             *)
LEMMA TakeCitationHolds == ASSUME ExtrasInv, Shown!TakeCitation  PROVE ExtrasInv'
<1> DEFINE c == Head(stream).c
<1>1. Shown!Taken("citation") /\ UNCHANGED <<drain, prose, artifacts, noted, out>> /\ Shown!Absorb(c)
      BY DEF Shown!TakeCitation
<1>2. /\ drain = "reading" /\ drain' = "reading" /\ Head(stream) \in Event
      /\ Head(stream).type = "citation"
      /\ UNCHANGED <<emitted, cited, agent>>
      /\ stream' \in Seq(Event) /\ emitted \in Seq(Event)
      /\ Len(stream') <= Len(emitted) /\ Len(emitted) <= MaxEmits
      /\ \A i \in 1..Len(stream') : stream'[i] = emitted[Len(emitted) - Len(stream') + i]
      /\ Shown!FoldLeft(Shown!Built, artifacts, stream)
            = Shown!FoldLeft(Shown!Built, Shown!Built(artifacts, Head(stream)), stream')
      BY <1>1, TakenKeeps
<1>3. PICK n \in Nat : /\ n = Len(emitted) - Len(stream)
                       /\ n + 1 = Len(emitted) - Len(stream')
                       /\ emitted[n + 1] = Head(stream)
      BY <1>1, TakenKeeps
<1>4. c \in Shown!Citation  BY <1>2, EventTyped
<1>5. citations \in Seq(Shown!Citation) /\ \A i \in 1..Len(citations) : Shown!KeyOf(citations[i]) \in keys
      BY DEF ExtrasInv, ExtrasTypes
<1>6. Held(emitted, n, citations, keys)  BY <1>2, <1>3 DEF ExtrasInv
<1>7. emitted[n + 1].type = "citation" /\ emitted[n + 1].c = c  BY <1>2, <1>3
<1> HIDE DEF c
<1>8. /\ citations' \in Seq(Shown!Citation) /\ Held(emitted, n + 1, citations', keys')
      /\ \A i \in 1..Len(citations') : Shown!KeyOf(citations'[i]) \in keys'
  <2>1. CASE Shown!KeyOf(c) \in keys
    <3>1. UNCHANGED <<keys, citations>>  BY <1>1, <2>1 DEF Shown!Absorb
    <3>2. Held(emitted, n + 1, citations, keys)  BY <1>6, <1>7, <2>1, HeldAlready
    <3> QED  BY <1>5, <3>1, <3>2
  <2>2. CASE Shown!KeyOf(c) \notin keys
    <3>1. keys' = keys \cup {Shown!KeyOf(c)} /\ citations' = Append(citations, c)
          BY <1>1, <2>2 DEF Shown!Absorb
    <3>2. Held(emitted, n + 1, Append(citations, emitted[n + 1].c), keys \cup {Shown!KeyOf(emitted[n + 1].c)})
          BY <1>4, <1>5, <1>6, <1>7, <2>2, HeldNew
    <3>3. citations' \in Seq(Shown!Citation) /\ Len(citations') = Len(citations) + 1
          /\ citations'[Len(citations) + 1] = c /\ Len(citations) \in Nat
          /\ \A i \in 1..Len(citations) : citations'[i] = citations[i]
          BY <1>4, <1>5, <3>1
    <3>4. \A i \in 1..Len(citations') : Shown!KeyOf(citations'[i]) \in keys'
      <4>1. TAKE i \in 1..Len(citations')
      <4>2. i \in 1..Len(citations) \/ i = Len(citations) + 1  BY <3>3
      <4> QED  BY <1>5, <3>1, <3>3, <4>2
    <3> QED  BY <1>7, <3>1, <3>2, <3>3, <3>4
  <2> QED  BY <2>1, <2>2
<1>9. ExtrasTypes'  BY <1>1, <1>2, <1>8 DEF ExtrasInv, ExtrasTypes
<1>10. Shown!Built(artifacts, Head(stream)) = artifacts  BY <1>2 DEF Shown!Built
<1>11. Reading'  BY <1>1, <1>2, <1>10 DEF ExtrasInv, Reading
<1>12. Shown!TailIsOrdered'  BY <1>1 DEF ExtrasInv, Shown!TailIsOrdered
<1> QED  BY <1>2, <1>3, <1>8, <1>9, <1>11, <1>12 DEF ExtrasInv

(* and a call that the client runs.                                        *)
LEMMA TakeCallHolds == ASSUME ExtrasInv, Shown!TakeCall  PROVE ExtrasInv'
<1> DEFINE r == IF prose = {} THEN <<>> ELSE <<[kind |-> "row"]>>
           gs == out \o r
           f == [kind |-> "call"]
<1>1. Shown!Taken("call") /\ drain' = "left" /\ prose' = {} /\ out' = out \o (r \o <<f>>)
      /\ UNCHANGED <<artifacts, citations, keys, noted>>
      BY DEF Shown!TakeCall, Shown!Sends
<1>2. /\ drain = "reading" /\ UNCHANGED <<emitted, cited, agent>>
      /\ stream' \in Seq(Event) /\ emitted \in Seq(Event)
      /\ Len(stream') <= Len(emitted) /\ Len(emitted) <= MaxEmits
      /\ \A i \in 1..Len(stream') : stream'[i] = emitted[Len(emitted) - Len(stream') + i]
      BY <1>1, TakenKeeps
<1>3. gs \in Seq(Frame) /\ \A i \in 1..Len(gs) : gs[i].kind = "row"
  <2>1. SUFFICES ASSUME NEW h, h = out \o (IF prose = {} THEN <<>> ELSE <<[kind |-> "row"]>>)
                 PROVE  h \in Seq(Frame) /\ \A i \in 1..Len(h) : h[i].kind = "row"
        OBVIOUS
  <2>2. out \in Seq(Frame) /\ Shown!FoldLeft(Shown!Got, <<>>, out) = <<>>
        /\ \A i \in 1..Len(out) : out[i].kind = "row"
        BY <1>2, RowsNow
  <2> HIDE DEF r, gs, f
  <2> QED  BY <2>1, <2>2, RowsKeep
<1>4. f \in Frame /\ f.kind = "call"  BY DEF Frame
<1>5. out' = Append(gs, f)
  <2>1. [kind |-> "row"] \in Frame  BY DEF Frame
  <2>2. r \in Seq(Frame) /\ out \in Seq(Frame) /\ <<f>> \in Seq(Frame)  BY <1>2, <1>4, <2>1, RowsNow
  <2> HIDE DEF r, f
  <2>3. out \o (r \o <<f>>) = (out \o r) \o <<f>>  BY <2>2, ConcatAssociative
  <2>4. Append(out \o r, f) = (out \o r) \o <<f>>  BY <2>2, <1>3, <1>4, AppendIsConcat
  <2> QED  BY <1>1, <2>3, <2>4
<1> HIDE DEF gs, f
<1>6. out' \in Seq(Frame) /\ Ordered(out')
  <2>1. Ordered(gs)  BY <1>3, RowsOrdered
  <2>2. Ordered(Append(gs, f))  BY <1>3, <1>4, <2>1, OrderedOfAppend
  <2> QED  BY <1>3, <1>4, <1>5, <2>2
<1>7. ExtrasTypes'  BY <1>1, <1>2, <1>6 DEF ExtrasInv, ExtrasTypes
<1>8. Shown!TailIsOrdered'  BY <1>6 DEF Shown!TailIsOrdered, Ordered
<1>9. (\A i \in 1..Len(citations) : Shown!KeyOf(citations[i]) \in keys)'  BY <1>1 DEF ExtrasInv
<1> QED  BY <1>1, <1>7, <1>8, <1>9 DEF ExtrasInv

-----------------------------------------------------------------------------
(* One frame of the end.                                                   *)
LEMMA FrameSent ==
    ASSUME NEW fs \in Seq(Frame), NEW f \in Frame, f.kind \in {"text", "artifact"},
           \A i \in 1..Len(fs) : fs[i].kind \in {"row", "text", "artifact"},
           f.kind = "text" => \A i \in 1..Len(fs) : fs[i].kind = "row",
           Ordered(fs)
    PROVE  /\ Append(fs, f) \in Seq(Frame) /\ Ordered(Append(fs, f))
           /\ \A i \in 1..Len(Append(fs, f)) : Append(fs, f)[i].kind \in {"row", "text", "artifact"}
           /\ Append(fs, f) = fs \o <<f>>
<1>1. \A i \in 1..Len(fs) : /\ fs[i].kind # "citations"
                            /\ fs[i].kind = "artifact" => f.kind \in {"artifact", "citations"}
      OBVIOUS
<1>2. Ordered(Append(fs, f))  BY <1>1, OrderedOfAppend
<1>3. f.kind \in {"row", "text", "artifact"}  OBVIOUS
<1> QED  BY <1>2, <1>3, AppendTyped

(* Steps show no words.                                                    *)
LEMMA NothingShown ==
    ASSUME NEW fs \in Seq(Frame), \A i \in 1..Len(fs) : fs[i].kind = "row"
    PROVE  ShownIn(fs) = {}
<1>1. {j \in 1..Len(fs) : fs[j].kind = "text"} = {} /\ {j \in 1..Len(fs) : fs[j].kind = "artifact"} = {}
      OBVIOUS
<1> QED  BY <1>1 DEF ShownIn

(* The end of the stream: the text,                                        *)
LEMMA DrainTextHolds == ASSUME ExtrasInv, Shown!DrainText  PROVE ExtrasInv'
<1> DEFINE f == [kind |-> "text", words |-> prose]
<1>1. drain = "reading" /\ stream = <<>> /\ drain' = "draining" /\ prose' = {}
      /\ noted' = noted \cup prose
      /\ out' = out \o (IF prose = {} THEN <<>> ELSE <<f>>)
      /\ UNCHANGED <<stream, emitted, cited, agent, artifacts, citations, keys>>
      BY DEF Shown!DrainText, Shown!Sends, Shown!tools
<1>2. out \in Seq(Frame) /\ Shown!FoldLeft(Shown!Got, <<>>, out) = <<>> /\ prose \subseteq Word
      /\ artifacts \in Seq(Arts) /\ \A i \in 1..Len(out) : out[i].kind = "row"
      BY <1>1, RowsNow
<1>3. noted = {} /\ Shown!FoldLeft(Shown!Built, artifacts, stream) = Shown!FoldLeft(Shown!Built, <<>>, emitted)
      BY <1>1 DEF ExtrasInv, Reading
<1>4. artifacts = Shown!FoldLeft(Shown!Built, <<>>, emitted)  BY <1>1, <1>3, BuiltOfEmpty
<1>5. ShownIn(out) = {} /\ Ordered(out)  BY <1>2, NothingShown, RowsOrdered
<1>6. /\ out' \in Seq(Frame) /\ Ordered(out') /\ Shown!FoldLeft(Shown!Got, <<>>, out') = <<>>
      /\ \A i \in 1..Len(out') : out'[i].kind \in {"row", "text", "artifact"}
      /\ ShownIn(out') = prose
  <2>1. CASE prose = {}
    <3>1. out' = out  BY <1>1, <1>2, <2>1
    <3> QED  BY <1>2, <1>5, <2>1, <3>1
  <2>2. CASE prose # {}
    <3>1. f \in Frame /\ f.kind = "text" /\ f.words = prose  BY <1>2 DEF Frame
    <3>2. out' = out \o <<f>>  BY <1>1, <2>2
    <3> HIDE DEF f
    <3>3. /\ Append(out, f) \in Seq(Frame) /\ Ordered(Append(out, f)) /\ Append(out, f) = out \o <<f>>
          /\ \A i \in 1..Len(Append(out, f)) : Append(out, f)[i].kind \in {"row", "text", "artifact"}
          BY <1>2, <1>5, <3>1, FrameSent
    <3>4. Shown!FoldLeft(Shown!Got, <<>>, Append(out, f)) = Shown!Got(<<>>, f)  BY <1>2, <3>1, GotMore
    <3>5. Shown!Got(<<>>, f) = <<>>  BY <3>1 DEF Shown!Got
    <3>6. ShownIn(Append(out, f)) = prose  BY <1>2, <1>5, <3>1, ShownOfAppend
    <3> QED  BY <3>2, <3>3, <3>4, <3>5, <3>6
  <2> QED  BY <2>1, <2>2
<1>7. ExtrasTypes'  BY <1>1, <1>2, <1>3, <1>6 DEF ExtrasInv, ExtrasTypes
<1>8. Shown!TailIsOrdered'  BY <1>6 DEF Shown!TailIsOrdered, Ordered
<1>9. <<>> \o artifacts = artifacts  BY <1>2
<1>10. Draining'  BY <1>1, <1>3, <1>4, <1>6, <1>9 DEF Draining
<1>11. /\ Held(emitted, Len(emitted) - Len(stream), citations, keys)'
       /\ (\A i \in 1..Len(citations) : Shown!KeyOf(citations[i]) \in keys)'
       BY <1>1 DEF ExtrasInv
<1> QED  BY <1>1, <1>7, <1>8, <1>10, <1>11 DEF ExtrasInv

(* an artifact of the buffer,                                              *)
LEMMA DrainArtifactHolds == ASSUME ExtrasInv, Shown!DrainArtifact  PROVE ExtrasInv'
<1> DEFINE f == [kind |-> "artifact", artifact |-> Head(artifacts)]
<1>1. drain = "draining" /\ drain' = "draining" /\ artifacts # <<>> /\ artifacts' = Tail(artifacts)
      /\ noted' = noted \cup Shown!WordsOf(Head(artifacts)) /\ out' = out \o <<f>>
      /\ UNCHANGED <<stream, emitted, cited, agent, prose, citations, keys>>
      BY DEF Shown!DrainArtifact, Shown!Sends, Shown!tools
<1>2. out \in Seq(Frame) /\ artifacts \in Seq(Arts) /\ noted \subseteq Word
      BY DEF ExtrasInv, ExtrasTypes
<1>3. /\ stream = <<>> /\ noted = ShownIn(out)
      /\ \A i \in 1..Len(out) : out[i].kind \in {"row", "text", "artifact"}
      /\ Shown!FoldLeft(Shown!Got, <<>>, out) \o artifacts = Shown!FoldLeft(Shown!Built, <<>>, emitted)
      BY <1>1 DEF ExtrasInv, Draining
<1>4. Head(artifacts) \in Arts /\ artifacts' \in Seq(Arts)  BY <1>1, <1>2
<1>5. f \in Frame /\ f.kind = "artifact" /\ f.artifact = Head(artifacts)  BY <1>4 DEF Frame
<1> HIDE DEF f
<1>6. Ordered(out)  BY DEF ExtrasInv, Shown!TailIsOrdered, Ordered
<1>7. /\ Append(out, f) \in Seq(Frame) /\ Ordered(Append(out, f)) /\ out' = Append(out, f)
      /\ \A i \in 1..Len(Append(out, f)) : Append(out, f)[i].kind \in {"row", "text", "artifact"}
      BY <1>1, <1>2, <1>3, <1>5, <1>6, FrameSent
<1>8. ShownIn(out') = noted'  BY <1>1, <1>2, <1>3, <1>5, <1>7, ShownOfAppend
<1>9. noted' \subseteq Word  BY <1>1, <1>2 DEF Shown!WordsOf
<1>10. Shown!FoldLeft(Shown!Got, <<>>, out') \o artifacts' = Shown!FoldLeft(Shown!Built, <<>>, emitted)
  <2>1. Shown!FoldLeft(Shown!Got, <<>>, Append(out, f)) = Shown!Got(Shown!FoldLeft(Shown!Got, <<>>, out), f)  BY <1>2, <1>5, GotMore
  <2> DEFINE g == Shown!FoldLeft(Shown!Got, <<>>, out)
  <2>2. Shown!Got(g, f) = Append(g, Head(artifacts))  BY <1>5 DEF Shown!Got
  <2>3. g \in Seq(Arts)  BY <1>2, GotTyped
  <2> HIDE DEF g
  <2>4. Append(g, Head(artifacts)) \o Tail(artifacts) = g \o artifacts
    <3>1. Append(g, Head(artifacts)) = g \o <<Head(artifacts)>>  BY <1>4, <2>3, AppendIsConcat
    <3>2. <<Head(artifacts)>> \in Seq(Arts) /\ Tail(artifacts) \in Seq(Arts)  BY <1>1, <1>4
    <3>3. <<Head(artifacts)>> \o Tail(artifacts) = artifacts  BY <1>1, <1>2
    <3>4. (g \o <<Head(artifacts)>>) \o Tail(artifacts) = g \o (<<Head(artifacts)>> \o Tail(artifacts))
          BY <2>3, <3>2, ConcatAssociative
    <3> QED  BY <3>1, <3>3, <3>4
  <2> QED  BY <1>1, <1>3, <1>7, <2>1, <2>2, <2>4 DEF g
<1>11. ExtrasTypes'  BY <1>1, <1>4, <1>7, <1>9 DEF ExtrasInv, ExtrasTypes
<1>12. Shown!TailIsOrdered'  BY <1>7 DEF Shown!TailIsOrdered, Ordered
<1>13. Draining'  BY <1>1, <1>3, <1>7, <1>8, <1>10 DEF Draining
<1>14. /\ Held(emitted, Len(emitted) - Len(stream), citations, keys)'
       /\ (\A i \in 1..Len(citations) : Shown!KeyOf(citations[i]) \in keys)'
       BY <1>1 DEF ExtrasInv
<1> QED  BY <1>1, <1>11, <1>12, <1>13, <1>14 DEF ExtrasInv
(* and the citations, once all that is shown is noted.                     *)
LEMMA DrainCitationsHolds == ASSUME ExtrasInv, Shown!DrainCitations  PROVE ExtrasInv'
<1> DEFINE kept == Shown!FoldLeft(Shown!Choose, <<>>, citations)
           f == [kind |-> "citations", all |-> kept]
           N == Len(emitted)
           due == {emitted[i].c : i \in {j \in First(emitted, N) : Shown!Relevant(emitted[j].c, ShownIn(out))}}
<1>1. drain = "draining" /\ artifacts = <<>> /\ drain' = "over"
      /\ out' = out \o (IF kept = <<>> THEN <<>> ELSE <<f>>)
      /\ citations' = <<>> /\ keys' = {}
      /\ UNCHANGED <<stream, emitted, cited, agent, prose, artifacts, noted>>
      BY DEF Shown!DrainCitations, Shown!Sends, Shown!tools
<1>2. out \in Seq(Frame) /\ citations \in Seq(Shown!Citation) /\ emitted \in Seq(Event)
      BY DEF ExtrasInv, ExtrasTypes
<1>3. /\ stream = <<>> /\ noted = ShownIn(out)
      /\ \A i \in 1..Len(out) : out[i].kind \in {"row", "text", "artifact"}
      /\ Shown!FoldLeft(Shown!Got, <<>>, out) \o artifacts = Shown!FoldLeft(Shown!Built, <<>>, emitted)
      BY <1>1 DEF ExtrasInv, Draining
<1>4. Held(emitted, N, citations, keys)
  <2>1. Len(emitted) - Len(stream) = N  BY <1>2, <1>3
  <2> QED  BY <1>1, <2>1 DEF ExtrasInv
<1>5. Shown!FoldLeft(Shown!Got, <<>>, out) = Shown!FoldLeft(Shown!Built, <<>>, emitted)
  <2>1. Shown!FoldLeft(Shown!Got, <<>>, out) \in Seq(Arts)  BY <1>2, GotTyped
  <2>2. Shown!FoldLeft(Shown!Got, <<>>, out) \o <<>> = Shown!FoldLeft(Shown!Got, <<>>, out)  BY <2>1, ConcatEmptySeq
  <2> QED  BY <1>1, <1>3, <2>2
<1>6. /\ kept \in Seq(Shown!Citation)
      /\ \A c : (\E i \in 1..Len(kept) : kept[i] = c)
                  <=> Shown!Relevant(c, noted) /\ \E i \in 1..Len(citations) : citations[i] = c
      /\ \A i, j \in 1..Len(kept) : kept[i] = kept[j] => i = j
      BY <1>2, <1>4, ChosenAre DEF Held
<1> HIDE DEF kept
<1>7. \A c : (\E i \in 1..Len(kept) : kept[i] = c) <=> c \in due
  <2>1. {citations[i] : i \in 1..Len(citations)} = {emitted[i].c : i \in First(emitted, N)}
        BY <1>4 DEF Held
  <2>2. \A c : (\E i \in 1..Len(citations) : citations[i] = c)
                 <=> \E j \in First(emitted, N) : emitted[j].c = c
        BY <2>1
  <2>3. \A c : c \in due <=> Shown!Relevant(c, ShownIn(out)) /\ \E j \in First(emitted, N) : emitted[j].c = c
        OBVIOUS
  <2> QED  BY <1>3, <1>6, <2>2, <2>3
<1> HIDE DEF due
<1>8. Shown!Range(kept) = due /\ Len(kept) = Cardinality(due) /\ (kept = <<>> <=> due = {})
  <2>1. DOMAIN kept = 1..Len(kept) /\ Len(kept) \in Nat  BY <1>6
  <2>2. Shown!Range(kept) = due  BY <1>7, <2>1 DEF Shown!Range
  <2>3. kept \in [1..Len(kept) -> due]  BY <1>6, <1>7
  <2>4. kept \in Surjection(1..Len(kept), due) /\ kept \in Injection(1..Len(kept), due)
    <3>1. \A t \in due : \E s \in 1..Len(kept) : kept[s] = t  BY <1>7
    <3> QED  BY <1>6, <2>3, <3>1 DEF Surjection, Injection, IsInjective
  <2>5. kept \in Bijection(1..Len(kept), due)  BY <2>4 DEF Bijection
  <2>6. Cardinality(due) = Len(kept)
    <3>1. ExistsBijection(1..Len(kept), due)  BY <2>5 DEF ExistsBijection
    <3>2. IsFiniteSet(1..Len(kept)) /\ Cardinality(1..Len(kept)) = Len(kept)
      <4>1. PICK k \in Nat : k = Len(kept)  BY <2>1
      <4>2. IsFiniteSet(1..k) /\ Cardinality(1..k) = IF 1 > k THEN 0 ELSE k - 1 + 1
            BY FS_Interval
      <4> QED  BY <4>1, <4>2
    <3> QED  BY <2>1, <3>1, FS_CountingElements
  <2>7. kept = <<>> <=> due = {}
    <3>1. kept = <<>> => Len(kept) = 0  OBVIOUS
    <3>2. due = {} => Len(kept) = 0
      <4>1. 1 \in 1..Len(kept) => kept[1] \in due  BY <1>7
      <4> QED  BY <2>1, <4>1
    <3>3. Len(kept) = 0 => kept = <<>>  BY <1>6
    <3>4. Len(kept) = 0 => due = {}  BY <1>7
    <3> QED  BY <3>1, <3>2, <3>3, <3>4
  <2> QED  BY <2>2, <2>6, <2>7
<1>9. Ordered(out)  BY DEF ExtrasInv, Shown!TailIsOrdered, Ordered
<1>10. /\ out' \in Seq(Frame) /\ Ordered(out') /\ ShownIn(out') = ShownIn(out)
       /\ Shown!FoldLeft(Shown!Got, <<>>, out') = Shown!FoldLeft(Shown!Got, <<>>, out)
       /\ LET got == {i \in 1..Len(out') : out'[i].kind = "citations"}
          IN  IF due = {} THEN got = {}
              ELSE \E i \in got : /\ got = {i} /\ Shown!Range(out'[i].all) = due
                                  /\ Len(out'[i].all) = Cardinality(due)
  <2>1. CASE kept = <<>>
    <3>1. out' = out  BY <1>1, <1>2, <2>1
    <3>2. {i \in 1..Len(out) : out[i].kind = "citations"} = {}  BY <1>3
    <3> QED  BY <1>2, <1>8, <1>9, <2>1, <3>1, <3>2
  <2>2. CASE kept # <<>>
    <3>1. f \in Frame /\ f.kind = "citations" /\ f.all = kept  BY <1>6 DEF Frame
    <3>2. out' = out \o <<f>>  BY <1>1, <2>2
    <3> HIDE DEF f
    <3>3. out' = Append(out, f)  BY <1>2, <3>1, <3>2, AppendIsConcat
    <3>4. out' \in Seq(Frame) /\ Len(out') = Len(out) + 1 /\ Len(out) \in Nat
          /\ out'[Len(out) + 1] = f /\ \A i \in 1..Len(out) : out'[i] = out[i]
          BY <1>2, <3>1, <3>3
    <3>5. Ordered(out')
      <4>1. \A i \in 1..Len(out) : /\ out[i].kind # "citations"
                                   /\ out[i].kind = "artifact" => f.kind \in {"artifact", "citations"}
            BY <1>3, <3>1
      <4> QED  BY <1>2, <1>9, <3>1, <3>3, <4>1, OrderedOfAppend
    <3>6. ShownIn(out') = ShownIn(out)  BY <1>2, <3>1, <3>3, ShownOfAppend
    <3>7. Shown!FoldLeft(Shown!Got, <<>>, out') = Shown!FoldLeft(Shown!Got, <<>>, out)
      <4>1. Shown!FoldLeft(Shown!Got, <<>>, Append(out, f)) = Shown!Got(Shown!FoldLeft(Shown!Got, <<>>, out), f)
            BY <1>2, <3>1, GotMore
      <4>2. \A g : Shown!Got(g, f) = g  BY <3>1 DEF Shown!Got
      <4> QED  BY <3>3, <4>1, <4>2
    <3>8. {i \in 1..Len(out') : out'[i].kind = "citations"} = {Len(out) + 1}
      <4>1. \A i \in 1..Len(out') : i \in 1..Len(out) \/ i = Len(out) + 1  BY <3>4
      <4>2. Len(out) + 1 \in 1..Len(out')  BY <3>4
      <4>3. \A i \in 1..Len(out) : out'[i].kind # "citations"  BY <1>3, <3>4
      <4> QED  BY <3>1, <3>4, <4>1, <4>2, <4>3
    <3>9. Shown!Range(out'[Len(out) + 1].all) = due /\ Len(out'[Len(out) + 1].all) = Cardinality(due)
          /\ due # {}
          BY <1>8, <2>2, <3>1, <3>4
    <3> QED  BY <3>4, <3>5, <3>6, <3>7, <3>8, <3>9
  <2> QED  BY <2>1, <2>2
<1>11. Told(emitted, out')
  <2>1. due = {emitted[i].c : i \in {j \in First(emitted, N) : Shown!Relevant(emitted[j].c, ShownIn(out'))}}
        BY <1>10 DEF due
  <2> QED  BY <1>10, <2>1 DEF Told
<1>12. ExtrasTypes'
  <2>1. <<>> \in Seq(Shown!Citation)  OBVIOUS
  <2> QED  BY <1>1, <1>10, <2>1 DEF ExtrasInv, ExtrasTypes
<1>13. Shown!TailIsOrdered'  BY <1>10 DEF Shown!TailIsOrdered, Ordered
<1>14. (\A i \in 1..Len(citations) : Shown!KeyOf(citations[i]) \in keys)'
  <2>1. Len(<<>>) = 0  OBVIOUS
  <2> QED  BY <1>1, <2>1
<1> QED  BY <1>1, <1>5, <1>10, <1>11, <1>12, <1>13, <1>14 DEF ExtrasInv

-----------------------------------------------------------------------------
(* Every step preserves the invariant.                                     *)
LEMMA ExtrasHold == ASSUME Shown!ExtrasAssumption, ExtrasInv, [Shown!Next]_Shown!vars  PROVE ExtrasInv'
<1>1. ASSUME Shown!Next  PROVE ExtrasInv'
  <2>1. CASE \/ \E s \in Show : Shown!EmitArtifact(s)
             \/ \E h \in Hit : Shown!CiteWeb(h)
             \/ \E p \in Page : Shown!CitePage(p)
             \/ \E w \in Backed : Shown!CiteWidget(w)
             \/ \E w \in Word : Shown!Say({w})
             \/ \E kind \in {"break", "call"} : Shown!Break(kind)
        BY <2>1, EmittingHolds
  <2>2. CASE \E how \in {"done", "failed"} : Shown!Stop(how)  BY <2>2, StopHolds
  <2>3. CASE Shown!TakeArtifact  BY <2>3, TakeArtifactHolds
  <2>4. CASE Shown!TakeCitation  BY <2>4, TakeCitationHolds
  <2>5. CASE Shown!TakeText  BY <2>5, TakeTextHolds
  <2>6. CASE Shown!TakeBreak  BY <2>6, TakeBreakHolds
  <2>7. CASE Shown!TakeCall  BY <2>7, TakeCallHolds
  <2>8. CASE Shown!DrainText  BY <2>8, DrainTextHolds
  <2>9. CASE Shown!DrainArtifact  BY <2>9, DrainArtifactHolds
  <2>10. CASE Shown!DrainCitations  BY <2>10, DrainCitationsHolds
  <2>11. CASE Shown!Unwind  BY <2>11, UnwindHolds
  <2> QED  BY <1>1, <2>1, <2>2, <2>3, <2>4, <2>5, <2>6, <2>7, <2>8, <2>9, <2>10, <2>11 DEF Shown!Next
<1>2. ASSUME UNCHANGED Shown!vars  PROVE ExtrasInv'
  <2>1. UNCHANGED <<stream, emitted, cited, agent, drain, prose, artifacts, citations, keys, noted, out>>
        BY <1>2 DEF Shown!vars, Shown!tools, Shown!adapter
  <2>2. ExtrasTypes' /\ Shown!TailIsOrdered'  BY <2>1 DEF ExtrasInv, ExtrasTypes, Shown!TailIsOrdered
  <2>3. (drain = "reading" => Reading)' /\ (drain = "draining" => Draining)'
        BY <2>1 DEF ExtrasInv, Reading, Draining
  <2> QED  BY <2>1, <2>2, <2>3 DEF ExtrasInv
<1> QED  BY <1>1, <1>2

(* It implies the types and what is promised of citations.                 *)
LEMMA ExtrasTyped == ASSUME ExtrasInv, Shown!ExtrasAssumption  PROVE Shown!TypeOK
<1>1. ExtrasTypes /\ \A i \in 1..Len(citations) : Shown!KeyOf(citations[i]) \in keys  BY DEF ExtrasInv
<1>2. \A i \in 1..Len(citations) : citations[i] \in Shown!Citation  BY <1>1 DEF ExtrasTypes
<1>3. \A i \in 1..Len(artifacts) : artifacts[i].type \in {"text", "table", "chart", "html"}
  <2>1. \A a \in Arts : a.type \in {"text", "table", "chart", "html"}  BY PayloadTyped DEF Arts
  <2> QED  BY <1>1, <2>1 DEF ExtrasTypes
<1>4. Shown!IsSuffix(stream, emitted)
  <2> DEFINE n == Len(stream)
             m == Len(emitted)
             rs == Shown!Reverse(stream)
             re == Shown!Reverse(emitted)
  <2>1. emitted \in Seq(Event) /\ stream \in Seq(Event) /\ m \in Nat /\ n \in Nat /\ n <= m
        /\ \A i \in 1..n : stream[i] = emitted[m - n + i]
        BY <1>1 DEF ExtrasTypes
  <2>2. /\ rs \in Seq(Event) /\ Len(rs) = n /\ \A i \in 1..n : rs[i] = stream[n - i + 1]
    <3>1. \A i \in 1..n : n - i + 1 \in 1..n  BY <2>1
    <3> QED  BY <2>1, <3>1 DEF Shown!Reverse
  <2>3. /\ re \in Seq(Event) /\ Len(re) = m /\ \A i \in 1..m : re[i] = emitted[m - i + 1]
    <3>1. \A i \in 1..m : m - i + 1 \in 1..m  BY <2>1
    <3> QED  BY <2>1, <3>1 DEF Shown!Reverse
  <2> HIDE DEF rs, re
  <2>4. \A j \in 1..n : rs[j] \in Event /\ re[j] = rs[j]
    <3>1. TAKE j \in 1..n
    <3>2. n - j + 1 \in 1..n /\ j \in 1..m /\ m - n + (n - j + 1) = m - j + 1  BY <2>1
    <3>3. rs[j] = emitted[m - n + (n - j + 1)]  BY <2>1, <2>2, <3>2
    <3> QED  BY <2>2, <2>3, <3>2, <3>3
  <2>5. 1 \in Int /\ n \in Int  BY <2>1
  <2> HIDE DEF n, m
  <2>6. SubSeq(rs, 1, n) = SubSeq(re, 1, n)  BY <2>4, <2>5, SubSeqSame
  <2> QED  BY <2>1, <2>2, <2>3, <2>6 DEF Shown!IsSuffix, Shown!IsPrefix, rs, re
<1>5. Len(emitted) <= MaxEmits /\ cited \subseteq Page \cup (Backed \X {0})
      /\ agent \in {"running", "done", "failed"}
      /\ drain \in {"reading", "draining", "over", "left"} /\ prose \subseteq Word /\ noted \subseteq Word
      BY <1>1 DEF ExtrasTypes
<1> QED  BY <1>1, <1>2, <1>3, <1>4, <1>5 DEF Shown!TypeOK

LEMMA CitationsFollow == ASSUME ExtrasInv  PROVE Shown!CitationsAreShown
<1>1. SUFFICES ASSUME drain = "over", Told(emitted, out)  PROVE Shown!CitationsAreShown
      BY DEF ExtrasInv, Shown!CitationsAreShown
<1> QED  BY <1>1, SameSizes DEF Shown!CitationsAreShown, Told, ShownIn, First, CitedBy

(* runtime/emit.py, the sanitiser of markdown and the buffers of           *)
(* protocol/adapter.py, for any artifacts, bodies of any length,           *)
(* documents, search results and any of the bounds: a run that comes to    *)
(* its end has shown every artifact once and in order, without its         *)
(* scratchpad, and has cited each source that is about what it showed      *)
(* once.                                                                   *)
THEOREM ExtrasProved ==
    ASSUME Shown!ExtrasAssumption
    PROVE  Shown!Spec => [](Shown!TypeOK /\ Shown!ArtifactsAreShown /\ Shown!BodiesArePolished
                            /\ Shown!CitationsAreShown /\ Shown!TailIsOrdered)
<1>1. Shown!Init => ExtrasInv  BY ExtrasStart
<1>2. ExtrasInv /\ [Shown!Next]_Shown!vars => ExtrasInv'  BY ExtrasHold
<1>3. Shown!BodiesArePolished
  <2>1. \A s \in Show : s.tool = "markdown" => s.body \in Seq(Line)  BY DEF Shown!ExtrasAssumption, Line
  <2> QED  BY <2>1, Polished DEF Shown!BodiesArePolished
<1>4. ExtrasInv => Shown!TypeOK /\ Shown!ArtifactsAreShown /\ Shown!BodiesArePolished /\ Shown!CitationsAreShown /\ Shown!TailIsOrdered
  <2> SUFFICES ASSUME ExtrasInv
               PROVE  Shown!TypeOK /\ Shown!ArtifactsAreShown /\ Shown!BodiesArePolished /\ Shown!CitationsAreShown
                      /\ Shown!TailIsOrdered
      OBVIOUS
  <2>1. Shown!ArtifactsAreShown /\ Shown!TailIsOrdered  BY DEF ExtrasInv, Shown!ArtifactsAreShown
  <2> QED  BY <1>3, <2>1, ExtrasTyped, CitationsFollow
<1> QED  BY <1>1, <1>2, <1>4, PTL DEF Shown!Spec

-----------------------------------------------------------------------------
(* The parts of a turn share no state: beside each other each behaves as   *)
(* it does by itself.                                                      *)
THEOREM PartsAreThemselves ==
    TurnSpec => Spec /\ Texts!Spec /\ Messages!Spec /\ Shown!Spec /\ Filed!Spec
<1>1. TurnInit => Init /\ Texts!Init /\ Messages!Init /\ Shown!Init /\ Filed!Init
      BY DEF TurnInit
<1>2. ASSUME [TurnNext]_turn
      PROVE  /\ [Next]_vars /\ [Texts!Next]_(Texts!vars) /\ [Messages!Next]_(Messages!vars)
             /\ [Shown!Next]_(Shown!vars) /\ [Filed!Next]_(Filed!vars)
  <2>1. UNCHANGED writing => UNCHANGED Texts!vars
        BY DEF writing, Texts!vars, Texts!frames
  <2>2. UNCHANGED converting => UNCHANGED Messages!vars
        BY DEF converting, Messages!vars
  <2>3. UNCHANGED showing => UNCHANGED Shown!vars
        BY DEF showing, Shown!vars, Shown!tools, Shown!adapter
  <2>4. UNCHANGED collecting => UNCHANGED Filed!vars
        BY DEF collecting, Filed!vars, Filed!body
  <2>5. UNCHANGED turn => UNCHANGED <<vars, writing, converting, showing, collecting>>
        BY DEF turn
  <2> QED  BY <1>2, <2>1, <2>2, <2>3, <2>4, <2>5 DEF TurnNext
<1> QED  BY <1>1, <1>2, PTL DEF TurnSpec, Spec, Texts!Spec, Messages!Spec, Shown!Spec, Filed!Spec

(* The guard, the ledger and the announcer, beside the other parts.        *)
THEOREM CallsCountBeside == TurnSpec => []CallsAreCounted
  BY PartsAreThemselves, CallsAreCountedHolds, PTL

(* runtime/emit.py and protocol/adapter.py, beside the other parts: a run  *)
(* that comes to its end has shown its artifacts and cited its sources.    *)
THEOREM ExtrasAreShownHolds == TurnSpec => []ExtrasAreShown
<1>1. Shown!TypeOK /\ Shown!ArtifactsAreShown /\ Shown!BodiesArePolished /\ Shown!CitationsAreShown
        /\ Shown!TailIsOrdered => ExtrasAreShown
      BY DEF ExtrasAreShown
<1>2. Shown!ExtrasAssumption  BY TurnAssumption
<1> QED  BY <1>1, <1>2, PartsAreThemselves, ExtrasProved, PTL
=============================================================================
