--------------------------- MODULE WorkersProofs ---------------------------
(***************************************************************************)
(* Proofs about the limiter of RateLimiter.tla, for any number of callers  *)
(* and of buckets, any quotas and any length of the observed window; and   *)
(* about Workers, of which the limiter is one part and the registry the    *)
(* other, for any jobs and calls of wait().                                *)
(***************************************************************************)
EXTENDS Workers, FiniteSetTheorems, TLAPS

(* The caller inside of the section is the one that holds the lock.        *)
LockHeld == \A c \in Caller : pc[c] \in {"locked", "granted"} <=> lock = c

(* What _compute_wait saw still holds when the call is charged: others can *)
(* only refill in between.                                                 *)
GrantedCovered ==
    \A c \in Caller : pc[c] = "granted" => \A b \in Bucket : level[b] >= Unit(b)

(* What the window admitted and what is left came from one full bucket and *)
(* the refill since.                                                       *)
WindowPaid ==
    \A b \in Request : /\ level[b] >= 0
                       /\ used * Unit(b) + level[b] <= Full(b) + Cap[b] * span

(* The inductive invariant: AdmissionsBounded follows from WindowPaid, and *)
(* DebtBounded is inductive relative to the rest.                          *)
IInv == TypeOK /\ LockHeld /\ GrantedCovered /\ WindowPaid /\ DebtBounded

-----------------------------------------------------------------------------
(* The quotas, the unit and the capacity of a bucket are positive.         *)
LEMMA BucketType ==
    ASSUME NEW b \in Bucket
    PROVE  /\ Cap[b] \in Nat \ {0}
           /\ Unit(b) \in Nat \ {0}
           /\ Full(b) \in Nat
           /\ Full(b) >= Unit(b)
  <1>1. Cap[b] \in Nat \ {0} /\ Period[b] \in Nat \ {0}
    BY RateLimiterAssumption
  <1>2. ASSUME NEW m \in Nat \ {0}, NEW n \in Nat \ {0}
        PROVE  m * n \in Nat /\ m * n >= n
    BY <1>2, SMT
  <1> QED
    BY <1>1, <1>2 DEF Unit, Full

(* One more request costs one more unit, and one more tick brings one more *)
(* share of the quota.                                                     *)
LEMMA OneMore ==
    ASSUME NEW n \in Int, NEW u \in Int
    PROVE  /\ (n + 1) * u = n * u + u
           /\ u * (n + 1) = u * n + u
           /\ n * u \in Int
           /\ u * n \in Int
  OBVIOUS

(* Costs grow with the number of calls.                                    *)
LEMMA Grows ==
    ASSUME NEW m \in Nat, NEW n \in Nat, NEW u \in Nat, m <= n
    PROVE  m * u <= n * u /\ u * m <= u * n
  OBVIOUS

-----------------------------------------------------------------------------
(* Every step keeps every variable within its type.                        *)
LEMMA TypeStep == TypeOK /\ [Next]_vars => TypeOK'
  <1> SUFFICES ASSUME TypeOK, [Next]_vars PROVE TypeOK'
    OBVIOUS
  <1> USE DEF TypeOK, PC, window, Goto
  <1>b. \A b \in Bucket : /\ Unit(b) \in Nat /\ Full(b) \in Nat
                          /\ Cap[b] \in Nat /\ level[b] \in Int
                          /\ level[b] <= Full(b)
    BY BucketType
  <1>1. ASSUME NEW c \in Caller, Step(c) \/ Lock(c) \/ Unrecorded(c)
        PROVE  TypeOK'
    <2>1. CASE Charge(c)
      <3>1. level' \in [Bucket -> Int] /\ \A b \in Bucket : level'[b] <= Full(b)
        BY <2>1, <1>b DEF Charge
      <3> QED
        BY <2>1, <3>1 DEF Charge
    <2>2. CASE Sleep(c)
      <3>1. nap' \in [Caller -> 0..Poll]
        BY <2>2, RateLimiterAssumption DEF Sleep
      <3> QED
        BY <2>2, <3>1 DEF Sleep
    <2>3. CASE Acquire(c) \/ Check(c) \/ Wake(c) \/ Lock(c) \/ Unrecorded(c)
      BY <2>3 DEF Acquire, Check, Wake, Lock, Unrecorded
    <2> QED
      BY <1>1, <2>1, <2>2, <2>3 DEF Step
  <1>2. ASSUME NEW c \in Caller, NEW n \in 1..MaxUse, Record(c, n)
        PROVE  TypeOK'
    <2>0. n \in Nat
      BY RateLimiterAssumption
    <2>1. ASSUME NEW b \in Bucket PROVE n * Unit(b) \in Nat
      BY <2>0, <2>1, <1>b
    <2>2. level' \in [Bucket -> Int] /\ \A b \in Bucket : level'[b] <= Full(b)
      <3>1. ASSUME NEW b \in Bucket
            PROVE  level'[b] \in Int /\ level'[b] <= Full(b)
        BY <3>1, <1>2, <2>1, <1>b DEF Record
      <3> QED
        BY <3>1, <1>2 DEF Record
    <2> QED
      BY <1>2, <2>2 DEF Record
  <1>3. CASE Tick
    <2>1. level' \in [Bucket -> Int] /\ \A b \in Bucket : level'[b] <= Full(b)
      BY <1>3, <1>b DEF Tick, Refilled, Lesser
    <2>2. nap' \in [Caller -> 0..Poll]
      BY <1>3, RateLimiterAssumption DEF Tick
    <2>3. used' \in Nat /\ span' \in 0..MaxSpan
      BY <1>3, RateLimiterAssumption DEF Tick
    <2> QED
      BY <1>3, <2>1, <2>2, <2>3 DEF Tick
  <1>4. CASE Observe
    BY <1>4, RateLimiterAssumption DEF Observe
  <1>5. CASE UNCHANGED vars
    BY <1>5 DEF vars
  <1> QED
    BY <1>1, <1>2, <1>3, <1>4, <1>5 DEF Next

-----------------------------------------------------------------------------
(* Only the holder of the lock is inside, and it leaves by giving it up.   *)
LEMMA LockStep == TypeOK /\ LockHeld /\ [Next]_vars => LockHeld'
  <1> SUFFICES ASSUME TypeOK, LockHeld, [Next]_vars PROVE LockHeld'
    OBVIOUS
  <1> USE DEF TypeOK, PC, LockHeld, Goto
  <1>1. ASSUME NEW c \in Caller, Step(c) \/ Lock(c) \/ Unrecorded(c)
        PROVE  LockHeld'
    <2>1. CASE Acquire(c) \/ Check(c) \/ Wake(c) \/ Unrecorded(c)
      BY <2>1 DEF Acquire, Check, Wake, Unrecorded
    <2>2. CASE Charge(c) \/ Sleep(c)
      BY <2>2, RateLimiterAssumption DEF Charge, Sleep
    <2>3. CASE Lock(c)
      BY <2>3, RateLimiterAssumption DEF Lock
    <2> QED
      BY <1>1, <2>1, <2>2, <2>3 DEF Step
  <1>2. ASSUME NEW c \in Caller, NEW n \in 1..MaxUse, Record(c, n)
        PROVE  LockHeld'
    BY <1>2 DEF Record
  <1>3. CASE Tick
    BY <1>3 DEF Tick
  <1>4. CASE Observe
    BY <1>4 DEF Observe
  <1>5. CASE UNCHANGED vars
    BY <1>5 DEF vars
  <1> QED
    BY <1>1, <1>2, <1>3, <1>4, <1>5 DEF Next

(* Nobody but the holder of the lock lowers a level, so the holder may     *)
(* rely on what it saw.                                                    *)
LEMMA CoverStep ==
    TypeOK /\ LockHeld /\ GrantedCovered /\ [Next]_vars => GrantedCovered'
  <1> SUFFICES ASSUME TypeOK, LockHeld, GrantedCovered, [Next]_vars,
                      NEW d \in Caller, pc'[d] = "granted",
                      NEW b \in Bucket
               PROVE  level'[b] >= Unit(b)
    BY DEF GrantedCovered, Unit
  <1> USE DEF TypeOK, PC, GrantedCovered, Goto
  <1>b. /\ Unit(b) \in Nat /\ Full(b) \in Nat /\ Full(b) >= Unit(b)
        /\ Cap[b] \in Nat /\ level[b] \in Int
    BY BucketType
  <1>1. ASSUME NEW c \in Caller, Step(c) \/ Lock(c) \/ Unrecorded(c)
        PROVE  level'[b] >= Unit(b)
    <2>1. CASE Acquire(c) \/ Sleep(c) \/ Wake(c) \/ Lock(c) \/ Unrecorded(c)
      BY <2>1 DEF Acquire, Sleep, Wake, Lock, Unrecorded
    <2>2. CASE Check(c)
      BY <2>2 DEF Check, NoWait
    <2>3. CASE Charge(c)
      BY <2>3 DEF Charge, LockHeld
    <2> QED
      BY <1>1, <2>1, <2>2, <2>3 DEF Step
  <1>2. ASSUME NEW c \in Caller, NEW n \in 1..MaxUse, Record(c, n)
        PROVE  level'[b] >= Unit(b)
    BY <1>2, RateLimiterAssumption DEF Record, LockHeld
  <1>3. CASE Tick
    <2>1. level[b] >= Unit(b)
      BY <1>3 DEF Tick
    <2> QED
      BY <1>3, <2>1, <1>b DEF Tick, Refilled, Lesser
  <1>4. CASE Observe
    BY <1>4 DEF Observe
  <1>5. CASE UNCHANGED vars
    BY <1>5 DEF vars
  <1> QED
    BY <1>1, <1>2, <1>3, <1>4, <1>5 DEF Next

(* An admission moves one unit from what is left to what is used, a tick   *)
(* widens both sides alike, and a window starts with at most a full bucket.*)
LEMMA WindowStep ==
    TypeOK /\ GrantedCovered /\ WindowPaid /\ [Next]_vars => WindowPaid'
  <1> SUFFICES ASSUME TypeOK, GrantedCovered, WindowPaid, [Next]_vars,
                      NEW b \in Request
               PROVE  /\ level'[b] >= 0
                      /\ used' * Unit(b) + level'[b] <= Full(b) + Cap[b] * span'
    BY DEF WindowPaid, Unit, Full
  <1> USE DEF window
  <1>b. /\ b \in Bucket /\ b \notin Usage
        /\ Unit(b) \in Nat /\ Full(b) \in Nat /\ Cap[b] \in Nat
        /\ level[b] \in Int /\ level[b] <= Full(b) /\ level[b] >= 0
    BY BucketType, BucketsApart DEF Bucket, TypeOK, WindowPaid
  <1>w. used * Unit(b) + level[b] <= Full(b) + Cap[b] * span
    BY DEF WindowPaid
  <1>n. /\ used \in Nat /\ span \in Nat
        /\ used * Unit(b) \in Int /\ Cap[b] * span \in Int
        /\ (used + 1) * Unit(b) = used * Unit(b) + Unit(b)
        /\ Cap[b] * (span + 1) = Cap[b] * span + Cap[b]
        /\ 0 * Unit(b) = 0 /\ Cap[b] * 0 = 0
    BY <1>b, OneMore DEF TypeOK
  <1>1. ASSUME NEW c \in Caller, Step(c) \/ Lock(c) \/ Unrecorded(c)
        PROVE  /\ level'[b] >= 0
               /\ used' * Unit(b) + level'[b] <= Full(b) + Cap[b] * span'
    <2>1. CASE Acquire(c) \/ Check(c) \/ Sleep(c) \/ Wake(c) \/ Lock(c) \/ Unrecorded(c)
      BY <2>1, <1>b, <1>w DEF Acquire, Check, Sleep, Wake, Lock, Unrecorded
    <2>2. CASE Charge(c)
      <3>1. level[b] >= Unit(b)
        BY <2>2, <1>b DEF Charge, GrantedCovered
      <3>2. level'[b] = level[b] - Unit(b) /\ used' = used + 1 /\ span' = span
        BY <2>2, <1>b DEF Charge
      <3> QED
        BY <3>1, <3>2, <1>b, <1>w, <1>n
    <2> QED
      BY <1>1, <2>1, <2>2 DEF Step
  <1>2. ASSUME NEW c \in Caller, NEW n \in 1..MaxUse, Record(c, n)
        PROVE  /\ level'[b] >= 0
               /\ used' * Unit(b) + level'[b] <= Full(b) + Cap[b] * span'
    BY <1>2, <1>b, <1>w DEF Record
  <1>3. CASE Tick
    <2>1. /\ level'[b] >= 0 /\ level'[b] <= Full(b)
          /\ level'[b] \in Int /\ level'[b] <= level[b] + Cap[b]
      BY <1>3, <1>b DEF Tick, Refilled, Lesser
    <2>2. CASE span < MaxSpan
      <3>1. span' = span + 1 /\ used' = used
        BY <1>3, <2>2 DEF Tick
      <3> QED
        BY <2>1, <3>1, <1>b, <1>w, <1>n
    <2>3. CASE ~(span < MaxSpan)
      <3>1. span' = 0 /\ used' = 0
        BY <1>3, <2>3 DEF Tick
      <3> QED
        BY <2>1, <3>1, <1>b, <1>n
    <2> QED
      BY <2>2, <2>3
  <1>4. CASE Observe
    BY <1>4, <1>b, <1>n DEF Observe
  <1>5. CASE UNCHANGED vars
    BY <1>5, <1>b, <1>w DEF vars
  <1> QED
    BY <1>1, <1>2, <1>3, <1>4, <1>5 DEF Next

(* DebtBounded reads the callers that are not in a call: at most all of    *)
(* them, one fewer when a call begins and one more when it ends.           *)
LEMMA OutsideCount ==
    ASSUME TypeOK
    PROVE  /\ IsFiniteSet(Caller \ Calling)
           /\ Cardinality(Caller \ Calling) \in Nat
  <1>1. IsFiniteSet(Caller \ Calling)
    BY RateLimiterAssumption, FS_Subset
  <1> QED
    BY <1>1, FS_CardinalityType

(* A call begins only with a whole unit in every bucket; it costs at most  *)
(* MaxUse when it ends, which is what its caller is then worth again.      *)
LEMMA DebtStep ==
    TypeOK /\ GrantedCovered /\ DebtBounded /\ [Next]_vars => DebtBounded'
  <1> SUFFICES ASSUME TypeOK, GrantedCovered, DebtBounded, [Next]_vars,
                      NEW b \in Usage
               PROVE  level'[b] >= Unit(b) - MaxUse * Unit(b)
                                             * Cardinality(Caller \ Calling')
    BY DEF DebtBounded, Unit, Calling
  <1> DEFINE Outside == Cardinality(Caller \ Calling)
             Cost == MaxUse * Unit(b)
  <1> USE DEF window
  <1>b. /\ b \in Bucket /\ b \notin Request
        /\ Unit(b) \in Nat /\ Full(b) \in Nat /\ Cap[b] \in Nat
        /\ Full(b) >= Unit(b)
        /\ level[b] \in Int /\ level[b] <= Full(b)
    BY BucketType, BucketsApart DEF Bucket, TypeOK
  <1>d. level[b] >= Unit(b) - Cost * Outside
    BY DEF DebtBounded
  <1>o. Outside \in Nat /\ IsFiniteSet(Caller \ Calling)
    BY OutsideCount
  <1>c. Cost \in Nat /\ Cost * Outside \in Nat
    BY <1>b, <1>o, RateLimiterAssumption
  <1>p. pc \in [Caller -> PC]
    BY DEF TypeOK
  <1> HIDE DEF Outside, Cost
  <1> SUFFICES level'[b] >= Unit(b) - Cost * Cardinality(Caller \ Calling')
    BY DEF Cost
  <1>1. ASSUME Calling' = Calling, level'[b] \in Int, level'[b] >= level[b]
        PROVE  level'[b] >= Unit(b) - Cost * Cardinality(Caller \ Calling')
    <2>1. Cardinality(Caller \ Calling') = Outside
      BY <1>1 DEF Outside
    <2> QED
      BY <1>1, <2>1, <1>b, <1>c, <1>d
  <1>2. ASSUME NEW c \in Caller,
               Acquire(c) \/ Check(c) \/ Sleep(c) \/ Wake(c) \/ Lock(c)
        PROVE  Calling' = Calling /\ level'[b] = level[b]
    BY <1>2, <1>p DEF Acquire, Check, Sleep, Wake, Lock, Goto, Calling
  <1>3. ASSUME NEW c \in Caller, Charge(c)
        PROVE  level'[b] >= Unit(b) - Cost * Cardinality(Caller \ Calling')
    <2>1. level'[b] = level[b] /\ level[b] >= Unit(b)
      BY <1>3, <1>b DEF Charge, GrantedCovered
    <2>2. Cardinality(Caller \ Calling') \in Nat
      BY RateLimiterAssumption, FS_Subset, FS_CardinalityType
    <2>3. Cost * Cardinality(Caller \ Calling') \in Nat
      BY <2>2, <1>c
    <2> QED
      BY <2>1, <2>3, <1>b
  <1>4. ASSUME NEW c \in Caller, pc[c] = "calling", Goto(c, "idle")
        PROVE  Cost * Cardinality(Caller \ Calling') = Cost * Outside + Cost
    <2>1. Caller \ Calling' = (Caller \ Calling) \cup {c}
      BY <1>4, <1>p DEF Goto, Calling
    <2>2. c \notin Caller \ Calling
      BY <1>4 DEF Calling
    <2>3. Cardinality(Caller \ Calling') = Outside + 1
      BY <2>1, <2>2, <1>o, FS_AddElement DEF Outside
    <2> QED
      BY <2>3, <1>o, <1>c, OneMore
  <1>5. ASSUME NEW c \in Caller, Unrecorded(c)
        PROVE  level'[b] >= Unit(b) - Cost * Cardinality(Caller \ Calling')
    <2>1. level'[b] = level[b] /\ pc[c] = "calling" /\ Goto(c, "idle")
      BY <1>5 DEF Unrecorded
    <2>2. Cost * Cardinality(Caller \ Calling') = Cost * Outside + Cost
      BY <2>1, <1>4
    <2> QED
      BY <2>1, <2>2, <1>b, <1>c, <1>d
  <1>6. ASSUME NEW c \in Caller, NEW n \in 1..MaxUse, Record(c, n)
        PROVE  level'[b] >= Unit(b) - Cost * Cardinality(Caller \ Calling')
    <2>1. /\ level'[b] = level[b] - n * Unit(b)
          /\ pc[c] = "calling" /\ Goto(c, "idle")
      BY <1>6, <1>b DEF Record
    <2>2. n * Unit(b) \in Nat /\ n * Unit(b) <= Cost
      BY <1>b, Grows, RateLimiterAssumption DEF Cost
    <2>3. Cost * Cardinality(Caller \ Calling') = Cost * Outside + Cost
      BY <2>1, <1>4
    <2> QED
      BY <2>1, <2>2, <2>3, <1>b, <1>c, <1>d
  <1>7. CASE Tick
    <2>1. Calling' = Calling
      BY <1>7 DEF Tick, Calling
    <2>2. level'[b] \in Int /\ level'[b] >= level[b]
      BY <1>7, <1>b DEF Tick, Refilled, Lesser
    <2> QED
      BY <2>1, <2>2, <1>1
  <1>8. CASE Observe
    BY <1>8, <1>1, <1>b DEF Observe, Calling
  <1>9. CASE UNCHANGED vars
    BY <1>9, <1>1, <1>b DEF vars, Calling
  <1> QED
    <2>1. ASSUME NEW c \in Caller,
                 Acquire(c) \/ Check(c) \/ Sleep(c) \/ Wake(c) \/ Lock(c)
          PROVE  level'[b] >= Unit(b) - Cost * Cardinality(Caller \ Calling')
      BY <2>1, <1>1, <1>2, <1>b
    <2> QED
      BY <2>1, <1>3, <1>5, <1>6, <1>7, <1>8, <1>9 DEF Next, Step

-----------------------------------------------------------------------------
(* The invariant is inductive.                                             *)
LEMMA Invariant == Spec => []IInv
  <1>1. Init => IInv
    <2> SUFFICES ASSUME Init PROVE IInv
      OBVIOUS
    <2>b. ASSUME NEW b \in Bucket
          PROVE  /\ level[b] = Full(b) /\ level[b] \in Nat
                 /\ Unit(b) \in Nat /\ Full(b) >= Unit(b)
                 /\ 0 * Unit(b) = 0 /\ Cap[b] * 0 = 0
      BY <2>b, BucketType DEF Init
    <2>1. TypeOK
      BY <2>b, RateLimiterAssumption DEF Init, TypeOK, PC
    <2>2. LockHeld /\ GrantedCovered
      BY RateLimiterAssumption DEF Init, LockHeld, GrantedCovered
    <2>3. WindowPaid
      <3> SUFFICES ASSUME NEW b \in Request
                   PROVE  /\ level[b] >= 0
                          /\ used * Unit(b) + level[b] <= Full(b) + Cap[b] * span
        BY DEF WindowPaid
      <3>1. b \in Bucket /\ used = 0 /\ span = 0
        BY DEF Init, Bucket
      <3>2. used * Unit(b) = 0 /\ Cap[b] * span = 0
        BY <3>1, <2>b
      <3> QED
        BY <3>1, <3>2, <2>b
    <2>4. DebtBounded
      <3> SUFFICES ASSUME NEW b \in Usage
                   PROVE  level[b] >= Unit(b) - MaxUse * Unit(b)
                                                * Cardinality(Caller \ Calling)
        BY DEF DebtBounded
      <3>1. b \in Bucket
        BY DEF Bucket
      <3>2. MaxUse * Unit(b) \in Nat
        BY <3>1, <2>b, RateLimiterAssumption
      <3>3. (MaxUse * Unit(b)) * Cardinality(Caller \ Calling) \in Nat
        BY <3>2, <2>1, OutsideCount
      <3> QED
        BY <3>1, <3>3, <2>b
    <2> QED
      BY <2>1, <2>2, <2>3, <2>4 DEF IInv
  <1>2. IInv /\ [Next]_vars => IInv'
    BY TypeStep, LockStep, CoverStep, WindowStep, DebtStep DEF IInv
  <1> QED
    BY <1>1, <1>2, PTL DEF Spec

(* Every variable keeps its type; no bucket ever holds more than its quota.*)
THEOREM TypeCorrect == Spec => []TypeOK
  <1>1. IInv => TypeOK
    BY DEF IInv
  <1> QED
    BY <1>1, Invariant, PTL

(* No window of any length, wherever it begins, admits more requests than  *)
(* a full bucket and what flowed in meanwhile pay for.                     *)
THEOREM AdmissionsPaid == Spec => []AdmissionsBounded
  <1>1. IInv => AdmissionsBounded
    <2> SUFFICES ASSUME IInv, NEW b \in Request
                 PROVE  used * Unit(b) <= Full(b) + Cap[b] * span
      BY DEF AdmissionsBounded
    <2>1. /\ Unit(b) \in Nat /\ Full(b) \in Nat /\ Cap[b] \in Nat
          /\ used \in Nat /\ span \in Nat /\ level[b] \in Int
      BY BucketType DEF IInv, TypeOK, Bucket
    <2>2. used * Unit(b) \in Int /\ Cap[b] * span \in Int
      BY <2>1
    <2> QED
      BY <2>1, <2>2 DEF IInv, WindowPaid
  <1> QED
    BY <1>1, Invariant, PTL

(* The debt of a bucket that is charged late never exceeds what the calls  *)
(* that can be under way at once may cost.                                 *)
THEOREM DebtCovered == Spec => []DebtBounded
  <1>1. IInv => DebtBounded
    BY DEF IInv
  <1> QED
    BY <1>1, Invariant, PTL

-----------------------------------------------------------------------------
(* The parts share no state: each behaves as it does alone, whichever of   *)
(* them is at work.                                                        *)
THEOREM PartsAreThemselves == WorkersSpec => Spec /\ Registry!Spec
  <1>1. WorkersInit => Init /\ Registry!Init
    BY DEF WorkersInit
  <1>2. ASSUME [WorkersNext]_<<part, vars, registry>>
        PROVE  [Next]_vars /\ [Registry!Next]_(Registry!vars)
    BY <1>2 DEF WorkersNext, registry, Registry!vars, Registry!jobVars
  <1> QED
    BY <1>1, <1>2, PTL DEF WorkersSpec, Spec, Registry!Spec

-----------------------------------------------------------------------------
(* How a job, its task and the executor thread are coupled, whatever the   *)
(* coroutine does.                                                         *)
TaskInv(j) ==
    /\ task[j] = "none" <=> state[j] = "absent"
    /\ cancelReq[j] => task[j] \in Registry!LiveTask
    /\ task[j] = "raised" => j \in Faulty
    /\ hand[j] # "away" => j \in Threaded /\ state[j] # "absent"

(* What holds besides when the coroutine lets a cancellation through.      *)
ObedientInv(j) ==
    /\ task[j] \in {"ready", "awaiting"} /\ ~cancelReq[j] => state[j] = "running"
    /\ hand[j] = "delivered" /\ task[j] \in Registry!LiveTask => cancelReq[j]
    /\ ~open /\ task[j] \in Registry!LiveTask => cancelReq[j]

(* What holds when it is only ever cancelled on the event loop, whatever   *)
(* the coroutine does.                                                     *)
LoopInv(j) ==
    /\ cancelReq[j] => state[j] = "canceled"
    /\ task[j] \in {"landing", "landed"} => ~cancelReq[j]
    /\ task[j] \in {"ready", "awaiting", "landing"}
          => \/ state[j] = "running"
             \/ state[j] = "canceled" /\ (cancelReq[j] \/ j \in Stubborn)
    /\ task[j] = "ready" /\ ~cancelReq[j] => state[j] = "running"
    /\ task[j] \in {"landed", "returned"} => state[j] \in {"done", "error"}
    /\ task[j] = "cancelled" => state[j] = "canceled"
    /\ state[j] \in Registry!Terminal <=> finished[j] > 0
    /\ state[j] = "done" <=> outcome[j] = "value"

(* And when the coroutine lets a cancellation through besides.             *)
SettlingInv(j) ==
    /\ cancelReq[j] => state[j] = "canceled"
    /\ task[j] \in {"landing", "raised"} => state[j] = "running"
    /\ task[j] \in {"landed", "returned"} => state[j] \in {"done", "error"}
    /\ task[j] = "cancelled" => state[j] = "canceled"
    /\ state[j] \in Registry!Terminal => finished[j] = 1
    /\ state[j] \notin Registry!Terminal => finished[j] = 0
    /\ state[j] = "done" <=> outcome[j] = "value"
    /\ state[j] = "error" <=> outcome[j] = "failure"
    /\ j \in granted => state[j] = "canceled"

JobOK(j) ==
    /\ TaskInv(j)
    /\ j \in Registry!Obedient => ObedientInv(j)
    /\ j \notin Threaded => LoopInv(j)
    /\ j \in Registry!Settling => SettlingInv(j)

JobInv == \A j \in Job : JobOK(j)

(* The inductive invariant: the properties of the jobs rest on JobInv, the *)
(* two about wait() are inductive relative to it.                          *)
RegistryInv == Registry!TypeOK /\ JobInv /\ Registry!WaitIsFinal /\ Registry!EscapeHasCause

-----------------------------------------------------------------------------
(* A blocked call of wait() waits for a job of this registry.              *)
LEMMA WaiterJob ==
    ASSUME Registry!TypeOK, NEW w \in Waiter, waiter[w].at # "idle"
    PROVE  waiter[w].job \in Job
  <1>1. waiter[w] \in Registry!WaiterState
    BY DEF Registry!TypeOK
  <1>2. waiter[w] # Registry!Idle
    BY DEF Registry!Idle
  <1> QED
    BY <1>1, <1>2 DEF Registry!WaiterState

(* Every step keeps every variable within its type.                        *)
LEMMA RegistryTypeStep == Registry!TypeOK /\ [Registry!Next]_(Registry!vars) => Registry!TypeOK'
  <1> SUFFICES ASSUME Registry!TypeOK, [Registry!Next]_(Registry!vars) PROVE Registry!TypeOK'
    OBVIOUS
  <1> USE DEF Registry!TypeOK, Registry!JobState, Registry!Terminal, Registry!LiveTask,
              Registry!EndedTask, Registry!Landing
  <1>1. ASSUME NEW j \in Job, Registry!Submit(j) PROVE Registry!TypeOK'
    BY <1>1 DEF Registry!Submit
  <1>2. ASSUME NEW j \in Job, Registry!Cancel(j) PROVE Registry!TypeOK'
    BY <1>2 DEF Registry!Cancel, Registry!MarkCanceled
  <1>3. ASSUME NEW j \in Job, Registry!TaskStep(j) PROVE Registry!TypeOK'
    <2>1. CASE Registry!Start(j) \/ Registry!FactoryRaises(j) \/ Registry!DropUnstarted(j)
      BY <2>1 DEF Registry!Start, Registry!FactoryRaises, Registry!DropUnstarted
    <2>2. CASE Registry!Land(j) \/ Registry!End(j)
      BY <2>2 DEF Registry!Land, Registry!End
    <2>5. CASE Registry!Finish(j)
      BY <2>5 DEF Registry!Finish
    <2>3. CASE Registry!Unwind(j)
      <3>1. finished' \in [Job -> Nat]
        BY <2>3 DEF Registry!Unwind
      <3> QED
        BY <2>3, <3>1 DEF Registry!Unwind
    <2>4. CASE Registry!Swallow(j)
      BY <2>4 DEF Registry!Swallow
    <2> QED
      BY <1>3, <2>1, <2>2, <2>3, <2>4, <2>5 DEF Registry!TaskStep
  <1>4. ASSUME NEW w \in Waiter, Registry!Wake(w) PROVE Registry!TypeOK'
    <2> DEFINE j == waiter[w].job
    <2>1. j \in Job
      BY <1>4, WaiterJob DEF Registry!Wake
    <2>2. Registry!Snapshot(j) \in Registry!WaiterState
          /\ Registry!Escaped(j) \in Registry!WaiterState
      BY <2>1 DEF Registry!WaiterState, Registry!Snapshot, Registry!Escaped
    <2> QED
      BY <1>4, <2>2 DEF Registry!Wake, Registry!jobVars
  <1>5. ASSUME NEW w \in Waiter, Registry!TimeOut(w) PROVE Registry!TypeOK'
    <2>1. Registry!TimedOut(waiter[w].job) \in Registry!WaiterState
      BY <1>5, WaiterJob DEF Registry!TimeOut, Registry!WaiterState, Registry!TimedOut
    <2> QED
      BY <1>5, <2>1 DEF Registry!TimeOut, Registry!jobVars
  <1>6. ASSUME NEW w \in Waiter, NEW j \in Job, Registry!Wait(w, j) PROVE Registry!TypeOK'
    <2>1. Registry!Snapshot(j) \in Registry!WaiterState
          /\ Registry!Blocked(j) \in Registry!WaiterState
      BY DEF Registry!WaiterState, Registry!Snapshot, Registry!Blocked
    <2> QED
      BY <1>6, <2>1 DEF Registry!Wait, Registry!jobVars
  <1>7. ASSUME Registry!Close PROVE Registry!TypeOK'
    <2>1. \A w \in Waiter : waiter[w].at = "blocked" =>
                                Registry!Interrupted(waiter[w].job) \in Registry!WaiterState
      BY WaiterJob DEF Registry!WaiterState, Registry!Interrupted
    <2>2. waiter' \in [Waiter -> Registry!WaiterState]
      BY <1>7, <2>1 DEF Registry!Close
    <2> QED
      BY <1>7, <2>2 DEF Registry!Close, Registry!MarkCanceled
  <1>8. ASSUME NEW j \in Job, Registry!ThreadStep(j) PROVE Registry!TypeOK'
    <2>1. CASE Registry!ThreadCheck(j) \/ Registry!ThreadDeliver(j)
      BY <2>1 DEF Registry!ThreadCheck, Registry!ThreadDeliver, Registry!jobVars
    <2>2. CASE Registry!ThreadMark(j)
      <3>1. finished' \in [Job -> Nat]
        BY <2>2 DEF Registry!ThreadMark
      <3> QED
        BY <2>2, <3>1 DEF Registry!ThreadMark
    <2> QED
      BY <1>8, <2>1, <2>2 DEF Registry!ThreadStep
  <1>9. CASE UNCHANGED Registry!vars
    BY <1>9 DEF Registry!vars, Registry!jobVars
  <1> QED
    BY <1>1, <1>2, <1>3, <1>4, <1>5, <1>6, <1>7, <1>8, <1>9 DEF Registry!Next

-----------------------------------------------------------------------------
(* Every step keeps each job coupled to its task.  Only the step of the    *)
(* job itself can disturb its part; Close disturbs all of them at once.    *)
LEMMA JobStep == Registry!TypeOK /\ JobInv /\ [Registry!Next]_(Registry!vars) => JobInv'
  <1> SUFFICES ASSUME Registry!TypeOK, JobInv, [Registry!Next]_(Registry!vars), NEW i \in Job
               PROVE  JobOK(i)'
    BY DEF JobInv
  <1>0. JobOK(i)
    BY DEF JobInv
  <1>t. /\ state \in [Job -> Registry!JobState]
        /\ outcome \in [Job -> {"none", "value", "failure"}]
        /\ finished \in [Job -> Nat]
        /\ task \in [Job -> {"none"} \cup Registry!LiveTask \cup Registry!EndedTask]
        /\ cancelReq \in [Job -> BOOLEAN]
        /\ hand \in [Job -> {"away", "checked", "delivered"}]
    BY DEF Registry!TypeOK
  <1> USE DEF JobOK, TaskInv, ObedientInv, LoopInv, SettlingInv, Registry!Settling, Registry!JobState,
              Registry!Terminal, Registry!LiveTask, Registry!EndedTask, Registry!Landing
  <1>1. ASSUME NEW j \in Job, Registry!Submit(j) PROVE JobOK(i)'
    BY <1>0, <1>1, <1>t DEF Registry!Submit
  <1>2. ASSUME NEW j \in Job, Registry!Cancel(j) PROVE JobOK(i)'
    <2>1. /\ task' = task /\ outcome' = outcome /\ hand' = hand /\ open' = open
          /\ task[i] \notin Registry!Landing
      BY <1>2 DEF Registry!Cancel, Registry!Quiet, Registry!MarkCanceled
    <2>2. CASE i = j
      <3>1. /\ state[i] = "running" /\ task[i] \in Registry!LiveTask
            /\ state'[i] = "canceled" /\ cancelReq'[i]
        BY <1>2, <2>2, <1>t DEF Registry!Cancel, Registry!Cancellable,
                                Registry!MarkCanceled
      <3>f. finished'[i] = IF finished[i] = 0 THEN 1 ELSE finished[i]
        BY <1>2, <2>2 DEF Registry!Cancel, Registry!MarkCanceled
      <3>g. finished'[i] > 0 /\ (finished[i] = 0 => finished'[i] = 1)
        BY <3>f, <1>t
      <3>2. TaskInv(i)' /\ ObedientInv(i)'
        BY <1>0, <2>1, <3>1, <1>t
      <3>3. i \notin Threaded => LoopInv(i)'
        BY <1>0, <2>1, <3>1, <3>g, <1>t
      <3>4. i \in Registry!Settling => SettlingInv(i)'
        BY <1>0, <1>2, <2>1, <2>2, <3>1, <1>t DEF Registry!Cancel, Registry!MarkCanceled
      <3> QED
        BY <3>2, <3>3, <3>4
    <2>3. CASE i # j
      <3>1. /\ state'[i] = state[i] /\ cancelReq'[i] = cancelReq[i]
            /\ finished'[i] = finished[i] /\ (i \in granted' => i \in granted)
        BY <1>2, <2>3, <1>t DEF Registry!Cancel, Registry!MarkCanceled
      <3> QED
        BY <1>0, <2>1, <3>1
    <2> QED
      BY <2>2, <2>3
  <1>3. ASSUME NEW j \in Job, Registry!TaskStep(j) PROVE JobOK(i)'
    <2>1. CASE Registry!Start(j)
      BY <1>0, <2>1, <1>t DEF Registry!Start
    <2>2. CASE Registry!FactoryRaises(j)
      BY <1>0, <2>2, <1>t DEF Registry!FactoryRaises
    <2>3. CASE Registry!DropUnstarted(j)
      BY <1>0, <2>3, <1>t DEF Registry!DropUnstarted
    <2>4. CASE Registry!Land(j)
      BY <1>0, <2>4, <1>t DEF Registry!Land
    <2>5. CASE Registry!Finish(j)
      <3>1. CASE i = j
        <4>1. /\ task[i] = "landing" /\ task'[i] = "landed"
              /\ \/ state'[i] = "done" /\ outcome'[i] = "value"
                 \/ state'[i] = "error" /\ outcome'[i] = "failure"
              /\ finished'[i] = finished[i] + 1
              /\ UNCHANGED <<open, cancelReq, hand, granted>>
          BY <2>5, <3>1, <1>t DEF Registry!Finish
        <4>2. TaskInv(i)' /\ (i \in Registry!Obedient => ObedientInv(i)')
          BY <1>0, <4>1, <1>t
        <4>3. i \notin Threaded => LoopInv(i)'
          <5>1. finished'[i] > 0
            BY <4>1, <1>t
          <5> QED
            BY <1>0, <4>1, <5>1
        <4>4. i \in Registry!Settling => SettlingInv(i)'
          BY <1>0, <4>1, <1>t
        <4> QED
          BY <4>2, <4>3, <4>4
      <3>2. CASE i # j
        <4>1. /\ state'[i] = state[i] /\ outcome'[i] = outcome[i] /\ task'[i] = task[i]
              /\ finished'[i] = finished[i]
              /\ UNCHANGED <<open, cancelReq, hand, granted>>
          BY <2>5, <3>2, <1>t DEF Registry!Finish
        <4> QED
          BY <1>0, <4>1
      <3> QED
        BY <3>1, <3>2
    <2>6. CASE Registry!End(j)
      BY <1>0, <2>6, <1>t DEF Registry!End
    <2>7. CASE Registry!Unwind(j)
      BY <1>0, <2>7, <1>t DEF Registry!Unwind
    <2>8. CASE Registry!Swallow(j)
      BY <1>0, <2>8, <1>t DEF Registry!Swallow, Registry!Obedient
    <2> QED
      BY <1>3, <2>1, <2>2, <2>3, <2>4, <2>5, <2>6, <2>7, <2>8 DEF Registry!TaskStep
  <1>4. ASSUME NEW j \in Job, Registry!ThreadStep(j) PROVE JobOK(i)'
    <2>1. CASE Registry!ThreadCheck(j)
      BY <1>0, <2>1, <1>t DEF Registry!ThreadCheck, Registry!jobVars
    <2>2. CASE Registry!ThreadDeliver(j)
      BY <1>0, <2>2, <1>t, JobInv DEF Registry!ThreadDeliver, JobInv
    <2>3. CASE Registry!ThreadMark(j)
      BY <1>0, <2>3, <1>t DEF Registry!ThreadMark
    <2> QED
      BY <1>4, <2>1, <2>2, <2>3 DEF Registry!ThreadStep
  <1>5. ASSUME UNCHANGED <<open, Registry!jobVars, hand, granted>> PROVE JobOK(i)'
    BY <1>0, <1>5 DEF Registry!jobVars
  <1>6. ASSUME Registry!Close PROVE JobOK(i)'
    <2>1. /\ task' = task /\ outcome' = outcome /\ hand' = hand /\ granted' = granted
          /\ task[i] \notin Registry!Landing
      BY <1>6 DEF Registry!Close, Registry!Quiet, Registry!MarkCanceled
    <2>2. CASE Registry!Cancellable(i)
      <3>1. /\ state[i] = "running" /\ task[i] \in Registry!LiveTask
            /\ state'[i] = "canceled" /\ cancelReq'[i]
        BY <1>6, <2>2, <1>t DEF Registry!Close, Registry!Cancellable,
                                Registry!MarkCanceled
      <3>f. finished'[i] = IF finished[i] = 0 THEN 1 ELSE finished[i]
        BY <1>6, <2>2 DEF Registry!Close, Registry!MarkCanceled
      <3>g. finished'[i] > 0 /\ (finished[i] = 0 => finished'[i] = 1)
        BY <3>f, <1>t
      <3>2. TaskInv(i)' /\ ObedientInv(i)'
        BY <1>0, <2>1, <3>1, <1>t
      <3>3. i \notin Threaded => LoopInv(i)'
        BY <1>0, <2>1, <3>1, <3>g, <1>t
      <3>4. i \in Registry!Settling => SettlingInv(i)'
        BY <1>0, <2>1, <3>1, <3>g, <1>t
      <3> QED
        BY <3>2, <3>3, <3>4
    <2>3. CASE ~Registry!Cancellable(i)
      <3>1. /\ state'[i] = state[i] /\ cancelReq'[i] = cancelReq[i]
            /\ finished'[i] = finished[i]
        BY <1>6, <2>3, <1>t DEF Registry!Close, Registry!MarkCanceled
      <3>2. i \in Registry!Obedient => ObedientInv(i)'
        BY <1>0, <2>1, <2>3, <3>1, <1>t DEF Registry!Cancellable
      <3> QED
        BY <1>0, <2>1, <3>1, <3>2
    <2> QED
      BY <2>2, <2>3
  <1>7. ASSUME NEW w \in Waiter,
               Registry!Wake(w) \/ Registry!TimeOut(w) \/ (\E j \in Job : Registry!Wait(w, j))
        PROVE  UNCHANGED <<open, Registry!jobVars, hand, granted>>
    BY <1>7 DEF Registry!Wake, Registry!TimeOut, Registry!Wait
  <1> QED
    BY <1>1, <1>2, <1>3, <1>4, <1>5, <1>6, <1>7 DEF Registry!Next, Registry!vars

-----------------------------------------------------------------------------
(* No step touches a settled job that only the event loop may cancel.      *)
SettledJobsKept ==
    \A j \in Registry!Settling : state[j] \in Registry!Terminal =>
        /\ state'[j] = state[j]
        /\ outcome'[j] = outcome[j]
        /\ finished'[j] = finished[j]

(* What a settled job shows is out of reach of every step.                 *)
LEMMA SettledStep == Registry!TypeOK /\ JobInv /\ [Registry!Next]_(Registry!vars) => SettledJobsKept
  <1> SUFFICES ASSUME Registry!TypeOK, JobInv, [Registry!Next]_(Registry!vars),
                      NEW i \in Registry!Settling, state[i] \in Registry!Terminal
               PROVE  /\ state'[i] = state[i]
                      /\ outcome'[i] = outcome[i]
                      /\ finished'[i] = finished[i]
    BY DEF SettledJobsKept
  <1> DEFINE Kept == /\ state'[i] = state[i]
                     /\ outcome'[i] = outcome[i]
                     /\ finished'[i] = finished[i]
  <1>0. i \in Job \ Threaded /\ TaskInv(i) /\ ObedientInv(i) /\ SettlingInv(i)
    BY DEF JobInv, JobOK, Registry!Settling, Registry!Obedient
  <1>t. /\ state \in [Job -> Registry!JobState]
        /\ outcome \in [Job -> {"none", "value", "failure"}]
        /\ finished \in [Job -> Nat]
    BY DEF Registry!TypeOK
  <1> USE DEF TaskInv, ObedientInv, SettlingInv, Registry!Terminal, Registry!LiveTask
  <1>1. ASSUME NEW j \in Job, Registry!Submit(j) PROVE Kept
    BY <1>0, <1>1, <1>t DEF Registry!Submit
  <1>2. ASSUME NEW j \in Job, Registry!Cancel(j) PROVE Kept
    BY <1>0, <1>2, <1>t DEF Registry!Cancel, Registry!Cancellable, Registry!MarkCanceled
  <1>3. ASSUME NEW j \in Job, Registry!TaskStep(j) PROVE Kept
    <2>1. CASE \/ Registry!Start(j) \/ Registry!FactoryRaises(j) \/ Registry!DropUnstarted(j)
               \/ Registry!Land(j) \/ Registry!End(j) \/ Registry!Swallow(j)
      BY <2>1 DEF Registry!Start, Registry!FactoryRaises, Registry!DropUnstarted, Registry!Land,
                  Registry!End, Registry!Swallow
    <2>2. CASE Registry!Finish(j)
      BY <1>0, <2>2, <1>t DEF Registry!Finish
    <2>3. CASE Registry!Unwind(j)
      BY <1>0, <2>3, <1>t DEF Registry!Unwind
    <2> QED
      BY <1>3, <2>1, <2>2, <2>3 DEF Registry!TaskStep
  <1>4. ASSUME Registry!Close PROVE Kept
    BY <1>0, <1>4, <1>t DEF Registry!Close, Registry!Cancellable, Registry!MarkCanceled
  <1>5. ASSUME NEW w \in Waiter,
               Registry!Wake(w) \/ Registry!TimeOut(w) \/ (\E j \in Job : Registry!Wait(w, j))
        PROVE  Kept
    BY <1>5 DEF Registry!Wake, Registry!TimeOut, Registry!Wait, Registry!jobVars
  <1>6. ASSUME NEW j \in Job, Registry!ThreadStep(j) PROVE Kept
    <2>1. CASE Registry!ThreadCheck(j) \/ Registry!ThreadDeliver(j)
      BY <2>1 DEF Registry!ThreadCheck, Registry!ThreadDeliver, Registry!jobVars
    <2>2. CASE Registry!ThreadMark(j)
      <3>1. j # i
        BY <1>0, <2>2, JobInv DEF Registry!ThreadMark, JobInv, JobOK
      <3> QED
        BY <2>2, <3>1, <1>t DEF Registry!ThreadMark
    <2> QED
      BY <1>6, <2>1, <2>2 DEF Registry!ThreadStep
  <1>7. CASE UNCHANGED Registry!vars
    BY <1>7 DEF Registry!vars, Registry!jobVars
  <1> QED
    BY <1>1, <1>2, <1>3, <1>4, <1>5, <1>6, <1>7 DEF Registry!Next

-----------------------------------------------------------------------------
(* What one call of wait() has reported, and why an exception left it.     *)
FinalInv(w) ==
    (waiter[w].at = "returned" /\ waiter[w].state # "TIMEOUT") =>
        (waiter[w].job \in Registry!Settling =>
            /\ state[waiter[w].job] \in Registry!Terminal
            /\ waiter[w].state = state[waiter[w].job]
            /\ waiter[w].result <=> state[waiter[w].job] = "done")

CauseInv(w) ==
    waiter[w].at = "escaped" =>
        \/ task[waiter[w].job] = "cancelled"
        \/ task[waiter[w].job] = "raised" /\ waiter[w].job \in Faulty

(* A snapshot reports the job as it is.                                    *)
LEMMA SnapshotFields ==
    ASSUME NEW j
    PROVE  /\ Registry!Snapshot(j).at = "returned"
           /\ Registry!Snapshot(j).job = j
           /\ Registry!Snapshot(j).state = state[j]
           /\ Registry!Snapshot(j).result <=> state[j] = "done"
  <1>1. Registry!Snapshot(j).result <=> state[j] = "done"
    BY Zenon DEF Registry!Snapshot
  <1> QED
    BY <1>1 DEF Registry!Snapshot

(* An ended task stays as it is.                                           *)
LEMMA EndedStep ==
    ASSUME Registry!TypeOK, JobInv, [Registry!Next]_(Registry!vars), NEW i \in Job, task[i] \in Registry!EndedTask
    PROVE  task'[i] = task[i]
  <1>0. TaskInv(i)
    BY DEF JobInv, JobOK
  <1>t. task \in [Job -> {"none"} \cup Registry!LiveTask \cup Registry!EndedTask]
    BY DEF Registry!TypeOK
  <1> USE DEF TaskInv, Registry!EndedTask, Registry!LiveTask, Registry!Landing
  <1>1. ASSUME NEW j \in Job, Registry!Submit(j) PROVE task'[i] = task[i]
    BY <1>0, <1>1, <1>t DEF Registry!Submit
  <1>2. ASSUME NEW j \in Job, Registry!TaskStep(j) PROVE task'[i] = task[i]
    BY <1>2, <1>t DEF Registry!TaskStep, Registry!Start, Registry!FactoryRaises,
                      Registry!DropUnstarted, Registry!Land,
                      Registry!Finish, Registry!End, Registry!Unwind, Registry!Swallow
  <1>3. ASSUME NEW j \in Job, Registry!Cancel(j) \/ Registry!Close \/ Registry!ThreadStep(j)
        PROVE  task'[i] = task[i]
    BY <1>3 DEF Registry!Cancel, Registry!Close, Registry!MarkCanceled, Registry!ThreadStep,
                Registry!ThreadCheck,
                Registry!ThreadDeliver, Registry!ThreadMark, Registry!jobVars
  <1>4. ASSUME NEW w \in Waiter,
               Registry!Wake(w) \/ Registry!TimeOut(w) \/ (\E j \in Job : Registry!Wait(w, j))
        PROVE  task'[i] = task[i]
    BY <1>4 DEF Registry!Wake, Registry!TimeOut, Registry!Wait, Registry!jobVars
  <1> QED
    BY <1>1, <1>2, <1>3, <1>4 DEF Registry!Next, Registry!vars, Registry!jobVars

(* Every step keeps both.  The call that reports is looked at on its own,  *)
(* the others rest on what settled jobs and ended tasks keep.              *)
LEMMA WaitStep ==
    ASSUME Registry!TypeOK, JobInv, Registry!WaitIsFinal, Registry!EscapeHasCause, [Registry!Next]_(Registry!vars)
    PROVE  Registry!WaitIsFinal' /\ Registry!EscapeHasCause'
  <1> SUFFICES ASSUME NEW v \in Waiter PROVE FinalInv(v)' /\ CauseInv(v)'
    BY DEF Registry!WaitIsFinal, Registry!EscapeHasCause, FinalInv, CauseInv
  <1>0. FinalInv(v) /\ CauseInv(v)
    BY DEF Registry!WaitIsFinal, Registry!EscapeHasCause, FinalInv, CauseInv
  <1>t. waiter \in [Waiter -> Registry!WaiterState]
    BY DEF Registry!TypeOK
  <1>1. CASE waiter'[v] = waiter[v]
    <2>1. ASSUME waiter[v].at # "idle" PROVE waiter[v].job \in Job
      BY <2>1, WaiterJob
    <2>2. FinalInv(v)'
      BY <1>0, <1>1, <2>1, SettledStep DEF FinalInv, SettledJobsKept
    <2>3. CauseInv(v)'
      BY <1>0, <1>1, <2>1, EndedStep DEF CauseInv, Registry!EndedTask
    <2> QED
      BY <2>2, <2>3
  <1>2. CASE waiter'[v] # waiter[v]
    <2>1. ASSUME Registry!Wake(v) PROVE FinalInv(v)' /\ CauseInv(v)'
      <3> DEFINE j == waiter[v].job
      <3>1. j \in Job
        BY <2>1, WaiterJob DEF Registry!Wake
      <3>2. UNCHANGED <<state, task>>
        BY <2>1 DEF Registry!Wake, Registry!jobVars
      <3>3. CASE task[j] = "returned"
        <4>1. waiter'[v] = Registry!Snapshot(j)
          BY <2>1, <3>3, <1>t DEF Registry!Wake
        <4>2. j \in Registry!Settling => state[j] \in Registry!Terminal
          BY <3>1, <3>3 DEF JobInv, JobOK, SettlingInv, Registry!Terminal
        <4> QED
          BY <3>2, <4>1, <4>2, SnapshotFields DEF FinalInv, CauseInv
      <3>4. CASE task[j] # "returned"
        <4>1. waiter'[v] = Registry!Escaped(j)
          BY <2>1, <3>4, <1>t DEF Registry!Wake
        <4>2. task[j] = "cancelled" \/ (task[j] = "raised" /\ j \in Faulty)
          BY <2>1, <3>1, <3>4 DEF Registry!Wake, Registry!EndedTask, JobInv, JobOK, TaskInv
        <4> QED
          BY <3>2, <4>1, <4>2 DEF FinalInv, CauseInv, Registry!Escaped
      <3> QED
        BY <3>3, <3>4
    <2>2. ASSUME Registry!TimeOut(v) PROVE FinalInv(v)' /\ CauseInv(v)'
      <3>1. waiter'[v] = Registry!TimedOut(waiter[v].job)
        BY <2>2, <1>t DEF Registry!TimeOut
      <3> QED
        BY <3>1 DEF Registry!TimedOut, FinalInv, CauseInv
    <2>3. ASSUME NEW j \in Job, Registry!Wait(v, j) PROVE FinalInv(v)' /\ CauseInv(v)'
      <3>1. UNCHANGED <<state, task>>
        BY <2>3 DEF Registry!Wait, Registry!jobVars
      <3>2. CASE state[j] \in Registry!Terminal
        <4>1. waiter'[v] = Registry!Snapshot(j)
          BY <2>3, <3>2, <1>t DEF Registry!Wait
        <4> QED
          BY <3>1, <3>2, <4>1, SnapshotFields DEF FinalInv, CauseInv
      <3>3. CASE state[j] \notin Registry!Terminal
        <4>1. waiter'[v] = Registry!Blocked(j)
          BY <2>3, <3>3, <1>t DEF Registry!Wait
        <4> QED
          BY <4>1 DEF FinalInv, CauseInv, Registry!Blocked
      <3> QED
        BY <3>2, <3>3
    <2>4. ASSUME Registry!Close PROVE FinalInv(v)' /\ CauseInv(v)'
      <3>1. waiter'[v] = Registry!Interrupted(waiter[v].job)
        BY <1>2, <1>t, <2>4 DEF Registry!Close
      <3> QED
        BY <3>1 DEF Registry!Interrupted, FinalInv, CauseInv
    <2>5. Registry!Wake(v) \/ Registry!TimeOut(v) \/ (\E j \in Job : Registry!Wait(v, j))
          \/ Registry!Close
      <3>1. ASSUME NEW j \in Job,
                   Registry!Submit(j) \/ Registry!Cancel(j) \/ Registry!TaskStep(j)
                   \/ Registry!ThreadStep(j)
            PROVE  FALSE
        BY <1>2, <3>1 DEF Registry!Submit, Registry!Cancel, Registry!TaskStep, Registry!Start,
                          Registry!FactoryRaises,
                          Registry!DropUnstarted, Registry!Land, Registry!Finish, Registry!End,
                          Registry!Unwind, Registry!Swallow,
                          Registry!ThreadStep, Registry!ThreadCheck, Registry!ThreadDeliver,
                          Registry!ThreadMark
      <3>2. ASSUME NEW w \in Waiter, w # v,
                   Registry!Wake(w) \/ Registry!TimeOut(w) \/ (\E j \in Job : Registry!Wait(w, j))
            PROVE  FALSE
        BY <1>2, <1>t, <3>2 DEF Registry!Wake, Registry!TimeOut, Registry!Wait
      <3>3. ~UNCHANGED Registry!vars
        BY <1>2 DEF Registry!vars
      <3> QED
        BY <3>1, <3>2, <3>3 DEF Registry!Next
    <2> QED
      BY <2>1, <2>2, <2>3, <2>4, <2>5
  <1> QED
    BY <1>1, <1>2

-----------------------------------------------------------------------------
(* The initial state satisfies the inductive invariant.                    *)
LEMMA RegistryInit == Registry!Init => RegistryInv
  <1> SUFFICES ASSUME Registry!Init PROVE RegistryInv
    OBVIOUS
  <1>1. Registry!TypeOK
    BY DEF Registry!Init, Registry!TypeOK, Registry!JobState, Registry!WaiterState, Registry!Idle
  <1>2. JobInv
    BY DEF Registry!Init, JobInv, JobOK, TaskInv, ObedientInv, LoopInv, SettlingInv,
       Registry!Terminal,
           Registry!LiveTask, Registry!Landing
  <1>3. Registry!WaitIsFinal /\ Registry!EscapeHasCause
    BY DEF Registry!Init, Registry!Idle, Registry!WaitIsFinal, Registry!EscapeHasCause
  <1> QED
    BY <1>1, <1>2, <1>3 DEF RegistryInv

(* The inductive invariant holds in every reachable state.                 *)
THEOREM RegistryInvariance == Registry!Spec => []RegistryInv
  <1>1. RegistryInv /\ [Registry!Next]_(Registry!vars) => RegistryInv'
    BY RegistryTypeStep, JobStep, WaitStep DEF RegistryInv
  <1> QED
    BY RegistryInit, <1>1, PTL DEF Registry!Spec

(* Every variable of the registry stays within its type.                   *)
THEOREM RegistryTypes == Registry!Spec => []Registry!TypeOK
  <1>1. RegistryInv => Registry!TypeOK
    BY DEF RegistryInv
  <1> QED
    BY RegistryInvariance, <1>1, PTL

(* runtime/jobs.py: the state of a job that no cancel_job call touches     *)
(* agrees with its task, also when its factory raised or its coroutine     *)
(* swallows the cancellation.                                              *)
THEOREM StateTracksTaskHolds == Registry!Spec => []Registry!StateTracksTask
  <1>1. RegistryInv => Registry!StateTracksTask
    <2> SUFFICES ASSUME RegistryInv, NEW j \in Job \ Threaded
                 PROVE  /\ state[j] = "running"
                              => \/ task[j] \in Registry!LiveTask /\ ~cancelReq[j]
                                 \/ task[j] = "raised" /\ j \in Faulty
                        /\ state[j] \in Registry!Terminal <=> finished[j] > 0
                        /\ state[j] = "done" <=> outcome[j] = "value"
                        /\ state[j] \in Registry!Terminal
                           /\ task[j] \in Registry!LiveTask \ {"landed"}
                              => state[j] = "canceled" /\ (cancelReq[j] \/ j \in Stubborn)
      BY DEF Registry!StateTracksTask
    <2>1. /\ state[j] \in Registry!JobState
          /\ task[j] \in {"none"} \cup Registry!LiveTask \cup Registry!EndedTask
      BY DEF RegistryInv, Registry!TypeOK
    <2>2. TaskInv(j) /\ LoopInv(j)
      BY DEF RegistryInv, JobInv, JobOK
    <2> QED
      BY <2>1, <2>2 DEF TaskInv, LoopInv, Registry!JobState,
                        Registry!Terminal, Registry!LiveTask, Registry!EndedTask, Registry!Landing
  <1> QED
    BY RegistryInvariance, <1>1, PTL

(* A cancellation that was granted on the event loop is final, for a job   *)
(* whose coroutine lets it through.                                        *)
THEOREM CancelSticksHolds == Registry!Spec => []Registry!CancelSticks
  <1>1. RegistryInv => Registry!CancelSticks
    BY DEF RegistryInv, Registry!TypeOK, JobInv, JobOK, SettlingInv, Registry!CancelSticks,
           Registry!Settling
  <1> QED
    BY RegistryInvariance, <1>1, PTL

(* After the run has closed no job runs on without a cancellation pending, *)
(* unless its coroutine ignores it.                                        *)
THEOREM ClosedRunReapsHolds == Registry!Spec => []Registry!ClosedRunReaps
  <1>1. RegistryInv => Registry!ClosedRunReaps
    BY DEF RegistryInv, JobInv, JobOK, ObedientInv, Registry!ClosedRunReaps, Registry!Obedient
  <1> QED
    BY RegistryInvariance, <1>1, PTL

(* A final state reported by wait() is never taken back, for a job that    *)
(* settles.                                                                *)
THEOREM WaitIsFinalHolds == Registry!Spec => []Registry!WaitIsFinal
  <1>1. RegistryInv => Registry!WaitIsFinal
    BY DEF RegistryInv
  <1> QED
    BY RegistryInvariance, <1>1, PTL

(* Only a cancelled job or a raising factory makes wait() raise.           *)
THEOREM EscapeHasCauseHolds == Registry!Spec => []Registry!EscapeHasCause
  <1>1. RegistryInv => Registry!EscapeHasCause
    BY DEF RegistryInv
  <1> QED
    BY RegistryInvariance, <1>1, PTL

(* A settled job that is only cancelled on the event loop, and whose       *)
(* coroutine lets that through, never changes again.                       *)
THEOREM SettledForGood == Registry!Spec => Registry!SettledStaysSettled
  <1>1. RegistryInv /\ [Registry!Next]_(Registry!vars) => [SettledJobsKept]_(Registry!vars)
    BY SettledStep DEF RegistryInv
  <1>2. Registry!Spec => [][SettledJobsKept]_(Registry!vars)
    BY RegistryInvariance, <1>1, PTL DEF Registry!Spec
  <1> QED
    BY <1>2 DEF Registry!SettledStaysSettled, SettledJobsKept

-----------------------------------------------------------------------------
(* The registry implements JobLifecycle for its plain jobs: the step of a  *)
(* plain job that submits it, or that is the first to give it a terminal   *)
(* state, is the abstract Submit or Settle, Close is Close, and every      *)
(* other step leaves what a snapshot shows alone.                          *)
LEMMA LifecycleStep ==
    ASSUME RegistryInv, [Registry!Next]_(Registry!vars)
    PROVE  [Registry!Lifecycle!Next]_(Registry!Lifecycle!vars)
  <1> DEFINE status == [j \in Registry!Plain |-> state[j]]
  <1> USE DEF Registry!Lifecycle!vars
  <1>t. /\ state \in [Job -> Registry!JobState]
        /\ open \in BOOLEAN
        /\ Registry!Plain \subseteq Job /\ Registry!Plain \subseteq Registry!Settling
               /\ Registry!Plain \subseteq Registry!Obedient
    BY DEF RegistryInv, Registry!TypeOK, Registry!Plain, Registry!Settling, Registry!Obedient
  <1>k. ASSUME NEW j \in Registry!Plain, state[j] \in Registry!Terminal PROVE state'[j] = state[j]
    BY <1>k, <1>t, SettledStep DEF RegistryInv, SettledJobsKept
  <1>1. ASSUME NEW j \in Job, Registry!Submit(j) PROVE [Registry!Lifecycle!Next]_(Registry!Lifecycle!vars)
    <2>1. CASE j \in Registry!Plain
      <3>1. Registry!Lifecycle!Submit(j)
        BY <1>1, <1>t, <2>1 DEF Registry!Submit, Registry!Lifecycle!Submit
      <3> QED
        BY <2>1, <3>1 DEF Registry!Lifecycle!Next
    <2>2. CASE j \notin Registry!Plain
      BY <1>1, <1>t, <2>2 DEF Registry!Submit
    <2> QED
      BY <2>1, <2>2
  <1>2. ASSUME NEW j \in Job, open' = open,
               \A i \in Job \ {j} : state'[i] = state[i],
               state' \in [Job -> Registry!JobState],
               state[j] # "absent",
               j \in Registry!Plain => state'[j] \in Registry!Terminal \/ state'[j] = state[j]
        PROVE  [Registry!Lifecycle!Next]_(Registry!Lifecycle!vars)
    <2>1. CASE j \in Registry!Plain /\ state'[j] # state[j]
      <3>1. state[j] = "running"
        BY <1>2, <1>t, <1>k, <2>1 DEF Registry!JobState
      <3>2. status' = [status EXCEPT ![j] = state'[j]]
        <4>1. \A i \in Registry!Plain : i # j => state'[i] = state[i]
          BY <1>2, <1>t
        <4> QED
          BY <2>1, <4>1
      <3>3. state'[j] \in Registry!Lifecycle!Settled
        BY <1>2, <2>1 DEF Registry!Terminal, Registry!Lifecycle!Settled
      <3>4. Registry!Lifecycle!Settle(j)
        BY <1>2, <2>1, <3>1, <3>2, <3>3 DEF Registry!Lifecycle!Settle
      <3> QED
        BY <2>1, <3>4 DEF Registry!Lifecycle!Next
    <2>2. CASE j \notin Registry!Plain \/ state'[j] = state[j]
      BY <1>2, <1>t, <2>2
    <2> QED
      BY <2>1, <2>2
  <1>3. ASSUME NEW j \in Job, Registry!Cancel(j)
        PROVE  [Registry!Lifecycle!Next]_(Registry!Lifecycle!vars)
    BY <1>2, <1>3, <1>t DEF Registry!Cancel, Registry!Cancellable, Registry!MarkCanceled,
                            Registry!JobState, Registry!Terminal
  <1>4. ASSUME NEW j \in Job, Registry!Finish(j) \/ Registry!Unwind(j)
        PROVE  [Registry!Lifecycle!Next]_(Registry!Lifecycle!vars)
    <2>1. state[j] # "absent"
      BY <1>4 DEF Registry!Finish, Registry!Unwind, RegistryInv, JobInv, JobOK, TaskInv
    <2>2. CASE Registry!Finish(j)
      BY <1>2, <1>t, <2>1, <2>2 DEF Registry!Finish, Registry!JobState, Registry!Terminal
    <2>3. CASE Registry!Unwind(j)
      BY <1>2, <1>t, <2>1, <2>3 DEF Registry!Unwind, Registry!JobState, Registry!Terminal
    <2> QED
      BY <1>4, <2>2, <2>3
  <1>5. ASSUME Registry!Close PROVE [Registry!Lifecycle!Next]_(Registry!Lifecycle!vars)
    <2>1. \A j \in Registry!Plain : state'[j] = IF state[j] = "running"
                                       THEN "canceled" ELSE state[j]
      <3> SUFFICES ASSUME NEW j \in Registry!Plain
                   PROVE  state'[j] = IF state[j] = "running"
                                      THEN "canceled" ELSE state[j]
        OBVIOUS
      <3>1. state[j] = "running" => Registry!Cancellable(j)
        BY <1>t DEF RegistryInv, Registry!TypeOK, JobInv, JobOK, TaskInv, SettlingInv,
                    Registry!Cancellable, Registry!LiveTask, Registry!EndedTask, Registry!Plain
      <3> QED
        BY <1>5, <1>t, <3>1 DEF Registry!Close, Registry!MarkCanceled, Registry!Cancellable
    <2>2. Registry!Lifecycle!Close
      BY <1>5, <2>1 DEF Registry!Close, Registry!Lifecycle!Close
    <2> QED
      BY <2>2 DEF Registry!Lifecycle!Next
  <1>6. ASSUME UNCHANGED <<open, state>> PROVE [Registry!Lifecycle!Next]_(Registry!Lifecycle!vars)
    BY <1>6
  <1>7. ASSUME NEW j \in Job,
               \/ Registry!Start(j) \/ Registry!FactoryRaises(j) \/ Registry!DropUnstarted(j)
               \/ Registry!Land(j) \/ Registry!End(j) \/ Registry!Swallow(j)
               \/ Registry!ThreadCheck(j) \/ Registry!ThreadDeliver(j)
        PROVE  UNCHANGED <<open, state>>
    BY <1>7 DEF Registry!Start, Registry!FactoryRaises, Registry!DropUnstarted, Registry!Land,
                Registry!End, Registry!Swallow,
                Registry!ThreadCheck, Registry!ThreadDeliver, Registry!jobVars
  <1>8. ASSUME NEW w \in Waiter,
               Registry!Wake(w) \/ Registry!TimeOut(w) \/ (\E j \in Job : Registry!Wait(w, j))
        PROVE  UNCHANGED <<open, state>>
    BY <1>8 DEF Registry!Wake, Registry!TimeOut, Registry!Wait, Registry!jobVars
  <1>9. ASSUME NEW j \in Job, Registry!ThreadMark(j)
        PROVE  [Registry!Lifecycle!Next]_(Registry!Lifecycle!vars)
    <2>1. state[j] # "absent" /\ j \notin Registry!Plain
      BY <1>9 DEF Registry!ThreadMark, RegistryInv, JobInv, JobOK, TaskInv, Registry!Plain,
                  Registry!Settling
    <2> QED
      BY <1>2, <1>9, <1>t, <2>1 DEF Registry!ThreadMark, Registry!JobState, Registry!Terminal
  <1>10. ASSUME NEW j \in Job, Registry!TaskStep(j) \/ Registry!ThreadStep(j)
         PROVE  [Registry!Lifecycle!Next]_(Registry!Lifecycle!vars)
    BY <1>4, <1>6, <1>7, <1>9, <1>10 DEF Registry!TaskStep, Registry!ThreadStep
  <1>11. CASE UNCHANGED Registry!vars
    BY <1>6, <1>11 DEF Registry!vars, Registry!jobVars
  <1> HIDE DEF status, Registry!Lifecycle!vars
  <1> QED
    BY <1>1, <1>3, <1>5, <1>6, <1>8, <1>10, <1>11 DEF Registry!Next

(* The registry implements the abstract lifecycle for every instance.      *)
THEOREM LifecycleImplemented == Registry!Spec => Registry!ImplementsLifecycle
  <1>1. Registry!Init => Registry!Lifecycle!Init
    BY DEF Registry!Init, Registry!Lifecycle!Init, Registry!Plain, Registry!Settling,
           Registry!Obedient
  <1>2. RegistryInv /\ [Registry!Next]_(Registry!vars)
            => [Registry!Lifecycle!Next]_(Registry!Lifecycle!vars)
    BY LifecycleStep
  <1> QED
    BY RegistryInvariance, <1>1, <1>2, PTL DEF Registry!Spec, Registry!ImplementsLifecycle,
                                               Registry!Lifecycle!Spec

-----------------------------------------------------------------------------
(* The types of both parts.                                                *)
THEOREM WorkersTypes == WorkersSpec => []TypesOK
  <1>1. TypeOK /\ Registry!TypeOK => TypesOK
    BY DEF TypesOK
  <1> QED
    BY <1>1, PartsAreThemselves, TypeCorrect, RegistryTypes, PTL

(* The limiter admits no more than its quotas pay for, beside the jobs.    *)
THEOREM WorkersAdmit == WorkersSpec => [](AdmissionsBounded /\ DebtBounded)
  BY PartsAreThemselves, AdmissionsPaid, DebtCovered, PTL

(* The state of every job that no cancel_job thread touches agrees with    *)
(* the task behind it, beside the limiter.                                 *)
THEOREM WorkersTrack == WorkersSpec => []StateTracksTask
  <1>1. Registry!StateTracksTask => StateTracksTask
    BY DEF StateTracksTask
  <1> QED
    BY <1>1, PartsAreThemselves, StateTracksTaskHolds, PTL

(* The registry implements the abstract lifecycle for its plain jobs,      *)
(* beside the limiter.                                                     *)
THEOREM WorkersImplement == WorkersSpec => ImplementsLifecycle
  BY PartsAreThemselves, LifecycleImplemented, PTL DEF ImplementsLifecycle
=============================================================================
