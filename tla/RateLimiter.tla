----------------------------- MODULE RateLimiter -----------------------------
(***************************************************************************)
(* plugins/models/groq_rate_limiter.py: the limiter that all callers of    *)
(* one Groq key and model share.  Every quota is a token bucket; a call is *)
(* admitted when each bucket holds one whole unit, pays for itself in the  *)
(* buckets of requests at once, and for its tokens or seconds of audio     *)
(* when the answer has arrived.                                            *)
(*                                                                         *)
(* Time passes in ticks.  A bucket refills by Cap/Period of a unit per     *)
(* tick, so levels are counted in 1/Period of a unit, which keeps them     *)
(* integers.  The code refills a bucket when it looks at it; level is what *)
(* it would then see, which is all it ever uses.                           *)
(***************************************************************************)
EXTENDS Integers, FiniteSets

CONSTANTS
    Caller,     \* the threads and tasks that call the model
    NoCaller,   \* the lock is free
    Request,    \* the buckets that count requests
    Usage,      \* those that count tokens, or seconds of audio: GROQ_LIMITS
                \* has no model with both
    Cap,        \* the quota of a bucket ...
    Period,     \* ... and the ticks it is meant for
    Poll,       \* _check_every, in ticks
    MaxUse,     \* bound: the tokens one call may turn out to need
    MaxSpan     \* bound: the length of an observed window

Bucket == Request \cup Usage

ASSUME RateLimiterAssumption ==
    /\ IsFiniteSet(Caller) /\ NoCaller \notin Caller
    /\ Cap \in [Bucket -> Nat \ {0}]
    /\ Period \in [Bucket -> Nat \ {0}]
    /\ Poll \in Nat \ {0} /\ MaxUse \in Nat \ {0} /\ MaxSpan \in Nat

(* A call counts as a request or as usage, in a bucket of its own.         *)
ASSUME BucketsApart == Request \cap Usage = {}

VARIABLES
    pc,      \* where in acquire() a caller is, or that its call is running
    nap,     \* how much of its sleep is left
    lock,    \* self._lock
    level,   \* available, per bucket
    used,    \* history: requests admitted in the observed window ...
    span     \* ... and the length of that window

window == <<used, span>>
vars   == <<pc, nap, lock, level, window>>

Full(b) == Cap[b] * Period[b]
Unit(b) == Period[b]

PC == {"idle", "waiting", "locked", "granted", "sleeping", "calling"}

(* The type of every variable; a level never exceeds its quota.            *)
TypeOK ==
    /\ pc \in [Caller -> PC]
    /\ nap \in [Caller -> 0..Poll]
    /\ lock \in Caller \cup {NoCaller}
    /\ level \in [Bucket -> Int]
    /\ \A b \in Bucket : level[b] <= Full(b)
    /\ used \in Nat /\ span \in 0..MaxSpan

(* _Bucket.of: a new bucket is full.                                       *)
Init ==
    /\ pc = [c \in Caller |-> "idle"]
    /\ nap = [c \in Caller |-> 0]
    /\ lock = NoCaller
    /\ level = [b \in Bucket |-> Full(b)]
    /\ used = 0 /\ span = 0

Goto(c, place) == pc' = [pc EXCEPT ![c] = place]

-----------------------------------------------------------------------------
(* acquire() and aacquire(): tasks also hold an asyncio.Lock around the    *)
(* same section, in which they do not await, so it is never contended.     *)

Acquire(c) ==
    /\ pc[c] = "idle"
    /\ Goto(c, "waiting")
    /\ UNCHANGED <<nap, lock, level, window>>

(* Mutant: the section is not under a lock.                                *)
Lock_Ignored(c) ==
    /\ pc[c] = "waiting"
    /\ lock' = c
    /\ Goto(c, "locked")
    /\ UNCHANGED <<nap, level, window>>

Lock(c) ==
    /\ pc[c] = "waiting" /\ lock = NoCaller
    /\ lock' = c
    /\ Goto(c, "locked")
    /\ UNCHANGED <<nap, level, window>>

(* Mutant: _compute_wait forgets the buckets that are charged later.       *)
NoWait_Requests == \A b \in Request : level[b] >= Unit(b)

(* _compute_wait() <= 0: every bucket holds a whole unit.                  *)
NoWait == \A b \in Bucket : level[b] >= Unit(b)

Check(c) ==
    /\ pc[c] = "locked" /\ NoWait
    /\ Goto(c, "granted")
    /\ UNCHANGED <<nap, lock, level, window>>

(* _consume_request, and the return out of the lock: the call is made.     *)
Charge(c) ==
    /\ pc[c] = "granted"
    /\ level' = [b \in Bucket |-> IF b \in Request THEN level[b] - Unit(b) ELSE level[b]]
    /\ used' = used + 1
    /\ lock' = NoCaller
    /\ Goto(c, "calling")
    /\ UNCHANGED <<nap, span>>

(* Otherwise sleep, outside of the lock, for at most the poll interval.    *)
Sleep(c) ==
    /\ pc[c] = "locked" /\ ~NoWait
    /\ lock' = NoCaller
    /\ Goto(c, "sleeping")
    /\ \E n \in 1..Poll : nap' = [nap EXCEPT ![c] = n]
    /\ UNCHANGED <<level, window>>

Wake(c) ==
    /\ pc[c] = "sleeping" /\ nap[c] = 0
    /\ Goto(c, "waiting")
    /\ UNCHANGED <<nap, lock, level, window>>

-----------------------------------------------------------------------------
(* The call has returned: on_llm_end records its tokens, the audio tool    *)
(* its seconds, under the lock.                                            *)
Record(c, n) ==
    /\ pc[c] = "calling" /\ lock = NoCaller
    /\ Goto(c, "idle")
    /\ level' = [b \in Bucket |-> IF b \in Usage THEN level[b] - n * Unit(b) ELSE level[b]]
    /\ UNCHANGED <<nap, lock, window>>

(* It failed, was cancelled or reported no usage: nothing is recorded.     *)
Unrecorded(c) ==
    /\ pc[c] = "calling"
    /\ Goto(c, "idle")
    /\ UNCHANGED <<nap, lock, level, window>>

-----------------------------------------------------------------------------
Lesser(m, n) == IF m <= n THEN m ELSE n

(* Mutant: a bucket in debt does not refill.                               *)
Refilled_FromZero(b) == IF level[b] < 0 THEN level[b] ELSE Lesser(Full(b), level[b] + Cap[b])

(* _Bucket.refill after one more tick.                                     *)
Refilled(b) == Lesser(Full(b), level[b] + Cap[b])

Tick ==
    /\ level' = [b \in Bucket |-> Refilled(b)]
    /\ nap' = [c \in Caller |-> IF nap[c] > 0 THEN nap[c] - 1 ELSE 0]
    /\ IF span < MaxSpan THEN span' = span + 1 /\ UNCHANGED used
                         ELSE span' = 0 /\ used' = 0
    /\ UNCHANGED <<pc, lock>>

(* An observer starts to count, at any moment.                             *)
Observe ==
    /\ used' = 0 /\ span' = 0
    /\ UNCHANGED <<pc, nap, lock, level>>

Step(c) == Acquire(c) \/ Check(c) \/ Charge(c) \/ Sleep(c) \/ Wake(c)

Next ==
    \/ \E c \in Caller : \/ Step(c) \/ Lock(c) \/ Unrecorded(c)
                         \/ \E n \in 1..MaxUse : Record(c, n)
    \/ Tick \/ Observe

Spec == Init /\ [][Next]_vars

(* Clocks tick, a thread that holds the lock or whose sleep is over goes   *)
(* on, and a free lock is taken by one of those who wait for it, no matter *)
(* by whom.  Nobody has to begin a call, and no call has to return.        *)
Fairness ==
    /\ WF_vars(Tick)
    /\ \A c \in Caller : WF_vars(Check(c) \/ Charge(c) \/ Sleep(c) \/ Wake(c))
    /\ WF_vars(\E c \in Caller : Lock(c))

FairSpec == Spec /\ Fairness

-----------------------------------------------------------------------------
(* The requests admitted in any window, of any length and beginning at any *)
(* moment, are covered by a full bucket and what flowed in meanwhile: two  *)
(* callers never spend the same unit.                                      *)
AdmissionsBounded ==
    \A b \in Request : used * Unit(b) <= Full(b) + Cap[b] * span

Calling == {c \in Caller : pc[c] = "calling"}

(* A bucket that is charged late goes into debt, but by no more than the   *)
(* calls that can be under way at once may cost.                           *)
DebtBounded ==
    \A b \in Usage :
        level[b] >= Unit(b) - MaxUse * Unit(b) * Cardinality(Caller \ Calling)

(* The limiter does not get stuck: debts are repaid, and one of those who  *)
(* want to call is admitted, unless a call is running already.             *)
Admits ==
    (\E c \in Caller : pc[c] \in {"waiting", "sleeping"}) ~> Calling # {}
=============================================================================
