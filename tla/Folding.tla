------------------------------ MODULE Folding ------------------------------
(***************************************************************************)
(* Facts about FoldLeft of SequencesExt, for any operator Op: the empty    *)
(* fold, one more element, and what follows by induction for everything    *)
(* that is folded over a sequence.  A module uses them by an instance for  *)
(* the operator that it folds with.                                        *)
(*                                                                         *)
(* Induction here is a least counterexample: the natural numbers are well  *)
(* founded, and a fold is the value of a function on sets of positions,    *)
(* found by taking away the greatest.                                      *)
(***************************************************************************)
EXTENDS Naturals, Sequences, Folds, SequenceTheorems, WellFoundedInduction, TLAPS

CONSTANT Op(_, _)

(* FoldLeft of SequencesExt and Max of FiniteSetsExt, as they stand there: *)
(* an instance of those modules would bring all of their definitions along,*)
(* for each operator that somebody folds with.                             *)
Max(S) == CHOOSE x \in S : \A y \in S : x >= y

FoldLeft(op(_, _), base, seq) ==
    MapThenFoldSet(LAMBDA x, y : op(y, x), base, LAMBDA i : seq[i], LAMBDA S : Max(S), DOMAIN seq)

(* A set of natural numbers has a least one, if it has any.                *)
LEMMA Least ==
    ASSUME NEW T \in SUBSET Nat, T # {}
    PROVE  \E n \in T : \A m \in T : n <= m
<1>1. IsWellFoundedOn({ss \in Nat \X Nat : ss[1] < ss[2]}, Nat)
      BY NatLessThanWellFounded DEF OpToRel
<1>2. PICK n \in T : \A m \in T : ~(<<m, n>> \in {ss \in Nat \X Nat : ss[1] < ss[2]})
      BY <1>1, WFMin
<1>3. \A m \in T : ~(m < n)  BY <1>2
<1> QED  BY <1>3

(* The greatest of numbers up to k is one of them and bounds the others.   *)
LEMMA Greatest ==
    ASSUME NEW k \in Nat, NEW T \in SUBSET (0..k), T # {}
    PROVE  Max(T) \in T /\ \A m \in T : m <= Max(T)
<1> DEFINE U == {k - t : t \in T}
<1>1. U \in SUBSET Nat /\ U # {}
  <2>1. \A t \in T : t \in Nat /\ t <= k /\ k - t \in Nat  OBVIOUS
  <2>2. PICK t \in T : TRUE  OBVIOUS
  <2>3. k - t \in U  OBVIOUS
  <2> QED  BY <2>1, <2>3
<1>2. PICK n \in U : \A m \in U : n <= m  BY <1>1, Least
<1>3. PICK t \in T : n = k - t  BY <1>2
<1>4. \A m \in T : t >= m
  <2>1. TAKE m \in T
  <2>2. k - m \in U  OBVIOUS
  <2>3. k - t <= k - m  BY <1>2, <1>3, <2>2
  <2> QED  BY <2>3
<1> QED  BY <1>4 DEF Max

(* The equation that the fold of the elements at some positions solves.    *)
Step(f, s, base, seq) == IF s = {} THEN base ELSE Op(f[s \ {Max(s)}], seq[Max(s)])

Solves(f, k, base, seq) == f = [s \in SUBSET (1..k) |-> Step(f, s, base, seq)]

(* It has a solution: one of it for one position less, carried further.    *)
LEMMA Solvable ==
    ASSUME NEW base, NEW seq, NEW k \in Nat
    PROVE  \E f : Solves(f, k, base, seq)
<1> DEFINE T == {n \in Nat : ~\E f : Solves(f, n, base, seq)}
<1>1. SUFFICES ASSUME T # {}  PROVE FALSE
      OBVIOUS
<1>2. PICK n \in T : \A m \in T : n <= m  BY <1>1, Least
<1>3. CASE n = 0
  <2> DEFINE f == [s \in SUBSET (1..0) |-> base]
  <2>1. Solves(f, 0, base, seq)  BY DEF Solves, Step
  <2> QED  BY <2>1, <1>3
<1>4. CASE n # 0
  <2>1. n - 1 \in Nat /\ n - 1 \notin T  BY <1>2, <1>4
  <2>2. PICK g : Solves(g, n - 1, base, seq)  BY <2>1
  <2> DEFINE f == [s \in SUBSET (1..n) |-> IF n \in s THEN Op(g[s \ {n}], seq[n]) ELSE g[s]]
  <2>3. ASSUME NEW s \in SUBSET (1..n), n \in s  PROVE f[s] = Step(f, s, base, seq)
    <3>1. Max(s) = n
      <4>1. n \in Nat /\ s \in SUBSET (0..n)  OBVIOUS
      <4>2. Max(s) \in s /\ \A m \in s : m <= Max(s)  BY <4>1, Greatest, <2>3
      <4>3. n <= Max(s) /\ Max(s) \in 1..n  BY <4>2, <2>3
      <4> QED  BY <4>3
    <3>2. s \ {n} \in SUBSET (1..(n - 1)) /\ s \ {n} \in SUBSET (1..n)  OBVIOUS
    <3>3. f[s \ {n}] = g[s \ {n}]  BY <3>2
    <3> QED  BY <3>1, <3>3, <2>3 DEF Step
  <2>4. ASSUME NEW s \in SUBSET (1..n), n \notin s, s # {}
        PROVE  f[s] = Step(f, s, base, seq)
    <3>1. s \in SUBSET (1..(n - 1)) /\ s \in SUBSET (0..n)  BY <2>4
    <3>2. Max(s) \in s  BY <3>1, Greatest, <2>4
    <3>3. s \ {Max(s)} \in SUBSET (1..n) /\ n \notin s \ {Max(s)}  BY <2>4
    <3>4. f[s \ {Max(s)}] = g[s \ {Max(s)}]  BY <3>3
    <3>5. g[s] = Step(g, s, base, seq)  BY <2>2, <3>1 DEF Solves
    <3> QED  BY <3>5, <3>4, <2>4 DEF Step
  <2>5. f[{}] = base
    <3>1. {} \in SUBSET (1..(n - 1)) /\ {} \in SUBSET (1..n) /\ n \notin {}  OBVIOUS
    <3>2. f[{}] = g[{}]  BY <3>1
    <3>3. g[{}] = Step(g, {}, base, seq)  BY <2>2, <3>1 DEF Solves
    <3> QED  BY <3>2, <3>3 DEF Step
  <2>6. \A s \in SUBSET (1..n) : f[s] = Step(f, s, base, seq)
        BY <2>3, <2>4, <2>5 DEF Step
  <2> QED  BY <2>6 DEF Solves
<1> QED  BY <1>3, <1>4

(* The fold is the value of a solution at all positions.                   *)
LEMMA FoldIs ==
    ASSUME NEW base, NEW S, NEW s \in Seq(S)
    PROVE  \E f : Solves(f, Len(s), base, s) /\ FoldLeft(Op, base, s) = f[1..Len(s)]
<1> DEFINE f == CHOOSE f : Solves(f, Len(s), base, s)
<1>1. Solves(f, Len(s), base, s)
  <2>1. Len(s) \in Nat  OBVIOUS
  <2> QED  BY <2>1, Solvable
<1>2. DOMAIN s = 1..Len(s)  OBVIOUS
<1>3. FoldLeft(Op, base, s) = f[DOMAIN s]
      BY <1>2 DEF FoldLeft, MapThenFoldSet, Solves, Step
<1> QED  BY <1>1, <1>2, <1>3

Carries(s, k, t, l) == k <= l /\ \A i \in 1..k : s[i] = t[i]

Positions(k) == 1..k

(* Solutions agree as far as the sequences do.                             *)
LEMMA SolutionsAgree ==
    \A base, s, t, f, g : \A k, l \in Nat :
        Solves(f, k, base, s) /\ Solves(g, l, base, t) /\ Carries(s, k, t, l)
        => f[Positions(k)] = g[Positions(k)]
<1> TAKE base, s, t, f, g
<1> TAKE k, l \in Nat
<1> HAVE Solves(f, k, base, s) /\ Solves(g, l, base, t) /\ Carries(s, k, t, l)
<1>0. k <= l /\ \A i \in 1..k : s[i] = t[i]  BY DEF Carries
<1> SUFFICES \A n \in 0..k : \A x \in SUBSET (1..n) : f[x] = g[x]
  <2>1. k \in 0..k /\ Positions(k) \in SUBSET (1..k)  BY DEF Positions
  <2> QED  BY <2>1
<1> DEFINE T == {n \in 0..k : \E x \in SUBSET (1..n) : f[x] # g[x]}
<1> SUFFICES ASSUME T # {}  PROVE FALSE
    OBVIOUS
<1>1. T \in SUBSET Nat  OBVIOUS
<1>2. PICK n \in T : \A m \in T : n <= m  BY <1>1, Least
<1>3. PICK x \in SUBSET (1..n) : f[x] # g[x]  OBVIOUS
<1>4. n \in Nat /\ n <= k /\ n <= l /\ 1..n \subseteq 1..k /\ 1..n \subseteq 1..l
      BY <1>0
<1>5. x \in SUBSET (1..k) /\ x \in SUBSET (1..l) /\ x \in SUBSET (0..n)
      BY <1>3, <1>4
<1>6. f[x] = Step(f, x, base, s) /\ g[x] = Step(g, x, base, t)  BY <1>5 DEF Solves
<1>7. x # {}  BY <1>3, <1>6 DEF Step
<1>8. Max(x) \in x /\ \A m \in x : m <= Max(x)  BY <1>4, <1>5, <1>7, Greatest
<1>9. Max(x) \in 1..n /\ \A m \in x : m \in 1..n  BY <1>8
<1>10. \A m \in x \ {Max(x)} : m \in 1..(n - 1)
       BY <1>4, <1>8, <1>9
<1>11. x \ {Max(x)} \in SUBSET (1..(n - 1))  BY <1>10
<1>12. n - 1 \in 0..k /\ ~(n <= n - 1)  BY <1>4, <1>9
<1>13. n - 1 \notin T  BY <1>2, <1>12
<1>14. f[x \ {Max(x)}] = g[x \ {Max(x)}]  BY <1>11, <1>12, <1>13
<1>15. s[Max(x)] = t[Max(x)]  BY <1>5, <1>0, <1>8
<1> QED  BY <1>3, <1>6, <1>7, <1>14, <1>15 DEF Step

(* Nothing folded is the base.                                             *)
THEOREM FoldOfEmpty == \A base : FoldLeft(Op, base, <<>>) = base
<1> TAKE base
<1>1. <<>> \in Seq({}) /\ Len(<<>>) = 0 /\ 1..0 = {}  OBVIOUS
<1>2. PICK f : Solves(f, 0, base, <<>>) /\ FoldLeft(Op, base, <<>>) = f[1..0]
      BY <1>1, FoldIs
<1>3. {} \in SUBSET (1..0)  OBVIOUS
<1>4. f[{}] = Step(f, {}, base, <<>>)  BY <1>2, <1>3 DEF Solves
<1> QED  BY <1>1, <1>2, <1>4 DEF Step

(* One more element is taken in last.                                      *)
THEOREM FoldOfAppend ==
    \A base, S : \A s \in Seq(S), e \in S :
        FoldLeft(Op, base, Append(s, e)) = Op(FoldLeft(Op, base, s), e)
<1> SUFFICES ASSUME NEW base, NEW S, NEW s \in Seq(S), NEW e \in S
             PROVE  FoldLeft(Op, base, Append(s, e)) = Op(FoldLeft(Op, base, s), e)
    OBVIOUS
<1> SUFFICES ASSUME NEW t, t = Append(s, e), NEW n, n = Len(s)
             PROVE  FoldLeft(Op, base, t) = Op(FoldLeft(Op, base, s), e)
    OBVIOUS
<1>1. t \in Seq(S) /\ Len(t) = n + 1 /\ n \in Nat /\ t[n + 1] = e
      OBVIOUS
<1>2. \A i \in 1..n : s[i] = t[i]  OBVIOUS
<1>3. PICK f : Solves(f, n, base, s) /\ FoldLeft(Op, base, s) = f[1..n]
      BY FoldIs
<1>4. PICK g : Solves(g, n + 1, base, t) /\ FoldLeft(Op, base, t) = g[1..(n + 1)]
      BY <1>1, FoldIs
<1>5. n + 1 \in Nat /\ n <= n + 1  BY <1>1
<1>6. f[Positions(n)] = g[Positions(n)]
  <2>1. PICK l \in Nat : l = n + 1  BY <1>5
  <2>2. Solves(f, n, base, s) /\ Solves(g, l, base, t)  BY <1>3, <1>4, <2>1
  <2>3. Carries(s, n, t, l)  BY <1>1, <1>2, <2>1 DEF Carries
  <2>4. n \in Nat  BY <1>1
  <2> QED  BY <2>1, <2>2, <2>3, <2>4, SolutionsAgree
<1>7. /\ 1..(n + 1) \in SUBSET (1..(n + 1)) /\ 1..(n + 1) # {}
      /\ 1..(n + 1) \in SUBSET (0..(n + 1))
  <2>1. n + 1 \in 1..(n + 1)  BY <1>1
  <2>2. 1..(n + 1) \subseteq 0..(n + 1)  BY <1>1
  <2> QED  BY <2>1, <2>2
<1>8. Max(1..(n + 1)) \in 1..(n + 1) /\ \A m \in 1..(n + 1) : m <= Max(1..(n + 1))
      BY <1>5, <1>7, Greatest
<1>9. Max(1..(n + 1)) = n + 1  BY <1>1, <1>8
<1>10. 1..(n + 1) \ {n + 1} = 1..n  BY <1>1
<1>11. g[1..(n + 1)] = Step(g, 1..(n + 1), base, t)  BY <1>4, <1>7 DEF Solves
<1>12. g[1..(n + 1)] = Op(g[1..n], t[n + 1])  BY <1>7, <1>9, <1>10, <1>11 DEF Step
<1> QED  BY <1>1, <1>3, <1>4, <1>6, <1>12 DEF Positions

(* Induction over sequences: a set that holds the empty one, and with each *)
(* those that are longer by one element, holds them all.                   *)
THEOREM SequenceInduction ==
    \A S, T :
        <<>> \in T /\ (\A s \in Seq(S), e \in S : s \in T => Append(s, e) \in T)
        => Seq(S) \subseteq T
<1> SUFFICES ASSUME NEW S, NEW T, <<>> \in T,
                    \A s \in Seq(S), e \in S : s \in T => Append(s, e) \in T
             PROVE  Seq(S) \subseteq T
    OBVIOUS
<1> DEFINE U == {n \in Nat : \E s \in Seq(S) : Len(s) = n /\ s \notin T}
<1>1. SUFFICES U = {}
  <2>1. \A s \in Seq(S) : Len(s) \in Nat  OBVIOUS
  <2> QED  BY <2>1
<1>2. SUFFICES ASSUME U # {}  PROVE FALSE
      OBVIOUS
<1>3. PICK n \in U : \A m \in U : n <= m  BY <1>2, Least
<1>4. PICK s \in Seq(S) : Len(s) = n /\ s \notin T  OBVIOUS
<1>5. PICK p \in Seq(S), e \in S : s = Append(p, e)
      BY <1>4, SequenceEmptyOrAppend
<1>6. Len(s) = Len(p) + 1 /\ Len(p) \in Nat  BY <1>5
<1>7. Len(p) \notin U  BY <1>3, <1>4, <1>6
<1> QED  BY <1>4, <1>5, <1>6, <1>7

(* And over folds: what holds of the empty sequence and the base, and with *)
(* one more element whenever it held before, holds of every sequence and   *)
(* its fold.                                                               *)
THEOREM FoldInduction ==
    \A base, S, Holds :
        /\ <<<<>>, base>> \in Holds
        /\ \A s \in Seq(S), e \in S : \A acc :
              <<s, acc>> \in Holds => <<Append(s, e), Op(acc, e)>> \in Holds
        => \A s \in Seq(S) : <<s, FoldLeft(Op, base, s)>> \in Holds
<1> SUFFICES ASSUME NEW base, NEW S, NEW Holds,
                    <<<<>>, base>> \in Holds,
                    \A s \in Seq(S), e \in S : \A acc :
                        <<s, acc>> \in Holds => <<Append(s, e), Op(acc, e)>> \in Holds
             PROVE  \A s \in Seq(S) : <<s, FoldLeft(Op, base, s)>> \in Holds
    OBVIOUS
<1> DEFINE T == {s \in Seq(S) : <<s, FoldLeft(Op, base, s)>> \in Holds}
<1>1. <<>> \in T  BY FoldOfEmpty
<1>2. ASSUME NEW s \in Seq(S), NEW e \in S, s \in T  PROVE Append(s, e) \in T
  <2>1. FoldLeft(Op, base, Append(s, e)) = Op(FoldLeft(Op, base, s), e)  BY FoldOfAppend
  <2>2. <<s, FoldLeft(Op, base, s)>> \in Holds  BY <1>2
  <2>3. <<Append(s, e), Op(FoldLeft(Op, base, s), e)>> \in Holds  BY <2>2
  <2>4. Append(s, e) \in Seq(S)  OBVIOUS
  <2> QED  BY <2>1, <2>3, <2>4
<1> HIDE DEF T
<1>3. Seq(S) \subseteq T  BY <1>1, <1>2, SequenceInduction
<1> QED  BY <1>3 DEF T

(* A fold over two sequences, one after the other, carries on where the    *)
(* first one has come to.                                                  *)
THEOREM FoldOfConcat ==
    \A base, S : \A s, t \in Seq(S) :
        FoldLeft(Op, base, s \o t) = FoldLeft(Op, FoldLeft(Op, base, s), t)
<1> SUFFICES ASSUME NEW base, NEW S, NEW s \in Seq(S)
             PROVE  \A t \in Seq(S) :
                        FoldLeft(Op, base, s \o t) = FoldLeft(Op, FoldLeft(Op, base, s), t)
    OBVIOUS
<1> DEFINE T == {t \in Seq(S) :
                    FoldLeft(Op, base, s \o t) = FoldLeft(Op, FoldLeft(Op, base, s), t)}
<1>1. <<>> \in T
  <2>1. s \o <<>> = s /\ <<>> \in Seq(S)  OBVIOUS
  <2> QED  BY <2>1, FoldOfEmpty
<1>2. ASSUME NEW t \in Seq(S), NEW e \in S, t \in T  PROVE Append(t, e) \in T
  <2>1. s \o Append(t, e) = Append(s \o t, e) /\ s \o t \in Seq(S) /\ Append(t, e) \in Seq(S)
        OBVIOUS
  <2>2. FoldLeft(Op, base, Append(s \o t, e)) = Op(FoldLeft(Op, base, s \o t), e)
    <3>1. PICK both \in Seq(S) : both = s \o t  BY <2>1
    <3>2. FoldLeft(Op, base, Append(both, e)) = Op(FoldLeft(Op, base, both), e)
          BY FoldOfAppend
    <3> QED  BY <3>1, <3>2
  <2>3. \A b : FoldLeft(Op, b, Append(t, e)) = Op(FoldLeft(Op, b, t), e)
        BY FoldOfAppend
  <2> QED  BY <1>2, <2>1, <2>2, <2>3
<1> HIDE DEF T
<1>3. Seq(S) \subseteq T  BY <1>1, <1>2, SequenceInduction
<1> QED  BY <1>3 DEF T

(* Or the first element is taken in at once.                               *)
THEOREM FoldOfTail ==
    \A base, S : \A s \in Seq(S) :
        s # <<>> => FoldLeft(Op, base, s) = FoldLeft(Op, Op(base, Head(s)), Tail(s))
<1> SUFFICES ASSUME NEW base, NEW S, NEW s \in Seq(S), s # <<>>
             PROVE  FoldLeft(Op, base, s) = FoldLeft(Op, Op(base, Head(s)), Tail(s))
    OBVIOUS
<1>1. Head(s) \in S /\ Tail(s) \in Seq(S) /\ <<>> \in Seq(S)
      OBVIOUS
<1>2. PICK u \in Seq(S) : u = Append(<<>>, Head(s))  BY <1>1, AppendProperties
<1>3. s = u \o Tail(s)  BY <1>1, <1>2
<1>4. FoldLeft(Op, base, Append(<<>>, Head(s))) = Op(FoldLeft(Op, base, <<>>), Head(s))
      BY <1>1, FoldOfAppend
<1>5. FoldLeft(Op, base, <<>>) = base  BY FoldOfEmpty
<1>6. FoldLeft(Op, base, u) = Op(base, Head(s))  BY <1>2, <1>4, <1>5
<1>7. \A v \in Seq(S) :
          FoldLeft(Op, base, u \o v) = FoldLeft(Op, FoldLeft(Op, base, u), v)
      BY FoldOfConcat
<1>8. FoldLeft(Op, base, u \o Tail(s)) = FoldLeft(Op, FoldLeft(Op, base, u), Tail(s))
      BY <1>1, <1>7
<1> QED  BY <1>3, <1>6, <1>8
=============================================================================
