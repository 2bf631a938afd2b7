------------------------------ MODULE LeftFolds ------------------------------
(***************************************************************************)
(* What FoldLeft(Op, base, q) computes, for every operator Op: it is the   *)
(* last of the values one gets from base by taking the elements of q in    *)
(* turn, so that it can be unfolded at either end of q and keeps every set *)
(* that Op keeps.  The state of a session is such a fold over its actions, *)
(* and what a window shows is one over the actions it has pending.         *)
(*                                                                         *)
(* The lemmas are by induction on the length of q.  The library's          *)
(* induction theorems take an operator that the provers cannot supply;     *)
(* here a set of numbers takes its place, and a non-empty set of numbers   *)
(* without a least element is what WFMin excludes.                         *)
(***************************************************************************)
EXTENDS Integers, Sequences, SequencesExt, SequenceTheorems, WellFoundedInduction, TLAPS

CONSTANT Op(_, _)

\* A set of numbers that has 0, and with n also n + 1, has all of them.
LEMMA SetInduction ==
  ASSUME NEW S, 0 \in S, \A n \in Nat : n \in S => n + 1 \in S
  PROVE  \A n \in Nat : n \in S
<1> DEFINE T == {n \in Nat : n \notin S}
           Less == OpToRel(<, Nat)
<1>1. SUFFICES ASSUME T # {} PROVE FALSE
  BY DEF T
<1>2. IsWellFoundedOn(Less, Nat)
  BY NatLessThanWellFounded, Zenon DEF Less
<1>3. \A y, x \in Nat : <<y, x>> \in Less <=> y < x
  BY DEF Less, OpToRel
<1> HIDE DEF Less
<1>4. PICK x \in T : \A y \in T : <<y, x>> \notin Less
  <2>1. T \subseteq Nat
    BY DEF T
  <2> HIDE DEF T
  <2> QED BY <1>1, <1>2, <2>1, WFMin
<1>5. /\ x \in Nat /\ x # 0
      /\ x - 1 \in Nat /\ x - 1 < x
  BY DEF T
<1>6. x - 1 \in T
  <2>1. x - 1 \in S => (x - 1) + 1 \in S
    BY <1>5
  <2> QED BY <1>5, <2>1 DEF T
<1> QED BY <1>3, <1>4, <1>5, <1>6

----------------------------------------------------------------------------
\* The greatest number of a set of numbers up to n + 1 that has n + 1.
LEMMA MaxIsLast ==
  ASSUME NEW n \in Nat, NEW S \in SUBSET (1..(n + 1)), n + 1 \in S
  PROVE  Max(S) = n + 1
<1>1. \A y \in S : n + 1 >= y
  OBVIOUS
<1>2. \A x \in S : (\A y \in S : x >= y) => x = n + 1
  OBVIOUS
<1> QED BY <1>1, <1>2, Zenon DEF Max

\* One step of the recursive function that defines the fold.
Folded(base, q, g, S) ==
  IF S = {} THEN base ELSE Op(g[S \ {Max(S)}], q[Max(S)])

\* That function exists.
LEMMA FoldExists ==
  ASSUME NEW base, NEW q
  PROVE  \A n \in Nat : \E g : g = [S \in SUBSET (1..n) |-> Folded(base, q, g, S)]
<1> DEFINE N == {n \in Nat : \E g : g = [S \in SUBSET (1..n) |-> Folded(base, q, g, S)]}
<1>1. 0 \in N
  <2> DEFINE g == [S \in SUBSET (1..0) |-> base]
  <2>1. \A S \in SUBSET (1..0) : Folded(base, q, g, S) = base
    BY DEF Folded
  <2>2. g = [S \in SUBSET (1..0) |-> Folded(base, q, g, S)]
    BY <2>1, Zenon
  <2> QED BY <2>2
<1>2. ASSUME NEW n \in Nat, n \in N
      PROVE  n + 1 \in N
  <2>1. PICK g : g = [S \in SUBSET (1..n) |-> Folded(base, q, g, S)]
    BY <1>2
  <2> DEFINE h == [S \in SUBSET (1..(n + 1)) |->
                     IF n + 1 \in S THEN Op(g[S \ {n + 1}], q[n + 1]) ELSE g[S]]
  <2>2. ASSUME NEW S \in SUBSET (1..(n + 1))
        PROVE  h[S] = Folded(base, q, h, S)
    <3>1. CASE n + 1 \in S
      <4>1. S \ {n + 1} \in SUBSET (1..(n + 1)) /\ n + 1 \notin S \ {n + 1}
        OBVIOUS
      <4>2. h[S \ {n + 1}] = g[S \ {n + 1}]
        BY <4>1, Zenon
      <4>3. h[S] = Op(g[S \ {n + 1}], q[n + 1])
        BY <3>1, Zenon
      <4> QED BY <3>1, <4>2, <4>3, MaxIsLast, Zenon DEF Folded
    <3>2. CASE n + 1 \notin S
      <4>1. S \in SUBSET (1..n)
        BY <3>2
      <4>2. S \ {Max(S)} \in SUBSET (1..n) /\ S \ {Max(S)} \in SUBSET (1..(n + 1))
        BY <4>1
      <4>3. n + 1 \notin S \ {Max(S)}
        BY <3>2
      <4>4. h[S \ {Max(S)}] = g[S \ {Max(S)}]
        BY <4>2, <4>3, Zenon
      <4>5. h[S] = g[S]
        BY <3>2, Zenon
      <4>6. g[S] = Folded(base, q, g, S)
        BY <2>1, <4>1, Zenon
      <4> QED BY <4>4, <4>5, <4>6, Zenon DEF Folded
    <3> QED BY <3>1, <3>2
  <2>3. h = [S \in SUBSET (1..(n + 1)) |-> Folded(base, q, h, S)]
    BY <2>2, Zenon
  <2> HIDE DEF h
  <2> QED BY <2>3
<1> HIDE DEF N
<1>3. \A n \in Nat : n \in N
  BY <1>1, <1>2, SetInduction
<1> QED BY <1>3 DEF N

\* t lists the values one gets from base by taking the elements of q in turn.
Steps(base, q, t) ==
  /\ t[0] = base
  /\ \A i \in Nat : i < Len(q) => t[i + 1] = Op(t[i], q[i + 1])

\* The fold is the last of them.
LEMMA FoldSteps ==
  ASSUME NEW base, NEW E, NEW q \in Seq(E)
  PROVE  \E t : Steps(base, q, t) /\ FoldLeft(Op, base, q) = t[Len(q)]
<1> DEFINE n == Len(q)
           iter == CHOOSE g : g = [S \in SUBSET DOMAIN q |-> Folded(base, q, g, S)]
<1>1. n \in Nat /\ DOMAIN q = 1..n
  OBVIOUS
<1>2. iter = [S \in SUBSET (1..n) |-> Folded(base, q, iter, S)]
  <2>1. \E g : g = [S \in SUBSET DOMAIN q |-> Folded(base, q, g, S)]
    <3> DEFINE D == DOMAIN q
    <3>1. D = 1..n
      BY <1>1
    <3> HIDE DEF D, n
    <3>2. \E g : g = [S \in SUBSET (1..n) |-> Folded(base, q, g, S)]
      BY <1>1, FoldExists, Zenon
    <3>3. \E g : g = [S \in SUBSET D |-> Folded(base, q, g, S)]
      BY <3>1, <3>2, Zenon
    <3> QED BY <3>3 DEF D
  <2>2. iter = [S \in SUBSET DOMAIN q |-> Folded(base, q, iter, S)]
    BY <2>1, Zenon
  <2> QED BY <1>1, <2>2, Zenon
<1>3. FoldLeft(Op, base, q) = iter[1..n]
  BY <1>1, Zenon DEF FoldLeft, MapThenFoldSet, Folded
<1> HIDE DEF n, iter
<1> DEFINE t == [i \in 0..n |-> iter[1..i]]
<1>4. t[0] = base
  <2>1. iter[{}] = base
    BY <1>2, Zenon DEF Folded
  <2> QED BY <1>1, <2>1
<1>5. ASSUME NEW i \in Nat, i < n
      PROVE  t[i + 1] = Op(t[i], q[i + 1])
  <2>1. /\ 1..(i + 1) \in SUBSET (1..n)
        /\ i + 1 \in 1..(i + 1)
        /\ (1..(i + 1)) \ {i + 1} = 1..i
    <3>1. \A j : j \in 1..(i + 1) <=> j \in 1..i \/ j = i + 1
      OBVIOUS
    <3>2. i + 1 \notin 1..i
      OBVIOUS
    <3>3. 1..(i + 1) \in SUBSET (1..n)
      BY <1>1, <1>5
    <3> QED BY <3>1, <3>2, <3>3, Zenon
  <2>2. Max(1..(i + 1)) = i + 1
    BY MaxIsLast
  <2>3. iter[1..(i + 1)] = Op(iter[1..i], q[i + 1])
    BY <1>2, <2>1, <2>2, Zenon DEF Folded
  <2> QED BY <1>1, <1>5, <2>3
<1>6. t[n] = iter[1..n]
  BY <1>1
<1>7. Steps(base, q, t) /\ FoldLeft(Op, base, q) = t[n]
  BY <1>3, <1>4, <1>5, <1>6 DEF Steps, n
<1> HIDE DEF t
<1> QED BY <1>7 DEF n

\* There is only one such list.
LEMMA StepsUnique ==
  ASSUME NEW base, NEW E, NEW q \in Seq(E), NEW t, Steps(base, q, t), NEW u, Steps(base, q, u)
  PROVE  \A i \in Nat : i <= Len(q) => t[i] = u[i]
<1> DEFINE N == {i \in Nat : i <= Len(q) => t[i] = u[i]}
<1>2. 0 \in N
  BY DEF Steps
<1>3. ASSUME NEW i \in Nat, i \in N
      PROVE  i + 1 \in N
  <2>1. Len(q) \in Nat
    OBVIOUS
  <2>2. CASE i < Len(q)
    <3>1. t[i] = u[i]
      BY <1>3, <2>1, <2>2
    <3>2. t[i + 1] = Op(t[i], q[i + 1]) /\ u[i + 1] = Op(u[i], q[i + 1])
      BY <2>2 DEF Steps
    <3> QED BY <3>1, <3>2
  <2>3. CASE ~(i < Len(q))
    BY <2>1, <2>3
  <2> QED BY <2>2, <2>3
<1> HIDE DEF N
<1>4. \A i \in Nat : i \in N
  BY <1>2, <1>3, SetInduction
<1> QED BY <1>4 DEF N

LEMMA StepsEnd ==
  ASSUME NEW base, NEW E, NEW q \in Seq(E), NEW t, Steps(base, q, t)
  PROVE  FoldLeft(Op, base, q) = t[Len(q)]
<1>1. PICK u : Steps(base, q, u) /\ FoldLeft(Op, base, q) = u[Len(q)]
  BY FoldSteps
<1> QED BY <1>1, StepsUnique

----------------------------------------------------------------------------
\* Of nothing, of one more element at the end, and of one element.
LEMMA FoldEmpty ==
  ASSUME NEW base
  PROVE  FoldLeft(Op, base, <<>>) = base
<1>1. <<>> \in Seq({}) /\ Len(<<>>) = 0
  OBVIOUS
<1>2. PICK t : Steps(base, <<>>, t) /\ FoldLeft(Op, base, <<>>) = t[0]
  BY <1>1, FoldSteps
<1> QED BY <1>2 DEF Steps

LEMMA FoldAppend ==
  ASSUME NEW base, NEW E, NEW q \in Seq(E), NEW e \in E
  PROVE  FoldLeft(Op, base, Append(q, e)) = Op(FoldLeft(Op, base, q), e)
<1> DEFINE r == Append(q, e)
<1>1. /\ Len(q) \in Nat
      /\ r \in Seq(E)
      /\ Len(r) = Len(q) + 1
      /\ \A i \in Nat : i < Len(q) => r[i + 1] = q[i + 1]
      /\ r[Len(q) + 1] = e
  OBVIOUS
<1> HIDE DEF r
<1>2. PICK t : Steps(base, r, t) /\ FoldLeft(Op, base, r) = t[Len(q) + 1]
  BY <1>1, FoldSteps
<1>3. Steps(base, q, t)
  <2>1. ASSUME NEW i \in Nat, i < Len(q)
        PROVE  t[i + 1] = Op(t[i], q[i + 1])
    BY <1>1, <1>2, <2>1 DEF Steps
  <2> QED BY <1>2, <2>1 DEF Steps
<1>4. FoldLeft(Op, base, q) = t[Len(q)]
  BY <1>3, StepsEnd
<1>5. t[Len(q) + 1] = Op(t[Len(q)], r[Len(q) + 1])
  BY <1>1, <1>2 DEF Steps
<1> QED BY <1>1, <1>2, <1>4, <1>5 DEF r

\* Of one more element at the front.
LEMMA FoldCons ==
  ASSUME NEW base, NEW E, NEW q \in Seq(E), q # <<>>
  PROVE  FoldLeft(Op, base, q) = FoldLeft(Op, Op(base, Head(q)), Tail(q))
<1> DEFINE r == Tail(q)
<1>1. /\ Len(q) \in Nat /\ Len(r) \in Nat
      /\ r \in Seq(E)
      /\ Len(q) = Len(r) + 1
      /\ Head(q) = q[1]
      /\ \A i \in Nat : i < Len(r) => r[i + 1] = q[(i + 1) + 1]
  OBVIOUS
<1> HIDE DEF r
<1>2. PICK t : Steps(base, q, t) /\ FoldLeft(Op, base, q) = t[Len(r) + 1]
  BY <1>1, FoldSteps
<1> DEFINE u == [i \in Nat |-> t[i + 1]]
<1>3. u[0] = Op(base, Head(q))
  BY <1>1, <1>2 DEF Steps
<1>4. ASSUME NEW i \in Nat, i < Len(r)
      PROVE  u[i + 1] = Op(u[i], r[i + 1])
  <2>1. i + 1 \in Nat /\ i + 1 < Len(q) /\ u[i + 1] = t[(i + 1) + 1] /\ u[i] = t[i + 1]
    BY <1>1, <1>4
  <2>2. t[(i + 1) + 1] = Op(t[i + 1], q[(i + 1) + 1])
    BY <1>2, <2>1 DEF Steps
  <2> QED BY <1>1, <1>4, <2>1, <2>2
<1>5. u[Len(r)] = t[Len(r) + 1]
  BY <1>1
<1>6. Steps(Op(base, Head(q)), r, u)
  BY <1>3, <1>4, Zenon DEF Steps
<1> HIDE DEF u
<1>7. FoldLeft(Op, Op(base, Head(q)), r) = u[Len(r)]
  BY <1>1, <1>6, StepsEnd
<1> QED BY <1>2, <1>5, <1>7 DEF r

\* Of one sequence after the other.
LEMMA FoldConcat ==
  ASSUME NEW base, NEW E, NEW p \in Seq(E), NEW q \in Seq(E)
  PROVE  FoldLeft(Op, base, p \o q) = FoldLeft(Op, FoldLeft(Op, base, p), q)
<1> DEFINE r == p \o q
<1>1. /\ Len(p) \in Nat /\ Len(q) \in Nat
      /\ r \in Seq(E)
      /\ Len(r) = Len(p) + Len(q)
      /\ \A i \in Nat : i < Len(p) => r[i + 1] = p[i + 1]
      /\ \A i \in Nat : i < Len(q) => r[(Len(p) + i) + 1] = q[i + 1]
  OBVIOUS
<1> HIDE DEF r
<1>2. PICK t : Steps(base, r, t) /\ FoldLeft(Op, base, r) = t[Len(p) + Len(q)]
  BY <1>1, FoldSteps
<1>3. FoldLeft(Op, base, p) = t[Len(p)]
  <2>1. ASSUME NEW i \in Nat, i < Len(p)
        PROVE  t[i + 1] = Op(t[i], p[i + 1])
    BY <1>1, <1>2, <2>1 DEF Steps
  <2>2. Steps(base, p, t)
    BY <1>2, <2>1 DEF Steps
  <2> QED BY <2>2, StepsEnd
<1> DEFINE u == [i \in Nat |-> t[Len(p) + i]]
<1>4. u[0] = t[Len(p)] /\ u[Len(q)] = t[Len(p) + Len(q)]
  BY <1>1
<1>5. ASSUME NEW i \in Nat, i < Len(q)
      PROVE  u[i + 1] = Op(u[i], q[i + 1])
  <2>1. Len(p) + i \in Nat /\ Len(p) + i < Len(r) /\ i + 1 \in Nat
    BY <1>1, <1>5
  <2>3. u[i + 1] = t[(Len(p) + i) + 1] /\ u[i] = t[Len(p) + i]
    <3>1. Len(p) + (i + 1) = (Len(p) + i) + 1
      BY <1>1
    <3>2. u[i + 1] = t[Len(p) + (i + 1)] /\ u[i] = t[Len(p) + i]
      BY <2>1, Zenon
    <3> QED BY <3>1, <3>2, Zenon
  <2>2. t[(Len(p) + i) + 1] = Op(t[Len(p) + i], r[(Len(p) + i) + 1])
    BY <1>2, <2>1 DEF Steps
  <2>4. r[(Len(p) + i) + 1] = q[i + 1]
    BY <1>1, <1>5
  <2> QED BY <2>2, <2>3, <2>4, Zenon
<1>6. Steps(t[Len(p)], q, u)
  BY <1>4, <1>5, Zenon DEF Steps
<1> HIDE DEF u
<1>7. FoldLeft(Op, t[Len(p)], q) = u[Len(q)]
  BY <1>6, StepsEnd
<1> QED BY <1>2, <1>3, <1>4, <1>7 DEF r

----------------------------------------------------------------------------
\* Two lists over the same sequence stay in a relation that Op keeps.
LEMMA StepsRelate ==
  ASSUME NEW R, NEW b, NEW c, <<b, c>> \in R,
         NEW E, NEW q \in Seq(E), NEW t, Steps(b, q, t), NEW u, Steps(c, q, u),
         \A x, y : <<x, y>> \in R =>
           \A i \in 1..Len(q) : <<Op(x, q[i]), Op(y, q[i])>> \in R
  PROVE  \A i \in Nat : i <= Len(q) => <<t[i], u[i]>> \in R
<1> DEFINE N == {i \in Nat : i <= Len(q) => <<t[i], u[i]>> \in R}
<1>3. 0 \in N
  BY DEF Steps
<1>4. ASSUME NEW i \in Nat, i \in N
      PROVE  i + 1 \in N
  <2>1. Len(q) \in Nat
    OBVIOUS
  <2>2. CASE i < Len(q)
    <3>1. <<t[i], u[i]>> \in R /\ i + 1 \in 1..Len(q)
      BY <1>4, <2>1, <2>2
    <3>2. t[i + 1] = Op(t[i], q[i + 1]) /\ u[i + 1] = Op(u[i], q[i + 1])
      BY <2>2 DEF Steps
    <3>3. <<Op(t[i], q[i + 1]), Op(u[i], q[i + 1])>> \in R
      BY <3>1, Zenon
    <3> QED BY <3>2, <3>3
  <2>3. CASE ~(i < Len(q))
    BY <2>1, <2>3
  <2> QED BY <2>2, <2>3
<1> HIDE DEF N
<1>5. \A i \in Nat : i \in N
  BY <1>3, <1>4, SetInduction
<1> QED BY <1>5 DEF N

\* A fold stays in a set that Op keeps, once it is there.
LEMMA StepsStay ==
  ASSUME NEW S, NEW base, NEW E, NEW q \in Seq(E), NEW t, Steps(base, q, t),
         NEW j \in Nat, t[j] \in S,
         \A x \in S : \A i \in 1..Len(q) : Op(x, q[i]) \in S
  PROVE  \A i \in Nat : j <= i /\ i <= Len(q) => t[i] \in S
<1> DEFINE N == {i \in Nat : j <= i /\ i <= Len(q) => t[i] \in S}
<1>1. 0 \in N
  <2>1. j <= 0 => j = 0
    OBVIOUS
  <2> QED BY <2>1
<1>2. ASSUME NEW i \in Nat, i \in N
      PROVE  i + 1 \in N
  <2>1. Len(q) \in Nat
    OBVIOUS
  <2>2. CASE j <= i /\ i < Len(q)
    <3>1. t[i] \in S /\ i + 1 \in 1..Len(q)
      BY <1>2, <2>1, <2>2
    <3>2. t[i + 1] = Op(t[i], q[i + 1])
      BY <2>2 DEF Steps
    <3> QED BY <3>1, <3>2
  <2>3. CASE j = i + 1
    BY <2>3
  <2>4. CASE ~(j <= i + 1) \/ ~(i < Len(q))
    BY <2>1, <2>4
  <2> QED BY <2>1, <2>2, <2>3, <2>4
<1> HIDE DEF N
<1>3. \A i \in Nat : i \in N
  BY <1>1, <1>2, SetInduction
<1> QED BY <1>3 DEF N

LEMMA FoldStays ==
  ASSUME NEW S, NEW b \in S, NEW E, NEW q \in Seq(E),
         \A x \in S : \A i \in 1..Len(q) : Op(x, q[i]) \in S
  PROVE  FoldLeft(Op, b, q) \in S
<1>1. PICK t : Steps(b, q, t) /\ FoldLeft(Op, b, q) = t[Len(q)]
  BY FoldSteps
<1>2. t[0] \in S /\ 0 \in Nat /\ Len(q) \in Nat /\ 0 <= Len(q) /\ Len(q) <= Len(q)
  BY <1>1 DEF Steps
<1>3. t[Len(q)] \in S
  BY <1>1, <1>2, StepsStay
<1> QED BY <1>1, <1>3
=============================================================================
