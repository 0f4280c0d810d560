-------------------------- MODULE PlacementProofs --------------------------
(***************************************************************************)
(* Theorems about detection and thread placement, Placement.tla, for every  *)
(* machine: any number of nodes in any order, any finite sets of cores, any *)
(* limit, and any number of workers.                                        *)
(***************************************************************************)
EXTENDS Placement, FiniteSetTheorems, FunctionTheorems, SequenceTheorems, TLAPS

-----------------------------------------------------------------------------
(* Induction, from the least counterexample.                               *)

\* The numbers below n.
Below(n) == 0..(n - 1)

\* A set of numbers that is not empty has a least element: the finite sets are well
\* founded, so one of the intervals below its elements is smallest.  Every induction
\* below is an appeal to the least counterexample.
LEMMA LeastNatural == ASSUME NEW T \in SUBSET Nat, T # {}
  PROVE \E x \in T : \A y \in T : x <= y
<1> DEFINE S == {Below(n) : n \in T}
<1>1. S \subseteq FiniteSubsetsOf(Nat) /\ S # {}
  <2>1. ASSUME NEW n \in T PROVE Below(n) \subseteq Nat /\ IsFiniteSet(Below(n))
    BY FS_Interval DEF Below
  <2> QED BY <2>1 DEF FiniteSubsetsOf
<1>2. PICK x \in T : \A y \in T : <<Below(y), Below(x)>> \notin StrictSubsetOrdering(Nat)
  <2> HIDE DEF S
  <2>1. \E b \in S : \A a \in S : <<a, b>> \notin StrictSubsetOrdering(Nat)
    BY <1>1, FS_StrictSubsetOrderingWellFounded, WFMin, Zenon
  <2> QED BY <2>1, Zenon DEF S
<1>3. ASSUME NEW y \in T, y < x PROVE FALSE
  <2>1. Below(y) \subseteq Below(x) /\ Below(y) # Below(x) /\ Below(x) \subseteq Nat
    <3>1. y \in Below(x) /\ y \notin Below(y)
      BY <1>3 DEF Below
    <3> QED BY <3>1, <1>3 DEF Below
  <2>2. Below(y) \in SUBSET Nat /\ Below(x) \in SUBSET Nat
    BY <2>1
  <2>3. <<Below(y), Below(x)>> \in StrictSubsetOrdering(Nat)
    BY <2>1, <2>2 DEF StrictSubsetOrdering
  <2> QED BY <2>3, <1>2
<1> QED BY <1>3

\* What holds of 0 and is handed on by every number below n holds up to n.
LEMMA Stepwise ==
  ASSUME NEW P, NEW n \in Nat, 0 \in P, \A k \in 0..(n - 1) : k \in P => k + 1 \in P
  PROVE  0..n \subseteq P
<1> DEFINE T == {k \in 0..n : k \notin P}
<1>1. SUFFICES ASSUME T # {} PROVE FALSE
  OBVIOUS
<1>2. PICK x \in T : \A y \in T : x <= y
  <2>1. T \in SUBSET Nat
    OBVIOUS
  <2> HIDE DEF T
  <2> QED BY <1>1, <2>1, LeastNatural
<1>3. x \in Nat \ {0} /\ x <= n /\ x \notin P
  OBVIOUS
<1>4. x - 1 \in 0..(n - 1) /\ ~(x <= x - 1) /\ x - 1 \in 0..n /\ (x - 1) + 1 = x
  BY <1>3
<1>5. x - 1 \in P
  BY <1>2, <1>4
<1> QED BY <1>3, <1>4, <1>5

-----------------------------------------------------------------------------
(* Sorted lists of numbers.                                                *)

\* How many elements of S there are up to x.
Rank(S, x) == Cardinality({y \in S : y <= x})

\* An element's rank is a position of the list, and ranks ascend with the elements.
LEMMA RankOrder ==
  ASSUME NEW S \in SUBSET Nat, IsFiniteSet(S)
  PROVE  /\ Cardinality(S) \in Nat
         /\ \A x \in S : Rank(S, x) \in 1..Cardinality(S)
         /\ \A x, y \in S : x < y => Rank(S, x) < Rank(S, y)
<1>1. Cardinality(S) \in Nat
  BY FS_CardinalityType
<1>2. ASSUME NEW x \in S PROVE Rank(S, x) \in 1..Cardinality(S)
  <2> DEFINE U == {y \in S : y <= x}
  <2>1. U \in SUBSET S /\ U # {}
    OBVIOUS
  <2> HIDE DEF U
  <2>2. IsFiniteSet(U) /\ Cardinality(U) <= Cardinality(S)
    BY <2>1, FS_Subset
  <2>3. Cardinality(U) \in Nat /\ Cardinality(U) # 0
    BY <2>1, <2>2, FS_CardinalityType, FS_EmptySet
  <2>4. Cardinality(U) \in 1..Cardinality(S)
    BY <1>1, <2>2, <2>3
  <2> QED BY <2>4 DEF Rank, U
<1>3. ASSUME NEW x \in S, NEW y \in S, x < y PROVE Rank(S, x) < Rank(S, y)
  <2> DEFINE U == {z \in S : z <= x}
             V == {z \in S : z <= y}
  <2>1. U \in SUBSET V /\ U # V /\ V \in SUBSET S
    <3>1. x \in Nat /\ y \in Nat /\ \A z \in S : z \in Nat
      OBVIOUS
    <3>2. y \in V /\ y \notin U
      BY <1>3, <3>1
    <3>3. \A z \in S : z <= x => z <= y
      BY <1>3, <3>1
    <3>4. U \subseteq V /\ V \subseteq S
      BY <3>3
    <3> QED BY <3>2, <3>4
  <2>2. Cardinality(U) = Rank(S, x) /\ Cardinality(V) = Rank(S, y)
    BY DEF Rank
  <2> HIDE DEF U, V
  <2>3. IsFiniteSet(V)
    BY <2>1, FS_Subset
  <2>4. Cardinality(U) <= Cardinality(V) /\ Cardinality(U) # Cardinality(V)
    BY <2>1, <2>3, FS_Subset
  <2> QED BY <1>1, <1>2, <2>2, <2>4
<1> QED BY <1>1, <1>2, <1>3

\* Every position is the rank of an element: ranks inject a finite set into as many
\* positions as it has elements.
LEMMA RankOnto ==
  ASSUME NEW S \in SUBSET Nat, IsFiniteSet(S), NEW i \in 1..Cardinality(S)
  PROVE  \E x \in S : Rank(S, x) = i
<1> DEFINE n == Cardinality(S)
           f == [x \in S |-> Rank(S, x)]
<1>1. n \in Nat /\ IsFiniteSet(1..n) /\ Cardinality(1..n) = n
  BY RankOrder, FS_Interval
<1>2. f \in Injection(S, 1..n)
  <2>1. f \in [S -> 1..n]
    BY RankOrder
  <2>2. ASSUME NEW x \in S, NEW y \in S, Rank(S, x) = Rank(S, y) PROVE x = y
    <3>1. x \in Nat /\ y \in Nat /\ Rank(S, x) \in Int
      BY RankOrder
    <3> QED BY <2>2, <3>1, RankOrder
  <2> QED BY <2>1, <2>2 DEF Injection, IsInjective
<1>3. f \in Surjection(S, 1..n)
  <2> HIDE DEF f
  <2> QED BY <1>1, <1>2, FS_Injection
<1> QED BY <1>3 DEF Surjection

\* Sorted(S) holds every element of S, ascends, and has the element of rank i at i.
LEMMA SortedProperties ==
  ASSUME NEW S \in SUBSET Nat, IsFiniteSet(S)
  PROVE  /\ Sorted(S) \in [1..Cardinality(S) -> S]
         /\ \A i \in 1..Cardinality(S) : Rank(S, Sorted(S)[i]) = i
         /\ \A i, j \in 1..Cardinality(S) : i < j => Sorted(S)[i] < Sorted(S)[j]
         /\ \A x \in S : \E i \in 1..Cardinality(S) : Sorted(S)[i] = x
<1> DEFINE n == Cardinality(S)
<1>1. Sorted(S) = [i \in 1..n |-> CHOOSE x \in S : Rank(S, x) = i]
  BY DEF Sorted, Rank
<1>2. ASSUME NEW i \in 1..n
      PROVE  Sorted(S)[i] \in S /\ Rank(S, Sorted(S)[i]) = i
  BY <1>1, RankOnto
<1>3. ASSUME NEW i \in 1..n, NEW j \in 1..n, i < j
      PROVE  Sorted(S)[i] < Sorted(S)[j]
  <2> DEFINE a == Sorted(S)[i]
             b == Sorted(S)[j]
  <2>1. a \in S /\ b \in S /\ Rank(S, a) = i /\ Rank(S, b) = j
    BY <1>2
  <2> HIDE DEF a, b
  <2>2. a \in Nat /\ b \in Nat
    BY <2>1
  <2>3. ~(b < a) /\ a # b
    BY <1>3, <2>1, RankOrder
  <2>4. a < b
    BY <2>2, <2>3
  <2> QED BY <2>4 DEF a, b
<1>4. ASSUME NEW x \in S PROVE \E i \in 1..n : Sorted(S)[i] = x
  <2>1. Rank(S, x) \in 1..n
    BY RankOrder
  <2> DEFINE y == Sorted(S)[Rank(S, x)]
  <2>2. y \in S /\ Rank(S, y) = Rank(S, x)
    BY <1>2, <2>1
  <2>3. x = y
    <3> HIDE DEF y
    <3>1. x \in Nat /\ y \in Nat /\ Rank(S, x) \in Int
      BY <2>1, <2>2
    <3> QED BY <2>2, <3>1, RankOrder
  <2> QED BY <2>1, <2>3
<1>5. Sorted(S) \in [1..n -> S]
  BY <1>1, <1>2
<1> QED BY <1>2, <1>3, <1>4, <1>5

\* A list that ascends and holds every element of S is Sorted(S).
LEMMA SortedUnique ==
  ASSUME NEW S \in SUBSET Nat, IsFiniteSet(S), NEW n \in Nat, NEW q \in [1..n -> S],
         \A i, j \in 1..n : i < j => q[i] < q[j],
         \A x \in S : \E i \in 1..n : q[i] = x
  PROVE  n = Cardinality(S) /\ q = Sorted(S)
<1>1. q \in Bijection(1..n, S)
  <2>1. ASSUME NEW i \in 1..n, NEW j \in 1..n, q[i] = q[j] PROVE i = j
    <3>1. q[i] \in Nat /\ q[j] \in Nat
      OBVIOUS
    <3> QED BY <2>1, <3>1
  <2> QED BY <2>1 DEF Bijection, Injection, Surjection, IsInjective
<1>2. n = Cardinality(S)
  BY <1>1, FS_CountingElements DEF ExistsBijection
<1>3. ASSUME NEW i \in 1..n PROVE Rank(S, q[i]) = i
  <2> DEFINE U == {y \in S : y <= q[i]}
             g == [j \in 1..i |-> q[j]]
  <2>1. ASSUME NEW y \in U PROVE \E j \in 1..i : q[j] = y
    <3>1. PICK j \in 1..n : q[j] = y
      OBVIOUS
    <3>2. q[j] \in Nat /\ q[i] \in Nat /\ q[j] <= q[i]
      BY <3>1
    <3>3. ~(i < j)
      BY <3>2
    <3> QED BY <3>1, <3>3
  <2>2. ASSUME NEW j \in 1..i PROVE j \in 1..n /\ q[j] \in U
    <3>1. j \in 1..n /\ (j = i \/ j < i)
      OBVIOUS
    <3>2. q[j] \in Nat /\ q[i] \in Nat /\ q[j] \in S
      BY <3>1
    <3> QED BY <3>1, <3>2
  <2>3. g \in Bijection(1..i, U)
    <3>1. g \in [1..i -> U]
      BY <2>2
    <3>2. ASSUME NEW j \in 1..i, NEW k \in 1..i, g[j] = g[k] PROVE j = k
      BY <1>1, <2>2, <3>2 DEF Bijection, Injection, IsInjective
    <3> HIDE DEF U
    <3> QED BY <2>1, <3>1, <3>2 DEF Bijection, Injection, Surjection, IsInjective
  <2>4. Cardinality(U) = i
    <3> HIDE DEF U, g
    <3> QED BY <2>3, FS_CountingElements DEF ExistsBijection
  <2> QED BY <2>4 DEF Rank
<1>4. ASSUME NEW i \in 1..n PROVE q[i] = Sorted(S)[i]
  <2> DEFINE a == q[i]
             b == Sorted(S)[i]
  <2>1. a \in S /\ b \in S /\ Rank(S, a) = i /\ Rank(S, b) = i
    BY <1>2, <1>3, SortedProperties
  <2> HIDE DEF a, b
  <2>2. a \in Nat /\ b \in Nat
    BY <2>1
  <2>3. a = b
    BY <2>1, <2>2, RankOrder
  <2> QED BY <2>3 DEF a, b
<1>5. DOMAIN q = 1..n /\ Sorted(S) = [i \in 1..n |-> Sorted(S)[i]] /\ q = [i \in 1..n |-> q[i]]
  BY <1>2 DEF Sorted
<1> QED BY <1>2, <1>4, <1>5

-----------------------------------------------------------------------------
(* FlattenSeq, part by part.                                               *)

\* f is the sequence of the concatenations of the first elements of s.
Accumulates(f, s, n) ==
  f = [i \in 1..n |-> IF i = 1 THEN s[i] ELSE f[i - 1] \o s[i]]

\* What it means to accumulate, position by position.
LEMMA AccumulatesSteps ==
  ASSUME NEW f, NEW s, NEW n \in Nat, Accumulates(f, s, n)
  PROVE  /\ DOMAIN f = 1..n
         /\ n # 0 => f[1] = s[1]
         /\ \A i \in 2..n : f[i] = f[i - 1] \o s[i]
<1> DEFINE g == [i \in 1..n |-> IF i = 1 THEN s[i] ELSE f[i - 1] \o s[i]]
<1>1. f = g
  BY DEF Accumulates
<1>2. DOMAIN g = 1..n /\ (n # 0 => g[1] = s[1])
  <2>1. n # 0 => 1 \in 1..n
    OBVIOUS
  <2> QED BY <2>1
<1>3. ASSUME NEW i \in 2..n PROVE g[i] = f[i - 1] \o s[i]
  <2>1. i \in 1..n /\ i # 1
    OBVIOUS
  <2> QED BY <2>1
<1> HIDE DEF g
<1> QED BY <1>1, <1>2, <1>3

\* Two such lists agree as far as the shorter one goes.
LEMMA AccumulatesUnique ==
  ASSUME NEW f, NEW g, NEW s, NEW m \in Nat, NEW n \in Nat,
         Accumulates(f, s, m), Accumulates(g, s, n), m <= n
  PROVE  \A i \in 1..m : f[i] = g[i]
<1> DEFINE P == {k \in 0..m : k # 0 => f[k] = g[k]}
<1>1. 0 \in P
  OBVIOUS
<1>2. ASSUME NEW k \in 0..(m - 1), k \in P PROVE k + 1 \in P
  <2>1. CASE k = 0
    <3>0. m # 0 /\ n # 0
      BY <2>1
    <3>1. f[1] = s[1]
      BY <3>0, AccumulatesSteps
    <3>2. g[1] = s[1]
      BY <3>0, AccumulatesSteps
    <3> QED BY <2>1, <3>1, <3>2
  <2>2. CASE k # 0
    <3>1. k + 1 \in 2..m /\ k + 1 \in 2..n /\ (k + 1) - 1 = k
      BY <2>2
    <3>2. f[k + 1] = f[(k + 1) - 1] \o s[k + 1]
      BY <3>1, AccumulatesSteps
    <3>3. g[k + 1] = g[(k + 1) - 1] \o s[k + 1]
      BY <3>1, AccumulatesSteps
    <3>4. f[k] = g[k]
      BY <1>2, <2>2
    <3>5. f[k + 1] = g[k + 1]
      BY <3>1, <3>2, <3>3, <3>4
    <3> QED BY <3>5
  <2> QED BY <2>1, <2>2
<1>3. 0..m \subseteq P
  <2> HIDE DEF P
  <2> QED BY <1>1, <1>2, Stepwise
<1> QED BY <1>3

\* There is one of every length: the recursive function FlattenSeq chooses exists.
LEMMA AccumulatesExists ==
  ASSUME NEW s, NEW n \in Nat
  PROVE  \E f : Accumulates(f, s, n)
<1> DEFINE P == {k \in 0..n : \E f : Accumulates(f, s, k)}
<1>1. 0 \in P
  <2> DEFINE f == [i \in 1..0 |-> 0]
  <2>1. f = [i \in 1..0 |-> IF i = 1 THEN s[i] ELSE f[i - 1] \o s[i]]
    OBVIOUS
  <2> HIDE DEF f
  <2>2. Accumulates(f, s, 0)
    BY <2>1 DEF Accumulates
  <2> QED BY <2>2
<1>2. ASSUME NEW k \in 0..(n - 1), k \in P PROVE k + 1 \in P
  <2>1. PICK f : Accumulates(f, s, k)
    BY <1>2
  <2> DEFINE g == [i \in 1..(k + 1) |->
                     IF i <= k THEN f[i] ELSE IF i = 1 THEN s[i] ELSE f[i - 1] \o s[i]]
  <2>2. /\ \A i \in 1..k : f[i] = IF i = 1 THEN s[i] ELSE f[i - 1] \o s[i]
    <3>0. k \in Nat
      OBVIOUS
    <3>1. k # 0 => f[1] = s[1]
      BY <2>1, <3>0, AccumulatesSteps
    <3>2. \A i \in 2..k : f[i] = f[i - 1] \o s[i]
      BY <2>1, <3>0, AccumulatesSteps
    <3>3. ASSUME NEW i \in 1..k PROVE f[i] = IF i = 1 THEN s[i] ELSE f[i - 1] \o s[i]
      <4>1. i = 1 \/ i \in 2..k
        OBVIOUS
      <4>2. CASE i = 1
        BY <3>1, <4>2
      <4>3. CASE i # 1
        BY <3>2, <4>1, <4>3
      <4> QED BY <4>2, <4>3
    <3> QED BY <3>3
  <2>3. ASSUME NEW i \in 1..(k + 1)
        PROVE  g[i] = IF i = 1 THEN s[i] ELSE g[i - 1] \o s[i]
    <3>1. CASE i = 1
      BY <2>2, <3>1
    <3>2. CASE i # 1
      <4>1. i - 1 \in 1..k /\ i - 1 \in 1..(k + 1) /\ i - 1 <= k
        BY <3>2
      <4>2. g[i - 1] = f[i - 1]
        BY <4>1
      <4>3. g[i] = f[i - 1] \o s[i]
        <5>1. CASE i <= k
          <6>1. i \in 1..k /\ g[i] = f[i]
            BY <5>1
          <6> QED BY <2>2, <3>2, <6>1
        <5>2. CASE ~(i <= k)
          BY <3>2, <5>2
        <5> QED BY <5>1, <5>2
      <4> HIDE DEF g
      <4> QED BY <3>2, <4>2, <4>3
    <3> QED BY <3>1, <3>2
  <2>4. g = [i \in 1..(k + 1) |-> g[i]]
    OBVIOUS
  <2> HIDE DEF g
  <2>5. g = [i \in 1..(k + 1) |-> IF i = 1 THEN s[i] ELSE g[i - 1] \o s[i]]
    BY <2>3, <2>4
  <2>6. Accumulates(g, s, k + 1)
    BY <2>5 DEF Accumulates
  <2> QED BY <2>6
<1>3. 0..n \subseteq P
  <2> HIDE DEF P
  <2> QED BY <1>1, <1>2, Stepwise
<1> QED BY <1>3

\* FlattenSeq is the last element of any such list.
LEMMA FlattenIsAccumulated ==
  ASSUME NEW s, NEW n \in Nat \ {0}, Len(s) = n, NEW f, Accumulates(f, s, n)
  PROVE  FlattenSeq(s) = f[n]
<1> DEFINE g == CHOOSE g : g = [i \in 1..Len(s) |-> IF i = 1 THEN s[i] ELSE g[i - 1] \o s[i]]
<1>1. FlattenSeq(s) = g[n]
  BY DEF FlattenSeq
<1>2. g = [i \in 1..Len(s) |-> IF i = 1 THEN s[i] ELSE g[i - 1] \o s[i]]
  <2>1. \E h : h = [i \in 1..Len(s) |-> IF i = 1 THEN s[i] ELSE h[i - 1] \o s[i]]
    BY AccumulatesExists DEF Accumulates
  <2> QED BY <2>1
<1>3. Accumulates(g, s, n)
  <2> HIDE DEF g
  <2> QED BY <1>2 DEF Accumulates
<1> HIDE DEF g
<1>4. g[n] = f[n]
  BY <1>3, AccumulatesUnique
<1> QED BY <1>1, <1>4

\* The concatenation of the first k elements.
FirstParts(s, k) == FlattenSeq(SubSeq(s, 1, k))

\* Concatenating one more part: how the collected cores and total_cores grow.
LEMMA FlattenSteps ==
  ASSUME NEW T, NEW n \in Nat, NEW s \in [1..n -> Seq(T)]
  PROVE  /\ FirstParts(s, 0) = <<>>
         /\ \A k \in 0..(n - 1) : FirstParts(s, k + 1) = FirstParts(s, k) \o s[k + 1]
         /\ FirstParts(s, n) = FlattenSeq(s)
         /\ \A k \in 0..n : FirstParts(s, k) \in Seq(T)
<1>1. s \in Seq(Seq(T)) /\ Len(s) = n
  OBVIOUS
<1>2. ASSUME NEW k \in 0..n PROVE Len(SubSeq(s, 1, k)) = k /\ \A i \in 1..k : SubSeq(s, 1, k)[i] = s[i]
  <2>1. \A i \in 1..k : s[i] \in Seq(T)
    OBVIOUS
  <2>2. Len(SubSeq(s, 1, k)) = (IF 1 <= k THEN k - 1 + 1 ELSE 0)
        /\ \A i \in 1..(k - 1 + 1) : SubSeq(s, 1, k)[i] = s[1 + i - 1]
    BY <2>1, SubSeqProperties
  <2> QED BY <2>2
<1>3. FirstParts(s, 0) = <<>>
  <2>1. SubSeq(s, 1, 0) = <<>>
    BY SubSeqEmpty
  <2> QED BY <2>1 DEF FirstParts, FlattenSeq
<1>4. PICK f : Accumulates(f, s, n)
  BY AccumulatesExists
<1>5. ASSUME NEW k \in 1..n PROVE FirstParts(s, k) = f[k]
  <2> DEFINE t == SubSeq(s, 1, k)
  <2>0. k \in Nat \ {0} /\ k \in 0..n /\ FirstParts(s, k) = FlattenSeq(t)
    BY DEF FirstParts
  <2>2. Len(t) = k /\ \A i \in 1..k : t[i] = s[i]
    BY <1>2, <2>0
  <2> HIDE DEF t
  <2>1. PICK g : Accumulates(g, t, k)
    BY <2>0, AccumulatesExists
  <2>3. FirstParts(s, k) = g[k]
    BY <2>0, <2>1, <2>2, FlattenIsAccumulated
  <2>4. Accumulates(g, s, k)
    <3>1. g = [i \in 1..k |-> IF i = 1 THEN t[i] ELSE g[i - 1] \o t[i]]
      BY <2>1 DEF Accumulates
    <3>2. g = [i \in 1..k |-> IF i = 1 THEN s[i] ELSE g[i - 1] \o s[i]]
      BY <2>2, <3>1
    <3> QED BY <3>2 DEF Accumulates
  <2>5. \A i \in 1..k : g[i] = f[i]
    BY <1>4, <2>4, AccumulatesUnique
  <2> QED BY <2>3, <2>5
<1>6. /\ DOMAIN f = 1..n
      /\ n # 0 => f[1] = s[1]
      /\ \A i \in 2..n : f[i] = f[i - 1] \o s[i]
  BY <1>4, AccumulatesSteps
<1>7. ASSUME NEW k \in 0..(n - 1)
      PROVE  FirstParts(s, k + 1) = FirstParts(s, k) \o s[k + 1]
  <2>1. k + 1 \in 1..n /\ s[k + 1] \in Seq(T)
    OBVIOUS
  <2>2. CASE k = 0
    <3>1. FirstParts(s, 1) = s[1] /\ s[1] \in Seq(T)
      BY <1>5, <1>6, <2>1, <2>2
    <3>2. <<>> \o s[1] = s[1]
      BY <3>1, ConcatEmptySeq
    <3> QED BY <1>3, <2>2, <3>1, <3>2
  <2>3. CASE k # 0
    <3>1. k \in 1..n /\ k + 1 \in 2..n /\ (k + 1) - 1 = k
      BY <2>3
    <3>2. f[k + 1] = f[(k + 1) - 1] \o s[k + 1]
      BY <1>6, <3>1
    <3>3. FirstParts(s, k) = f[k] /\ FirstParts(s, k + 1) = f[k + 1]
      BY <1>5, <2>1, <3>1
    <3> QED BY <3>1, <3>2, <3>3
  <2> QED BY <2>2, <2>3
<1>8. FirstParts(s, n) = FlattenSeq(s)
  <2>1. SubSeq(s, 1, n) = s
    BY <1>1, SubSeqFull
  <2> QED BY <2>1 DEF FirstParts
<1>9. \A k \in 0..n : FirstParts(s, k) \in Seq(T)
  <2> DEFINE P == {k \in 0..n : FirstParts(s, k) \in Seq(T)}
  <2>1. 0 \in P
    <3>1. <<>> \in Seq(T)
      BY EmptySeq
    <3>2. FirstParts(s, 0) \in Seq(T)
      BY <1>3, <3>1, Zenon
    <3> QED BY <3>2
  <2>2. ASSUME NEW k \in 0..(n - 1), k \in P PROVE k + 1 \in P
    <3>1. FirstParts(s, k) \in Seq(T) /\ s[k + 1] \in Seq(T)
      BY <2>2
    <3>2. FirstParts(s, k) \o s[k + 1] \in Seq(T)
      BY <3>1, ConcatProperties
    <3>3. FirstParts(s, k + 1) \in Seq(T)
      BY <1>7, <3>2, Zenon
    <3> QED BY <3>3
  <2>3. 0..n \subseteq P
    <3> HIDE DEF P
    <3> QED BY <2>1, <2>2, Stepwise
  <2> QED BY <2>3
<1> QED BY <1>3, <1>7, <1>8, <1>9

-----------------------------------------------------------------------------
(* Ascending lists.                                                         *)

\* Each element is greater than those before it.
Ascending(q) == \A i, j \in DOMAIN q : i < j => q[i] < q[j]

\* A concatenation holds what its parts hold ...
LEMMA ConcatRange ==
  ASSUME NEW T, NEW q \in Seq(T), NEW r \in Seq(T)
  PROVE  Range(q \o r) = Range(q) \cup Range(r)
<1>1. /\ q \o r \in Seq(T) /\ Len(q \o r) = Len(q) + Len(r)
      /\ \A i \in 1..(Len(q) + Len(r)) : (q \o r)[i] = IF i <= Len(q) THEN q[i] ELSE r[i - Len(q)]
  BY ConcatProperties
<1>2. /\ Len(q) \in Nat /\ Len(r) \in Nat /\ DOMAIN q = 1..Len(q) /\ DOMAIN r = 1..Len(r)
      /\ DOMAIN (q \o r) = 1..(Len(q) + Len(r))
  BY <1>1, LenProperties
<1>3. ASSUME NEW i \in DOMAIN (q \o r) PROVE (q \o r)[i] \in Range(q) \cup Range(r)
  <2>1. CASE i <= Len(q)
    <3>1. i \in DOMAIN q /\ (q \o r)[i] = q[i]
      BY <1>1, <1>2, <2>1
    <3> QED BY <3>1 DEF Range
  <2>2. CASE ~(i <= Len(q))
    <3>1. i - Len(q) \in DOMAIN r /\ (q \o r)[i] = r[i - Len(q)]
      BY <1>1, <1>2, <2>2
    <3> QED BY <3>1 DEF Range
  <2> QED BY <2>1, <2>2
<1>4. ASSUME NEW i \in DOMAIN q PROVE q[i] \in Range(q \o r)
  <2>1. i \in DOMAIN (q \o r) /\ (q \o r)[i] = q[i]
    BY <1>1, <1>2
  <2> QED BY <2>1 DEF Range
<1>5. ASSUME NEW i \in DOMAIN r PROVE r[i] \in Range(q \o r)
  <2>1. i + Len(q) \in DOMAIN (q \o r) /\ ~(i + Len(q) <= Len(q)) /\ (i + Len(q)) - Len(q) = i
    BY <1>2
  <2>2. (q \o r)[i + Len(q)] = r[i]
    BY <1>1, <1>2, <2>1
  <2> QED BY <2>1, <2>2 DEF Range
<1>6. Range(q \o r) \subseteq Range(q) \cup Range(r)
  BY <1>3 DEF Range
<1>7. Range(q) \subseteq Range(q \o r) /\ Range(r) \subseteq Range(q \o r)
  BY <1>4, <1>5 DEF Range
<1> QED BY <1>6, <1>7

\* ... and ascends when both do and all of the first is below all of the second.
LEMMA ConcatAscending ==
  ASSUME NEW q \in Seq(Nat), NEW r \in Seq(Nat), Ascending(q), Ascending(r),
         \A x \in Range(q), y \in Range(r) : x < y
  PROVE  Ascending(q \o r)
<1>1. /\ q \o r \in Seq(Nat) /\ Len(q \o r) = Len(q) + Len(r)
      /\ \A i \in 1..(Len(q) + Len(r)) : (q \o r)[i] = IF i <= Len(q) THEN q[i] ELSE r[i - Len(q)]
  BY ConcatProperties
<1>2. /\ Len(q) \in Nat /\ Len(r) \in Nat /\ DOMAIN q = 1..Len(q) /\ DOMAIN r = 1..Len(r)
      /\ DOMAIN (q \o r) = 1..(Len(q) + Len(r))
  BY <1>1, LenProperties
<1> SUFFICES ASSUME NEW i \in DOMAIN (q \o r), NEW j \in DOMAIN (q \o r), i < j
             PROVE  (q \o r)[i] < (q \o r)[j]
  BY DEF Ascending
<1>3. CASE j <= Len(q)
  <2>1. i \in DOMAIN q /\ j \in DOMAIN q /\ (q \o r)[i] = q[i] /\ (q \o r)[j] = q[j]
    BY <1>1, <1>2, <1>3
  <2> QED BY <2>1 DEF Ascending
<1>4. CASE i <= Len(q) /\ ~(j <= Len(q))
  <2>1. /\ i \in DOMAIN q /\ j - Len(q) \in DOMAIN r
        /\ (q \o r)[i] = q[i] /\ (q \o r)[j] = r[j - Len(q)]
    BY <1>1, <1>2, <1>4
  <2> QED BY <2>1 DEF Range
<1>5. CASE ~(i <= Len(q))
  <2>1. /\ i - Len(q) \in DOMAIN r /\ j - Len(q) \in DOMAIN r /\ i - Len(q) < j - Len(q)
        /\ (q \o r)[i] = r[i - Len(q)] /\ (q \o r)[j] = r[j - Len(q)]
    BY <1>1, <1>2, <1>5
  <2> QED BY <2>1 DEF Ascending
<1> QED BY <1>2, <1>3, <1>4, <1>5

-----------------------------------------------------------------------------
(* The ranges of a set of numbers.                                         *)

\* A finite set leaves out some number after a: the range from a has an end.
LEMMA LastOfRange ==
  ASSUME NEW S \in SUBSET Nat, IsFiniteSet(S), NEW a \in S
  PROVE  /\ LastOf(S, a) \in S /\ a <= LastOf(S, a)
         /\ a..LastOf(S, a) \subseteq S /\ LastOf(S, a) + 1 \notin S
<1> DEFINE T == {b \in Nat : a <= b /\ b + 1 \notin S}
<1>1. T # {}
  <2> DEFINE n == Cardinality(S)
             m == Sorted(S)[n]
  <2>1. n \in Nat /\ n # 0
    BY FS_CardinalityType, FS_EmptySet
  <2>2. m \in S
    BY <2>1, SortedProperties
  <2>3. \A x \in S : x <= m
    <3> SUFFICES ASSUME NEW x \in S PROVE x <= m
      OBVIOUS
    <3>1. PICK i \in 1..n : Sorted(S)[i] = x
      BY SortedProperties
    <3>2. i = n \/ i < n
      BY <2>1
    <3>3. n \in 1..n
      BY <2>1
    <3>4. i < n => Sorted(S)[i] < m
      BY <3>3, SortedProperties
    <3> HIDE DEF m, n
    <3>5. x \in Nat /\ m \in Nat
      BY <2>2
    <3>6. CASE i = n
      BY <3>1, <3>5, <3>6 DEF m
    <3>7. CASE i < n
      BY <3>1, <3>4, <3>5, <3>7
    <3> QED BY <3>2, <3>6, <3>7
  <2> HIDE DEF m
  <2>4. m \in Nat /\ a <= m /\ m + 1 \notin S
    BY <2>2, <2>3
  <2> QED BY <2>4
<1>2. PICK b \in T : \A c \in T : b <= c
  <2>1. T \in SUBSET Nat
    OBVIOUS
  <2> HIDE DEF T
  <2> QED BY <1>1, <2>1, LeastNatural
<1>3. a \in Nat /\ b \in Nat /\ a <= b /\ b + 1 \notin S
  OBVIOUS
<1>4. ASSUME NEW x \in a..b PROVE x \in S
  <2>1. CASE x = a
    BY <2>1
  <2>2. CASE x # a
    <3>1. x - 1 \in Nat /\ a <= x - 1 /\ ~(b <= x - 1) /\ (x - 1) + 1 = x
      BY <1>3, <2>2
    <3>2. x - 1 \notin T
      BY <1>2, <3>1
    <3> QED BY <3>1, <3>2
  <2> QED BY <2>1, <2>2
<1>5. b \in S /\ a <= b /\ a..b \subseteq S /\ b + 1 \notin S
  <2>1. b \in a..b
    BY <1>3
  <2> QED BY <1>3, <1>4, <2>1
<1>6. \E c \in S : a <= c /\ a..c \subseteq S /\ c + 1 \notin S
  BY <1>5
<1> QED BY <1>6 DEF LastOf

\* Going down from an element without leaving the set ends at the start of a range.
LEMMA StartOfRange ==
  ASSUME NEW S \in SUBSET Nat, NEW x \in S
  PROVE  \E a \in Starts(S) : a <= x /\ a..x \subseteq S
<1> DEFINE T == {a \in Nat : a <= x /\ a..x \subseteq S}
<1>1. x \in T
  <2>1. x \in Nat /\ x <= x /\ x..x = {x}
    OBVIOUS
  <2> QED BY <2>1
<1>2. PICK a \in T : \A c \in T : a <= c
  <2>1. T \in SUBSET Nat
    OBVIOUS
  <2> HIDE DEF T
  <2> QED BY <1>1, <2>1, LeastNatural
<1>3. a \in Nat /\ a <= x /\ a..x \subseteq S /\ x \in Nat
  OBVIOUS
<1>4. a \in S
  BY <1>3
<1>5. ASSUME a - 1 \in S PROVE FALSE
  <2>1. a - 1 \in Nat /\ a - 1 <= x /\ ~(a <= a - 1)
    BY <1>3, <1>5
  <2>2. \A y \in (a - 1)..x : y = a - 1 \/ y \in a..x
    BY <1>3
  <2>3. (a - 1)..x \subseteq S
    BY <1>3, <1>5, <2>2
  <2>4. a - 1 \in T
    BY <2>1, <2>3
  <2> HIDE DEF T
  <2> QED BY <1>2, <2>1, <2>4
<1> QED BY <1>3, <1>4, <1>5 DEF Starts

\* A range ends before the next one starts ...
LEMMA RangesApart ==
  ASSUME NEW S \in SUBSET Nat, IsFiniteSet(S), NEW a \in Starts(S), NEW c \in Starts(S), a < c
  PROVE  LastOf(S, a) < c
<1> DEFINE b == LastOf(S, a)
<1>1. a \in S /\ c \in S /\ c - 1 \notin S
  BY DEF Starts
<1>2. b \in S /\ a..b \subseteq S
  BY <1>1, LastOfRange
<1> HIDE DEF b
<1>3. a \in Nat /\ b \in Nat /\ c \in Nat
  BY <1>1, <1>2
<1>4. ~(c <= b)
  <2>1. c <= b => c - 1 \in a..b
    BY <1>3
  <2> QED BY <1>1, <1>2, <2>1
<1>5. b < c
  BY <1>3, <1>4
<1> QED BY <1>5 DEF b

\* ... and every element is in a range.
LEMMA RangesCover ==
  ASSUME NEW S \in SUBSET Nat, IsFiniteSet(S), NEW x \in S
  PROVE  \E a \in Starts(S) : x \in a..LastOf(S, a)
<1>1. PICK a \in Starts(S) : a <= x /\ a..x \subseteq S
  BY StartOfRange
<1> DEFINE b == LastOf(S, a)
<1>2. a \in S /\ b \in S /\ a <= b /\ b + 1 \notin S
  BY LastOfRange DEF Starts
<1> HIDE DEF b
<1>3. a \in Nat /\ b \in Nat /\ x \in Nat
  BY <1>2
<1>4. ~(b < x)
  <2>1. b < x => b + 1 \in a..x
    BY <1>2, <1>3
  <2> QED BY <1>1, <1>2, <2>1
<1>5. x \in a..b
  BY <1>1, <1>3, <1>4
<1> QED BY <1>5 DEF b

-----------------------------------------------------------------------------
(* parse_cpu_list reads back what the kernel wrote.                         *)

\* The numbers from a to b.
Run(a, b) == [i \in 1..(b - a + 1) |-> a + i - 1]

\* start..=end is ascending and holds exactly the numbers from start to end.
LEMMA RunProperties ==
  ASSUME NEW a \in Nat, NEW b \in Nat, a <= b
  PROVE  Run(a, b) \in Seq(Nat) /\ Ascending(Run(a, b)) /\ Range(Run(a, b)) = a..b
<1>1. b - a + 1 \in Nat /\ \A i \in 1..(b - a + 1) : a + i - 1 \in a..b
  OBVIOUS
<1>2. Run(a, b) \in [1..(b - a + 1) -> a..b]
  BY <1>1 DEF Run
<1>3. Run(a, b) \in Seq(Nat)
  <2>1. Run(a, b) \in [1..(b - a + 1) -> Nat]
    BY <1>2
  <2> QED BY <1>1, <2>1
<1>4. Ascending(Run(a, b))
  BY DEF Ascending, Run
<1>5. ASSUME NEW x \in a..b PROVE x \in Range(Run(a, b))
  <2>1. x - a + 1 \in 1..(b - a + 1) /\ a + (x - a + 1) - 1 = x
    OBVIOUS
  <2>2. x - a + 1 \in DOMAIN Run(a, b) /\ Run(a, b)[x - a + 1] = x
    BY <2>1 DEF Run
  <2> QED BY <2>2 DEF Range
<1>6. Range(Run(a, b)) \subseteq a..b
  BY <1>2 DEF Range
<1> QED BY <1>3, <1>4, <1>5, <1>6

\* parse_cpu_list reads a range, or a single number, as the numbers it stands for.
LEMMA ParsedPart ==
  ASSUME NEW a \in Nat, NEW b \in Nat, a <= b
  PROVE  ParsePart(IF b = a THEN <<a>> ELSE <<a, b>>) = Run(a, b)
<1>1. CASE b = a
  <2>1. ParsePart(<<a>>) = <<a>>
    BY DEF ParsePart
  <2>2. Run(a, a) = [i \in 1..1 |-> a + i - 1]
    BY DEF Run
  <2>3. \A i \in 1..1 : a + i - 1 = a
    OBVIOUS
  <2>4. Run(a, a) = [i \in 1..1 |-> a]
    BY <2>2, <2>3
  <2>5. <<a>> = [i \in 1..1 |-> a]
    OBVIOUS
  <2> QED BY <1>1, <2>1, <2>4, <2>5
<1>2. CASE b # a
  <2>1. ParsePart(<<a, b>>) = [i \in 1..(b - a + 1) |-> a + i - 1]
    BY DEF ParsePart
  <2> QED BY <1>2, <2>1 DEF Run
<1> QED BY <1>1, <1>2

\* There are finitely many ranges.
LEMMA StartsFinite ==
  ASSUME NEW S \in SUBSET Nat, IsFiniteSet(S)
  PROVE  Starts(S) \in SUBSET Nat /\ IsFiniteSet(Starts(S)) /\ Cardinality(Starts(S)) \in Nat
<1>1. Starts(S) \in SUBSET S
  BY DEF Starts
<1>2. IsFiniteSet(Starts(S))
  BY <1>1, FS_Subset
<1> QED BY <1>1, <1>2, FS_CardinalityType

\* The parts of the list, parsed: one run of numbers per range.
LEMMA ParsedParts ==
  ASSUME NEW S \in SUBSET Nat, IsFiniteSet(S), S # {}
  PROVE  LET starts == Sorted(Starts(S))
             list == CpuList(S)
         IN [i \in DOMAIN list |-> ParsePart(list[i])]
              = [i \in 1..Cardinality(Starts(S)) |-> Run(starts[i], LastOf(S, starts[i]))]
<1> DEFINE m == Cardinality(Starts(S))
           starts == Sorted(Starts(S))
           list == CpuList(S)
<1>1. starts \in [1..m -> Starts(S)]
  BY StartsFinite, SortedProperties
<1>2. list = [i \in 1..m |-> IF LastOf(S, starts[i]) = starts[i] THEN <<starts[i]>>
                            ELSE <<starts[i], LastOf(S, starts[i])>>]
  BY <1>1 DEF CpuList
<1> HIDE DEF m, starts, list
<1>3. ASSUME NEW i \in 1..m
      PROVE  ParsePart(list[i]) = Run(starts[i], LastOf(S, starts[i]))
  <2>1. starts[i] \in S
    BY <1>1 DEF Starts
  <2>2. starts[i] \in Nat /\ LastOf(S, starts[i]) \in Nat /\ starts[i] <= LastOf(S, starts[i])
    BY <2>1, LastOfRange
  <2>3. list[i] = IF LastOf(S, starts[i]) = starts[i] THEN <<starts[i]>>
                  ELSE <<starts[i], LastOf(S, starts[i])>>
    BY <1>2
  <2> QED BY <2>2, <2>3, ParsedPart
<1>4. DOMAIN list = 1..m
  BY <1>2
<1>5. [i \in DOMAIN list |-> ParsePart(list[i])] = [i \in 1..m |-> Run(starts[i], LastOf(S, starts[i]))]
  BY <1>3, <1>4
<1> QED BY <1>5 DEF m, starts, list

\* The cores up to and with the first k ranges.
UpTo(S, k) == {x \in S : \E j \in 1..k : x \in Sorted(Starts(S))[j]..LastOf(S, Sorted(Starts(S))[j])}

\* parse_cpu_list reads back the list of a node with cores: what it has collected after
\* k parts ascends and is everything in the first k ranges.
LEMMA ReadBack ==
  ASSUME NEW S \in SUBSET Nat, IsFiniteSet(S), S # {}
  PROVE  ParseCpuList(CpuList(S)) = Sorted(S)
<1> DEFINE m == Cardinality(Starts(S))
           starts == Sorted(Starts(S))
           runs == [i \in 1..m |-> Run(starts[i], LastOf(S, starts[i]))]
<1>1. ParseCpuList(CpuList(S)) = FlattenSeq(runs)
  BY ParsedParts DEF ParseCpuList
<1>2. /\ m \in Nat /\ starts \in [1..m -> Starts(S)]
      /\ \A i, j \in 1..m : i < j => starts[i] < starts[j]
      /\ \A a \in Starts(S) : \E i \in 1..m : starts[i] = a
  BY StartsFinite, SortedProperties
<1>3. \A k : UpTo(S, k) = {x \in S : \E j \in 1..k : x \in starts[j]..LastOf(S, starts[j])}
  BY DEF UpTo
<1>4. \A i \in 1..m : runs[i] = Run(starts[i], LastOf(S, starts[i]))
  OBVIOUS
<1>5. DOMAIN runs = 1..m /\ runs = [i \in 1..m |-> runs[i]]
  OBVIOUS
<1> HIDE DEF m, starts, runs
<1>6. ASSUME NEW i \in 1..m
      PROVE  /\ starts[i] \in S /\ starts[i] \in Nat /\ LastOf(S, starts[i]) \in Nat
             /\ starts[i] <= LastOf(S, starts[i]) /\ starts[i]..LastOf(S, starts[i]) \subseteq S
  <2>1. starts[i] \in S
    BY <1>2 DEF Starts
  <2> QED BY <2>1, LastOfRange
<1>7. ASSUME NEW i \in 1..m
      PROVE  /\ runs[i] \in Seq(Nat) /\ Ascending(runs[i])
             /\ Range(runs[i]) = starts[i]..LastOf(S, starts[i])
  <2> DEFINE a == starts[i]
             b == LastOf(S, starts[i])
  <2>1. a \in Nat /\ b \in Nat /\ a <= b
    BY <1>6
  <2>2. runs[i] = Run(a, b)
    BY <1>4
  <2> HIDE DEF a, b
  <2>3. Run(a, b) \in Seq(Nat) /\ Ascending(Run(a, b)) /\ Range(Run(a, b)) = a..b
    BY <2>1, RunProperties
  <2> QED BY <2>2, <2>3 DEF a, b
<1>8. runs \in [1..m -> Seq(Nat)]
  BY <1>5, <1>7
<1> DEFINE F(k) == FirstParts(runs, k)
           P == {k \in 0..m : Ascending(F(k)) /\ Range(F(k)) = UpTo(S, k)}
<1>9. /\ F(0) = <<>>
      /\ \A k \in 0..(m - 1) : F(k + 1) = F(k) \o runs[k + 1]
      /\ F(m) = FlattenSeq(runs) /\ \A k \in 0..m : F(k) \in Seq(Nat)
  BY <1>2, <1>8, FlattenSteps
<1>10. 0 \in P
  <2>1. Ascending(<<>>) /\ Range(<<>>) = {}
    BY DEF Ascending, Range
  <2>2. UpTo(S, 0) = {}
    BY <1>3
  <2>3. Ascending(F(0)) /\ Range(F(0)) = UpTo(S, 0)
    BY <1>9, <2>1, <2>2, Zenon
  <2> QED BY <1>2, <2>3
<1>11. ASSUME NEW k \in 0..(m - 1), k \in P PROVE k + 1 \in P
  <2> HIDE DEF F
  <2>1. k \in 0..m /\ k + 1 \in 1..m /\ k + 1 \in 0..m
    BY <1>2
  <2>2. /\ F(k) \in Seq(Nat) /\ Ascending(F(k)) /\ Range(F(k)) = UpTo(S, k)
        /\ F(k + 1) = F(k) \o runs[k + 1]
    BY <1>9, <1>11, <2>1
  <2>3. /\ runs[k + 1] \in Seq(Nat) /\ Ascending(runs[k + 1])
        /\ Range(runs[k + 1]) = starts[k + 1]..LastOf(S, starts[k + 1])
    BY <1>7, <2>1
  <2>4. ASSUME NEW x \in UpTo(S, k), NEW y \in starts[k + 1]..LastOf(S, starts[k + 1]) PROVE x < y
    <3>1. PICK j \in 1..k : x \in starts[j]..LastOf(S, starts[j])
      BY <1>3
    <3>2. j \in 1..m /\ j < k + 1
      BY <1>2
    <3>3. starts[j] \in Starts(S) /\ starts[k + 1] \in Starts(S) /\ starts[j] < starts[k + 1]
      BY <1>2, <2>1, <3>2
    <3>4. LastOf(S, starts[j]) < starts[k + 1]
      BY <3>3, RangesApart
    <3>5. LastOf(S, starts[j]) \in Nat /\ starts[k + 1] \in Nat /\ starts[j] \in Nat
          /\ LastOf(S, starts[k + 1]) \in Nat
      BY <1>6, <2>1, <3>2
    <3>6. /\ x \in Int /\ x <= LastOf(S, starts[j])
          /\ y \in Int /\ starts[k + 1] <= y
      BY <3>1, <3>5
    <3> QED BY <3>4, <3>5, <3>6
  <2> DEFINE q == F(k)
             r == runs[k + 1]
  <2>5. /\ q \in Seq(Nat) /\ Ascending(q) /\ Range(q) = UpTo(S, k)
        /\ r \in Seq(Nat) /\ Ascending(r) /\ Range(r) = starts[k + 1]..LastOf(S, starts[k + 1])
        /\ F(k + 1) = q \o r
    BY <2>2, <2>3
  <2> HIDE DEF q, r, P
  <2>6. Ascending(q \o r) /\ Range(q \o r) = Range(q) \cup Range(r)
    <3>1. \A x \in Range(q), y \in Range(r) : x < y
      BY <2>4, <2>5
    <3>2. Ascending(q \o r)
      BY <2>5, <3>1, ConcatAscending
    <3>3. Range(q \o r) = Range(q) \cup Range(r)
      <4>1. q \in Seq(Nat) /\ r \in Seq(Nat)
        BY <2>5
      <4> QED BY <4>1, ConcatRange
    <3> QED BY <3>2, <3>3
  <2>7. UpTo(S, k + 1) = UpTo(S, k) \cup starts[k + 1]..LastOf(S, starts[k + 1])
    <3>1. \A j : j \in 1..(k + 1) <=> j \in 1..k \/ j = k + 1
      BY <2>1
    <3>2. starts[k + 1]..LastOf(S, starts[k + 1]) \subseteq S
      BY <1>6, <2>1
    <3> QED BY <1>3, <3>1, <3>2
  <2>8. Ascending(F(k + 1)) /\ Range(F(k + 1)) = UpTo(S, k + 1)
    BY <2>5, <2>6, <2>7, Zenon
  <2> QED BY <2>1, <2>8 DEF P
<1>12. m \in P
  <2> HIDE DEF P
  <2>1. 0..m \subseteq P
    BY <1>2, <1>10, <1>11, Stepwise
  <2>2. m \in 0..m
    BY <1>2
  <2> QED BY <2>1, <2>2
<1>13. UpTo(S, m) = S
  <2> SUFFICES ASSUME NEW x \in S PROVE x \in UpTo(S, m)
    BY <1>3
  <2>1. PICK a \in Starts(S) : x \in a..LastOf(S, a)
    BY RangesCover
  <2>2. PICK j \in 1..m : starts[j] = a
    BY <1>2
  <2> QED BY <1>3, <2>1, <2>2
<1>14. LET q == FlattenSeq(runs) IN q \in Seq(Nat) /\ Ascending(q) /\ Range(q) = S
  <2>1. m \in 0..m
    BY <1>2
  <2>2. F(m) \in Seq(Nat) /\ Ascending(F(m)) /\ Range(F(m)) = S
    BY <1>9, <1>12, <1>13, <2>1
  <2> HIDE DEF F
  <2> QED BY <1>9, <2>2
<1> DEFINE q == FlattenSeq(runs)
<1>15. q = Sorted(S)
  <2>1. q \in Seq(Nat) /\ Ascending(q) /\ Range(q) = S
    BY <1>14
  <2> HIDE DEF q
  <2>2. Len(q) \in Nat /\ DOMAIN q = 1..Len(q) /\ q = [i \in 1..Len(q) |-> q[i]]
    BY <2>1
  <2>3. q \in [1..Len(q) -> S]
    BY <2>1, <2>2 DEF Range
  <2>4. \A i, j \in 1..Len(q) : i < j => q[i] < q[j]
    BY <2>1, <2>2 DEF Ascending
  <2>5. \A x \in S : \E i \in 1..Len(q) : q[i] = x
    BY <2>1, <2>2 DEF Range
  <2> QED BY <2>2, <2>3, <2>4, <2>5, SortedUnique
<1> QED BY <1>1, <1>15

\* ... and the empty line of a node without cores, which has one part that is no number.
LEMMA CpuListReadBack ==
  ASSUME NEW S \in SUBSET Nat, IsFiniteSet(S)
  PROVE  ParseCpuList(CpuList(S)) = Sorted(S)
<1>1. CASE S # {}
  BY <1>1, ReadBack
<1>2. CASE S = {}
  <2> DEFINE s == [i \in 1..1 |-> <<>>]
  <2>1. CpuList(S) = << <<>> >>
    BY <1>2 DEF CpuList
  <2>2. ParsePart(<<>>) = <<>>
    BY DEF ParsePart
  <2>3. [i \in DOMAIN << <<>> >> |-> ParsePart(<< <<>> >>[i])] = s
    BY <2>2
  <2>4. ParseCpuList(CpuList(S)) = FlattenSeq(s)
    BY <2>1, <2>3 DEF ParseCpuList
  <2>5. s \in [1..1 -> Seq(Nat)] /\ s[1] = <<>>
    OBVIOUS
  <2> HIDE DEF s
  <2>6. FirstParts(s, 0) = <<>> /\ FirstParts(s, 0 + 1) = FirstParts(s, 0) \o s[0 + 1]
        /\ FirstParts(s, 1) = FlattenSeq(s)
    <3>1. /\ FirstParts(s, 0) = <<>> /\ FirstParts(s, 1) = FlattenSeq(s)
          /\ \A k \in 0..(1 - 1) : FirstParts(s, k + 1) = FirstParts(s, k) \o s[k + 1]
      BY <2>5, FlattenSteps, 1 \in Nat
    <3>2. 0 \in 0..(1 - 1)
      OBVIOUS
    <3> QED BY <3>1, <3>2
  <2>7. <<>> \o <<>> = <<>>
    OBVIOUS
  <2>8. FlattenSeq(s) = <<>>
    BY <2>5, <2>6, <2>7
  <2>9. Sorted(S) = <<>>
    <3>1. Cardinality({}) = 0
      BY FS_EmptySet
    <3>2. Sorted({}) = [i \in 1..0 |-> CHOOSE x \in {} : Cardinality({y \in {} : y <= x}) = i]
      BY <3>1 DEF Sorted
    <3>3. DOMAIN Sorted({}) = {} /\ Sorted({}) = [i \in {} |-> Sorted({})[i]]
      BY <3>2
    <3>4. <<>> = [i \in {} |-> Sorted({})[i]]
      OBVIOUS
    <3> QED BY <1>2, <3>3, <3>4
  <2> QED BY <2>4, <2>8, <2>9
<1> QED BY <1>1, <1>2

-----------------------------------------------------------------------------
(* The machine.                                                             *)

\* The wrap-around of the distribution leaves small numbers alone.
LEMMA Remainder ==
  ASSUME NEW w \in Nat, NEW n \in Nat \ {0}
  PROVE  w % n \in 0..(n - 1) /\ (w < n => w % n = w)
<1>1. w % n \in 0..(n - 1)
  OBVIOUS
<1>2. w < n => w % n = w
  OBVIOUS
<1> QED BY <1>1, <1>2

\* What the assumption says of one machine, with its directory as a function.
LEMMA MachineFacts ==
  ASSUME NEW m \in Machines
  PROVE  /\ m.nodes \in [1..Len(m.nodes) -> SUBSET Nat] /\ Len(m.nodes) \in Nat
         /\ \A i \in 1..Len(m.nodes) : m.nodes[i] \in SUBSET Nat /\ IsFiniteSet(m.nodes[i])
         /\ \A i, j \in 1..Len(m.nodes) : i # j => m.nodes[i] \cap m.nodes[j] = {}
         /\ m.listed \in SUBSET Nat /\ IsFiniteSet(m.listed) /\ m.listed \subseteq 1..Len(m.nodes)
         /\ m.quota \in Nat \ {0}
<1>1. m.nodes \in Seq(SUBSET Nat)
  BY PlacementAssumption
<1>2. /\ m.nodes \in [1..Len(m.nodes) -> SUBSET Nat] /\ Len(m.nodes) \in Nat
      /\ DOMAIN m.nodes = 1..Len(m.nodes)
  BY <1>1
<1>3. m.listed \subseteq 1..Len(m.nodes)
  BY <1>2, PlacementAssumption
<1>4. IsFiniteSet(m.listed)
  <2>1. IsFiniteSet(1..Len(m.nodes))
    BY <1>2, FS_Interval
  <2> QED BY <1>3, <2>1, FS_Subset
<1>5. \A i \in 1..Len(m.nodes) : m.nodes[i] \in SUBSET Nat /\ IsFiniteSet(m.nodes[i])
  BY <1>2, PlacementAssumption
<1>6. \A i, j \in 1..Len(m.nodes) : i # j => m.nodes[i] \cap m.nodes[j] = {}
  BY <1>2, PlacementAssumption
<1>7. m.quota \in Nat \ {0}
  BY PlacementAssumption
<1> QED BY <1>2, <1>3, <1>4, <1>5, <1>6, <1>7

\* Cores are finitely many numbers; a process may use some of them, and num_cpus counts
\* at least one and no more than these.
LEMMA CoreFacts ==
  ASSUME machine \in Machines
  PROVE  /\ Cores \in SUBSET Nat /\ IsFiniteSet(Cores) /\ Cardinality(Cores) \in Nat
         /\ machine.allowed \in SUBSET Nat /\ IsFiniteSet(machine.allowed)
         /\ machine.allowed # {} /\ machine.allowed \subseteq Cores
         /\ Cardinality(machine.allowed) \in 1..Cardinality(Cores)
         /\ LogicalCores \in 1..Cardinality(machine.allowed)
<1> DEFINE nodes == machine.nodes
           n == Len(nodes)
           A == machine.allowed
<1>1. nodes \in [1..n -> SUBSET Nat] /\ n \in Nat /\ \A i \in 1..n : IsFiniteSet(nodes[i])
  BY MachineFacts
<1>2. A # {} /\ A \subseteq Cores
  BY PlacementAssumption DEF Cores
<1>3. machine.quota \in Nat \ {0}
  BY MachineFacts
<1>4. Cores = UNION Range(nodes)
  BY DEF Cores
<1>5. LogicalCores = IF machine.quota < Cardinality(A) THEN machine.quota ELSE Cardinality(A)
  BY DEF LogicalCores
<1> HIDE DEF nodes, n, A
<1>6. Range(nodes) = {nodes[i] : i \in 1..n}
  BY <1>1 DEF Range
<1>7. Cores \in SUBSET Nat
  BY <1>1, <1>4, <1>6
<1>8. IsFiniteSet(Cores)
  <2>1. nodes \in Surjection(1..n, Range(nodes))
    BY <1>1, <1>6 DEF Surjection
  <2>2. IsFiniteSet(1..n)
    BY <1>1, FS_Interval
  <2>3. IsFiniteSet(Range(nodes))
    BY <2>1, <2>2, FS_Surjection
  <2>4. \A T \in Range(nodes) : IsFiniteSet(T)
    BY <1>1, <1>6
  <2> QED BY <1>4, <2>3, <2>4, FS_UNION
<1>9. /\ IsFiniteSet(A) /\ Cardinality(A) <= Cardinality(Cores)
      /\ Cardinality(A) \in Nat /\ Cardinality(Cores) \in Nat /\ Cardinality(A) # 0
  <2>1. IsFiniteSet(A) /\ Cardinality(A) <= Cardinality(Cores)
    BY <1>2, <1>8, FS_Subset
  <2> QED BY <1>2, <1>8, <2>1, FS_CardinalityType, FS_EmptySet
<1>10. A \in SUBSET Nat
  BY <1>2, <1>7
<1>11. Cardinality(A) \in 1..Cardinality(Cores)
  BY <1>9
<1>12. LogicalCores \in 1..Cardinality(A)
  BY <1>3, <1>5, <1>9
<1> QED BY <1>2, <1>7, <1>8, <1>9, <1>10, <1>11, <1>12 DEF A

\* Detection lists the cores of every listed node in ascending order.
LEMMA DetectedNodes ==
  ASSUME machine \in Machines
  PROVE  LET order == Sorted(machine.listed)
         IN DetectNumaLinux = [i \in DOMAIN order |-> Sorted(machine.nodes[order[i]])]
<1> DEFINE order == Sorted(machine.listed)
<1>1. DetectNumaLinux = [i \in DOMAIN order |-> ParseCpuList(CpuList(machine.nodes[order[i]]))]
  BY DEF DetectNumaLinux
<1>2. ASSUME NEW i \in DOMAIN order
      PROVE  ParseCpuList(CpuList(machine.nodes[order[i]])) = Sorted(machine.nodes[order[i]])
  <2>1. order \in [1..Cardinality(machine.listed) -> machine.listed]
    BY MachineFacts, SortedProperties
  <2> HIDE DEF order
  <2>2. order[i] \in 1..Len(machine.nodes)
    BY <2>1, MachineFacts
  <2> QED BY <2>2, MachineFacts, CpuListReadBack
<1> HIDE DEF order
<1>3. DetectNumaLinux = [i \in DOMAIN order |-> Sorted(machine.nodes[order[i]])]
  BY <1>1, <1>2
<1> QED BY <1>3 DEF order

-----------------------------------------------------------------------------
(* get_core_for_worker searches the nodes.                                 *)

\* Appending leaves the positions before it alone.
LEMMA ConcatPrefix ==
  ASSUME NEW T, NEW q \in Seq(T), NEW r \in Seq(T)
  PROVE  /\ Len(q) \in Nat /\ Len(q \o r) \in Nat /\ Len(q) <= Len(q \o r)
         /\ \A i \in 1..Len(q) : (q \o r)[i] = q[i]
<1>1. /\ Len(q \o r) = Len(q) + Len(r)
      /\ \A i \in 1..(Len(q) + Len(r)) : (q \o r)[i] = IF i <= Len(q) THEN q[i] ELSE r[i - Len(q)]
  BY ConcatProperties
<1>2. Len(q) \in Nat /\ Len(r) \in Nat
  BY LenProperties
<1>3. \A i \in 1..Len(q) : i \in 1..(Len(q) + Len(r)) /\ i <= Len(q)
  BY <1>2
<1> QED BY <1>1, <1>2, <1>3

\* So the nodes after the k-th do not move the cores of the first k.
LEMMA PrefixesAgree ==
  ASSUME NEW T, NEW n \in Nat, NEW s \in [1..n -> Seq(T)], NEW k \in 0..n
  PROVE  /\ Len(FirstParts(s, k)) <= Len(FirstParts(s, n))
         /\ \A i \in 1..Len(FirstParts(s, k)) : FirstParts(s, k)[i] = FirstParts(s, n)[i]
<1> DEFINE F(j) == FirstParts(s, j)
           Agree(j) == Len(F(k)) <= Len(F(j)) /\ \A i \in 1..Len(F(k)) : F(k)[i] = F(j)[i]
           P == {j \in 0..(n - k) : Agree(k + j)}
<1>1. \A j \in 0..(n - 1) : F(j + 1) = F(j) \o s[j + 1]
  BY FlattenSteps
<1>2. \A j \in 0..n : F(j) \in Seq(T) /\ Len(F(j)) \in Nat
  <2>1. \A j \in 0..n : F(j) \in Seq(T)
    BY FlattenSteps
  <2> HIDE DEF F
  <2> QED BY <2>1, LenProperties
<1> HIDE DEF F
<1>3. 0 \in P
  <2>1. Agree(k)
    BY <1>2
  <2>2. k + 0 = k /\ 0 \in 0..(n - k)
    OBVIOUS
  <2> HIDE DEF Agree
  <2>3. Agree(k + 0)
    BY <2>1, <2>2
  <2> QED BY <2>2, <2>3
<1>4. ASSUME NEW j \in 0..(n - k - 1), j \in P PROVE j + 1 \in P
  <2>1. k + j \in 0..(n - 1) /\ k + j \in 0..n /\ k + j + 1 \in 1..n /\ j + 1 \in 0..(n - k)
        /\ k + (j + 1) = k + j + 1
    OBVIOUS
  <2>2. Agree(k + j)
    BY <1>4
  <2>3. F(k + j + 1) = F(k + j) \o s[k + j + 1] /\ F(k + j) \in Seq(T) /\ s[k + j + 1] \in Seq(T)
    BY <1>1, <1>2, <2>1
  <2> DEFINE q == F(k + j)
             r == s[k + j + 1]
             t == F(k + j + 1)
  <2>4. q \in Seq(T) /\ r \in Seq(T) /\ t = q \o r /\ Len(F(k)) \in Nat
    BY <1>2, <2>3
  <2>5. Len(F(k)) <= Len(q) /\ \A i \in 1..Len(F(k)) : F(k)[i] = q[i]
    BY <2>2
  <2> HIDE DEF q, r, t, P, Agree
  <2>6. Len(q) \in Nat /\ Len(t) \in Nat /\ Len(q) <= Len(t) /\ \A i \in 1..Len(q) : t[i] = q[i]
    BY <2>4, ConcatPrefix
  <2>7. Len(F(k)) <= Len(t) /\ \A i \in 1..Len(F(k)) : F(k)[i] = t[i]
    BY <2>4, <2>5, <2>6
  <2>8. Agree(k + (j + 1))
    BY <2>1, <2>7 DEF Agree, t
  <2> QED BY <2>1, <2>8 DEF P
<1>5. n - k \in P
  <2> DEFINE m == n - k
  <2>1. m \in Nat /\ m \in 0..m
    OBVIOUS
  <2>2. \A j \in 0..(m - 1) : j \in P => j + 1 \in P
    <3> HIDE DEF P
    <3> QED BY <1>4
  <2> HIDE DEF P, m
  <2>3. 0..m \subseteq P
    BY <1>3, <2>1, <2>2, Stepwise
  <2> QED BY <2>1, <2>3 DEF m
<1>6. Agree(n)
  <2>1. Agree(k + (n - k)) /\ k + (n - k) = n
    <3> HIDE DEF Agree
    <3> QED BY <1>5
  <2> HIDE DEF Agree
  <2> QED BY <2>1
<1> QED BY <1>6 DEF F

\* The node the search stops at, and the position in it that is left over, lead to the
\* worker's position in the concatenation of all nodes: the % in the node does nothing.
LEMMA Located ==
  ASSUME NEW n \in Nat, NEW s \in [1..n -> Seq(Nat)], NEW w \in Nat, NEW k \in 1..n,
         w < Len(FirstParts(s, k)), \A j \in 1..(k - 1) : w >= Len(FirstParts(s, j))
  PROVE  s[k][((w - Len(FirstParts(s, k - 1))) % Len(s[k])) + 1] = FlattenSeq(s)[w + 1]
<1> DEFINE F(j) == FirstParts(s, j)
           b == Len(F(k - 1))
<1>1. k - 1 \in 0..(n - 1) /\ (k - 1) + 1 = k /\ k - 1 \in 0..n /\ k \in 0..n
  OBVIOUS
<1>2. F(0) = <<>> /\ F(n) = FlattenSeq(s)
  BY FlattenSteps
<1>3. F(k) = F(k - 1) \o s[k]
  <2>1. \A j \in 0..(n - 1) : F(j + 1) = F(j) \o s[j + 1]
    BY FlattenSteps
  <2> QED BY <1>1, <2>1
<1>4. F(k - 1) \in Seq(Nat) /\ F(k) \in Seq(Nat) /\ s[k] \in Seq(Nat)
  <2>1. \A j \in 0..n : F(j) \in Seq(Nat)
    BY FlattenSteps
  <2> QED BY <1>1, <2>1
<1>5. w < Len(F(k)) /\ \A j \in 1..(k - 1) : w >= Len(F(j))
  OBVIOUS
<1>6. \A i \in 1..Len(F(k)) : F(k)[i] = F(n)[i]
  BY <1>1, PrefixesAgree
<1> HIDE DEF F
<1>7. /\ b \in Nat /\ Len(s[k]) \in Nat /\ Len(F(k)) = b + Len(s[k])
      /\ \A i \in 1..(b + Len(s[k])) : F(k)[i] = IF i <= b THEN F(k - 1)[i] ELSE s[k][i - b]
  BY <1>3, <1>4, ConcatProperties, LenProperties
<1>8. b <= w
  <2>1. CASE k = 1
    <3>1. b = 0
      BY <1>2, <2>1
    <3> QED BY <3>1
  <2>2. CASE k # 1
    <3>1. k - 1 \in 1..(k - 1)
      BY <2>2
    <3>2. w >= b
      BY <1>5, <3>1
    <3> QED BY <1>7, <3>2
  <2> QED BY <2>1, <2>2
<1> HIDE DEF b
<1>9. w - b \in Nat /\ w - b < Len(s[k]) /\ Len(s[k]) \in Nat \ {0}
  BY <1>5, <1>7, <1>8
<1>10. (w - b) % Len(s[k]) = w - b
  BY <1>9, Remainder
<1>11. w + 1 \in 1..(b + Len(s[k])) /\ ~(w + 1 <= b) /\ (w + 1) - b = (w - b) + 1
  BY <1>7, <1>8, <1>9
<1>12. F(k)[w + 1] = s[k][(w - b) + 1]
  BY <1>7, <1>11
<1>13. F(k)[w + 1] = F(n)[w + 1]
  BY <1>6, <1>7, <1>11
<1>14. s[k][((w - b) % Len(s[k])) + 1] = FlattenSeq(s)[w + 1]
  BY <1>2, <1>10, <1>12, <1>13
<1> QED BY <1>14 DEF b, F

\* The search stops at some node for every worker below the total.
LEMMA LocatedSomewhere ==
  ASSUME NEW n \in Nat, NEW s \in [1..n -> Seq(Nat)], NEW w \in Nat,
         w < Len(FlattenSeq(s))
  PROVE  \E k \in 1..n : w < Len(FirstParts(s, k)) /\ \A j \in 1..(k - 1) : w >= Len(FirstParts(s, j))
<1> DEFINE L(j) == Len(FirstParts(s, j))
           Z == {k \in 1..n : w < L(k)}
<1>1. L(n) = Len(FlattenSeq(s)) /\ L(0) = 0 /\ \A j \in 0..n : L(j) \in Nat
  <2>1. FirstParts(s, 0) = <<>> /\ FirstParts(s, n) = FlattenSeq(s)
    BY FlattenSteps
  <2>2. \A j \in 0..n : FirstParts(s, j) \in Seq(Nat)
    BY FlattenSteps
  <2> QED BY <2>1, <2>2, LenProperties
<1> HIDE DEF L
<1>2. n \in Z
  <2>1. w < L(n)
    BY <1>1
  <2>2. n # 0
    BY <1>1, <2>1
  <2> QED BY <2>1, <2>2
<1>3. PICK k \in Z : \A j \in Z : k <= j
  <2>1. Z \in SUBSET Nat
    OBVIOUS
  <2> HIDE DEF Z
  <2>2. Z # {}
    BY <1>2
  <2> QED BY <2>1, <2>2, LeastNatural
<1>4. ASSUME NEW j \in 1..(k - 1) PROVE w >= L(j)
  <2>1. j \in 1..n /\ ~(k <= j) /\ j \in 0..n
    OBVIOUS
  <2>2. ~(w < L(j))
    BY <1>3, <2>1
  <2> QED BY <1>1, <2>1, <2>2
<1>5. k \in 1..n /\ w < L(k)
  OBVIOUS
<1> QED BY <1>4, <1>5 DEF L

\* get_core_for_worker takes the worker's position in the concatenation of all nodes,
\* and wraps on the logical cores past its end or without nodes.
LEMMA CoreForWorker ==
  ASSUME NEW n \in Nat, cpuInfo.nodes \in [1..n -> Seq(Nat)], NEW w \in Nat
  PROVE  GetCoreForWorker(w) =
           IF ~cpuInfo.numa \/ w >= Len(FlattenSeq(cpuInfo.nodes)) THEN w % cpuInfo.logical
           ELSE FlattenSeq(cpuInfo.nodes)[w + 1]
<1> DEFINE s == cpuInfo.nodes
<1>1. Len(s) = n /\ DOMAIN s = 1..n
  OBVIOUS
<1>2. \A k : TotalCores(k) = Len(FirstParts(s, k))
  BY DEF TotalCores, FirstParts
<1>3. TotalCores(Len(s)) = Len(FlattenSeq(s)) /\ Len(FlattenSeq(s)) \in Nat
  <2>1. FirstParts(s, n) = FlattenSeq(s) /\ FirstParts(s, n) \in Seq(Nat)
    <3>1. n \in 0..n
      OBVIOUS
    <3>2. FirstParts(s, n) = FlattenSeq(s) /\ \A k \in 0..n : FirstParts(s, k) \in Seq(Nat)
      BY FlattenSteps
    <3> QED BY <3>1, <3>2
  <2>2. Len(FlattenSeq(s)) \in Nat
    BY <2>1, LenProperties
  <2> QED BY <1>1, <1>2, <2>1, <2>2
<1>4. CASE ~cpuInfo.numa \/ w >= Len(FlattenSeq(s))
  BY <1>3, <1>4 DEF GetCoreForWorker
<1>5. CASE cpuInfo.numa /\ ~(w >= Len(FlattenSeq(s)))
  <2> DEFINE Here(k) == w < TotalCores(k) /\ \A j \in 1..(k - 1) : w >= TotalCores(j)
             k == CHOOSE i \in DOMAIN s : Here(i)
  <2>1. w < Len(FlattenSeq(s))
    BY <1>3, <1>5
  <2>2. \E i \in DOMAIN s : Here(i)
    BY <1>1, <1>2, <2>1, LocatedSomewhere
  <2>3. k \in DOMAIN s /\ Here(k)
    BY <2>2
  <2>4. GetCoreForWorker(w) = s[k][((w - TotalCores(k - 1)) % Len(s[k])) + 1]
    BY <1>3, <1>5 DEF GetCoreForWorker
  <2> HIDE DEF k
  <2>5. s[k][((w - Len(FirstParts(s, k - 1))) % Len(s[k])) + 1] = FlattenSeq(s)[w + 1]
    <3>1. s \in [1..n -> Seq(Nat)] /\ k \in 1..n
      BY <1>1, <2>3
    <3>2. w < Len(FirstParts(s, k)) /\ \A j \in 1..(k - 1) : w >= Len(FirstParts(s, j))
      BY <1>2, <2>3
    <3> HIDE DEF s, Here
    <3> QED BY <3>1, <3>2, Located
  <2>6. TotalCores(k - 1) = Len(FirstParts(s, k - 1))
    BY <1>2
  <2> HIDE DEF s, Here
  <2>7. GetCoreForWorker(w) = FlattenSeq(s)[w + 1]
    BY <2>4, <2>5, <2>6
  <2> QED BY <1>5, <2>7 DEF s
<1> QED BY <1>4, <1>5

-----------------------------------------------------------------------------
(* No core twice.                                                           *)

\* Two lists without repetitions and without common elements have none together.
LEMMA ConcatInjective ==
  ASSUME NEW T, NEW q \in Seq(T), NEW r \in Seq(T), IsInjective(q), IsInjective(r),
         Range(q) \cap Range(r) = {}
  PROVE  IsInjective(q \o r)
<1>1. /\ Len(q \o r) = Len(q) + Len(r) /\ q \o r \in Seq(T)
      /\ \A i \in 1..(Len(q) + Len(r)) : (q \o r)[i] = IF i <= Len(q) THEN q[i] ELSE r[i - Len(q)]
  BY ConcatProperties
<1>2. /\ Len(q) \in Nat /\ Len(r) \in Nat /\ DOMAIN q = 1..Len(q) /\ DOMAIN r = 1..Len(r)
      /\ DOMAIN (q \o r) = 1..(Len(q) + Len(r))
  BY <1>1, LenProperties
<1> DEFINE In(i) == i \in DOMAIN q /\ (q \o r)[i] = q[i] /\ q[i] \in Range(q)
           Out(i) == /\ i - Len(q) \in DOMAIN r /\ (q \o r)[i] = r[i - Len(q)]
                     /\ r[i - Len(q)] \in Range(r)
<1>3. ASSUME NEW i \in DOMAIN (q \o r) PROVE In(i) \/ Out(i)
  <2>1. CASE i <= Len(q)
    <3>1. i \in DOMAIN q /\ (q \o r)[i] = q[i]
      BY <1>1, <1>2, <2>1
    <3> QED BY <3>1 DEF Range
  <2>2. CASE ~(i <= Len(q))
    <3>1. i - Len(q) \in DOMAIN r /\ (q \o r)[i] = r[i - Len(q)]
      BY <1>1, <1>2, <2>2
    <3> QED BY <3>1 DEF Range
  <2> QED BY <2>1, <2>2
<1>4. ASSUME NEW i \in DOMAIN (q \o r), NEW j \in DOMAIN (q \o r), (q \o r)[i] = (q \o r)[j]
      PROVE  i = j
  <2>1. CASE In(i) /\ In(j)
    BY <1>4, <2>1 DEF IsInjective
  <2>2. CASE Out(i) /\ Out(j)
    <3>1. i - Len(q) = j - Len(q)
      BY <1>4, <2>2 DEF IsInjective
    <3> QED BY <1>2, <3>1
  <2>3. ~(In(i) /\ Out(j)) /\ ~(Out(i) /\ In(j))
    BY <1>4
  <2> HIDE DEF In, Out
  <2> QED BY <1>3, <2>1, <2>2, <2>3
<1> QED BY <1>4 DEF IsInjective

\* So have any number of lists; together they hold what each of them holds.
LEMMA FlattenDistinct ==
  ASSUME NEW T, NEW n \in Nat, NEW s \in [1..n -> Seq(T)],
         \A i \in 1..n : IsInjective(s[i]),
         \A i, j \in 1..n : i # j => Range(s[i]) \cap Range(s[j]) = {}
  PROVE  /\ FlattenSeq(s) \in Seq(T) /\ IsInjective(FlattenSeq(s))
         /\ Range(FlattenSeq(s)) = UNION {Range(s[i]) : i \in 1..n}
<1> DEFINE F(k) == FirstParts(s, k)
           R(k) == UNION {Range(s[i]) : i \in 1..k}
           P == {k \in 0..n : IsInjective(F(k)) /\ Range(F(k)) = R(k)}
<1>1. /\ F(0) = <<>> /\ F(n) = FlattenSeq(s)
      /\ \A k \in 0..(n - 1) : F(k + 1) = F(k) \o s[k + 1]
      /\ \A k \in 0..n : F(k) \in Seq(T)
  BY FlattenSteps
<1> HIDE DEF F
<1>2. 0 \in P
  <2>1. IsInjective(<<>>) /\ Range(<<>>) = {}
    BY DEF IsInjective, Range
  <2>2. R(0) = {}
    OBVIOUS
  <2> HIDE DEF R
  <2>3. IsInjective(F(0)) /\ Range(F(0)) = R(0)
    BY <1>1, <2>1, <2>2, Zenon
  <2> QED BY <2>3
<1>3. ASSUME NEW k \in 0..(n - 1), k \in P PROVE k + 1 \in P
  <2> DEFINE q == F(k)
             r == s[k + 1]
  <2>1. k \in 0..n /\ k + 1 \in 0..n /\ k + 1 \in 1..n
    OBVIOUS
  <2>2. q \in Seq(T) /\ r \in Seq(T) /\ F(k + 1) = q \o r /\ IsInjective(r)
    BY <1>1, <2>1
  <2>3. IsInjective(q) /\ Range(q) = R(k)
    BY <1>3
  <2>4. R(k) \cap Range(r) = {}
    <3>1. \A i \in 1..k : i \in 1..n /\ i # k + 1
      OBVIOUS
    <3>2. \A i \in 1..k : Range(s[i]) \cap Range(r) = {}
      BY <2>1, <3>1
    <3> QED BY <3>2
  <2>5. R(k + 1) = R(k) \cup Range(r)
    <3>1. 1..(k + 1) = 1..k \cup {k + 1}
      OBVIOUS
    <3> QED BY <3>1
  <2> HIDE DEF q, r, R, P
  <2>6. IsInjective(q \o r)
    <3>1. Range(q) \cap Range(r) = {}
      BY <2>3, <2>4
    <3> QED BY <2>2, <2>3, <3>1, ConcatInjective
  <2>7. Range(q \o r) = Range(q) \cup Range(r)
    BY <2>2, ConcatRange
  <2>8. IsInjective(F(k + 1)) /\ Range(F(k + 1)) = R(k + 1)
    BY <2>2, <2>3, <2>5, <2>6, <2>7, Zenon
  <2> QED BY <2>1, <2>8 DEF P
<1>4. n \in P
  <2> HIDE DEF P
  <2>1. 0..n \subseteq P
    BY <1>2, <1>3, Stepwise
  <2> QED BY <2>1
<1>5. n \in 0..n
  OBVIOUS
<1>6. IsInjective(F(n)) /\ Range(F(n)) = R(n)
  BY <1>4
<1> HIDE DEF R
<1>7. FlattenSeq(s) \in Seq(T) /\ IsInjective(FlattenSeq(s)) /\ Range(FlattenSeq(s)) = R(n)
  BY <1>1, <1>5, <1>6, Zenon
<1> QED BY <1>7 DEF R

\* Sorted(S) as a sequence.
LEMMA SortedList ==
  ASSUME NEW S \in SUBSET Nat, IsFiniteSet(S)
  PROVE  Sorted(S) \in Seq(Nat) /\ IsInjective(Sorted(S)) /\ Range(Sorted(S)) = S
         /\ Len(Sorted(S)) = Cardinality(S)
<1> DEFINE q == Sorted(S)
           n == Cardinality(S)
<1>1. /\ q \in [1..n -> S] /\ n \in Nat
      /\ \A i, j \in 1..n : i < j => q[i] < q[j]
      /\ \A x \in S : \E i \in 1..n : q[i] = x
  BY SortedProperties, FS_CardinalityType
<1> HIDE DEF q, n
<1>2. q \in [1..n -> Nat] /\ q \in Seq(Nat) /\ Len(q) = n /\ DOMAIN q = 1..n
  <2>1. q \in [1..n -> Nat] /\ DOMAIN q = 1..n
    BY <1>1
  <2>2. q \in Seq(Nat)
    BY <1>1, <2>1
  <2>3. Len(q) = n
    BY <1>1, <2>1, <2>2
  <2> QED BY <2>1, <2>2, <2>3
<1>3. ASSUME NEW i \in 1..n, NEW j \in 1..n, q[i] = q[j] PROVE i = j
  <2>1. q[i] \in Nat /\ q[j] \in Nat
    BY <1>2
  <2> QED BY <1>1, <1>3, <2>1
<1>4. IsInjective(q)
  BY <1>2, <1>3 DEF IsInjective
<1>5. Range(q) = S
  BY <1>1, <1>2 DEF Range
<1> QED BY <1>2, <1>4, <1>5 DEF q, n

\* In the list of the cores 0 to n - 1 a core's number is its index.
LEMMA SortedFirst ==
  ASSUME NEW n \in Nat
  PROVE  \A i \in 0..(n - 1) : Sorted(0..(n - 1))[i + 1] = i
<1> DEFINE S == 0..(n - 1)
           q == [i \in 1..n |-> i - 1]
<1>1. S \in SUBSET Nat /\ IsFiniteSet(S)
  BY FS_Interval
<1>2. q \in [1..n -> S]
  OBVIOUS
<1>3. \A i, j \in 1..n : i < j => q[i] < q[j]
  OBVIOUS
<1>4. ASSUME NEW x \in S PROVE \E i \in 1..n : q[i] = x
  <2>1. x + 1 \in 1..n /\ q[x + 1] = x
    OBVIOUS
  <2> QED BY <2>1
<1>5. ASSUME NEW i \in S PROVE q[i + 1] = i
  OBVIOUS
<1> HIDE DEF S, q
<1>6. q = Sorted(S)
  BY <1>1, <1>2, <1>3, <1>4, SortedUnique
<1> QED BY <1>5, <1>6 DEF S

-----------------------------------------------------------------------------
(* The inductive invariant.                                                 *)

\* What detect finds on the machine.
Info ==
  [kind |-> "CpuInfo", logical |-> LogicalCores, numa |-> machine.sysfs /\ machine.listed # {},
   nodes |-> IF machine.sysfs /\ machine.listed # {} THEN DetectNumaLinux ELSE Fallback]

\* Modes, and threads.
Modes   == [kind : Kinds, count : Nat \ {0}]
Threads == [idx : Nat, core : Int, reported : Results, result : Results, other : Int, on : SUBSET Nat]

\* Detection comes first, then the builder, then threads.
Settled ==
  /\ machine \in Machines /\ workerIdx \in 0..MaxIdx
  /\ cpuInfo \in {NotYet, Info}
  /\ mode = NotYet \/ (mode \in Modes /\ cpuInfo = Info)
  /\ workers \in Seq(Threads) /\ (mode = NotYet => workers = <<>>)

\* A thread runs anywhere until it starts, and then has one of the outcomes of its core.
Tried(w) ==
  IF w.result = "Starting" THEN w.on = machine.allowed
  ELSE [result |-> w.result, other |-> w.other, on |-> w.on] \in
         IF w.core = NoCore THEN {Outcome("Unsupported", NoCore, machine.allowed)}
         ELSE PinThreadToCore(w.core)

\* A thread has a number that was given, the core of that number and the report of build.
Well(w) ==
  /\ w.idx \in 0..workerIdx /\ w.core = CoreOf(w.idx)
  /\ w.reported = IF w.core = NoCore THEN "Unsupported" ELSE "Success"
  /\ Tried(w)

Built == \A i \in DOMAIN workers : Well(workers[i])

\* No number is given twice, and the next one is free.
Numbered ==
  mode # NotYet /\ mode.kind # "TestStub" =>
    /\ \A i \in DOMAIN workers : workers[i].idx < workerIdx
    /\ \A i, j \in DOMAIN workers : i < j => workers[i].idx < workers[j].idx

IInv == Settled /\ Built /\ Numbered

-----------------------------------------------------------------------------
(* What detection gives the builder.                                       *)

\* The lists of the listed nodes: without repetitions, without common cores, one for
\* each node.
LEMMA ListedNodes ==
  ASSUME machine \in Machines
  PROVE  LET n == Cardinality(machine.listed)
             order == Sorted(machine.listed)
         IN /\ n \in Nat /\ DetectNumaLinux \in [1..n -> Seq(Nat)]
            /\ \A i \in 1..n :
                 /\ order[i] \in 1..Len(machine.nodes)
                 /\ IsInjective(DetectNumaLinux[i])
                 /\ Range(DetectNumaLinux[i]) = machine.nodes[order[i]]
            /\ \A i, j \in 1..n : i # j =>
                 Range(DetectNumaLinux[i]) \cap Range(DetectNumaLinux[j]) = {}
            /\ \A k \in machine.listed : \E i \in 1..n : order[i] = k
<1> DEFINE n == Cardinality(machine.listed)
           order == Sorted(machine.listed)
           D == DetectNumaLinux
<1>1. /\ n \in Nat /\ order \in [1..n -> machine.listed]
      /\ \A i, j \in 1..n : i < j => order[i] < order[j]
      /\ \A k \in machine.listed : \E i \in 1..n : order[i] = k
  BY MachineFacts, SortedProperties, FS_CardinalityType
<1>2. D = [i \in DOMAIN order |-> Sorted(machine.nodes[order[i]])]
  BY DetectedNodes
<1> HIDE DEF n, order, D
<1>3. D = [i \in 1..n |-> Sorted(machine.nodes[order[i]])]
  BY <1>1, <1>2
<1>4. ASSUME NEW i \in 1..n
      PROVE  /\ order[i] \in 1..Len(machine.nodes) /\ order[i] \in Nat
             /\ D[i] \in Seq(Nat) /\ IsInjective(D[i]) /\ Range(D[i]) = machine.nodes[order[i]]
  <2>1. order[i] \in 1..Len(machine.nodes) /\ order[i] \in Nat
    BY <1>1, MachineFacts
  <2>2. machine.nodes[order[i]] \in SUBSET Nat /\ IsFiniteSet(machine.nodes[order[i]])
    BY <2>1, MachineFacts
  <2>3. D[i] = Sorted(machine.nodes[order[i]])
    BY <1>3
  <2> QED BY <2>1, <2>2, <2>3, SortedList
<1>5. D \in [1..n -> Seq(Nat)]
  BY <1>3, <1>4
<1>6. ASSUME NEW i \in 1..n, NEW j \in 1..n, i # j PROVE Range(D[i]) \cap Range(D[j]) = {}
  <2>1. order[i] \in Nat /\ order[j] \in Nat /\ (i < j \/ j < i)
    BY <1>1, <1>4, <1>6
  <2>2. order[i] # order[j]
    BY <1>1, <2>1
  <2>3. machine.nodes[order[i]] \cap machine.nodes[order[j]] = {}
    BY <1>4, <2>2, MachineFacts
  <2> QED BY <1>4, <2>3
<1> QED BY <1>1, <1>4, <1>5, <1>6 DEF n, order, D

\* What every detected machine looks like.
LEMMA InfoNodes ==
  ASSUME machine \in Machines
  PROVE  /\ \E n \in Nat : Info.nodes \in [1..n -> Seq(Nat)]
         /\ Info.logical = LogicalCores
         /\ Info.numa = (machine.sysfs /\ machine.listed # {})
         /\ Info # NotYet
         /\ Info.numa => Info.nodes = DetectNumaLinux
<1>1. Info.logical = LogicalCores /\ Info.numa = (machine.sysfs /\ machine.listed # {})
      /\ Info # NotYet
  BY DEF Info, NotYet
<1>2. Info.nodes = IF machine.sysfs /\ machine.listed # {} THEN DetectNumaLinux ELSE Fallback
  BY DEF Info
<1>3. \E n \in Nat : DetectNumaLinux \in [1..n -> Seq(Nat)]
  BY ListedNodes
<1>4. Fallback \in [1..1 -> Seq(Nat)]
  <2> DEFINE q == [i \in 1..LogicalCores |-> i - 1]
  <2>1. LogicalCores \in Nat
    BY CoreFacts
  <2>2. q \in Seq(Nat)
    BY <2>1
  <2>3. Fallback = <<q>>
    BY DEF Fallback
  <2> HIDE DEF q
  <2> QED BY <2>2, <2>3
<1>5. \E n \in Nat : Info.nodes \in [1..n -> Seq(Nat)]
  BY <1>2, <1>3, <1>4
<1> QED BY <1>1, <1>2, <1>5

\* When the process has the whole machine, the nodes in any order hold every core once.
LEMMA WholeMachine ==
  ASSUME machine \in Machines, Whole
  PROVE  /\ Cores = 0..(Cardinality(Cores) - 1) /\ Cardinality(Cores) \in Nat
         /\ LogicalCores \in 1..Cardinality(Cores)
         /\ Info.numa =>
              LET f == FlattenSeq(Info.nodes)
              IN /\ f \in Seq(Nat) /\ IsInjective(f) /\ Range(f) = Cores
                 /\ Len(f) = Cardinality(Cores)
<1>1. machine.allowed = Cores /\ Cores = 0..(Cardinality(Cores) - 1)
  BY DEF Whole, Contiguous
<1>2. IsFiniteSet(Cores) /\ Cardinality(Cores) \in Nat /\ LogicalCores \in 1..Cardinality(Cores)
  BY <1>1, CoreFacts
<1>3. ASSUME Info.numa
      PROVE  LET f == FlattenSeq(Info.nodes)
             IN /\ f \in Seq(Nat) /\ IsInjective(f) /\ Range(f) = Cores
                /\ Len(f) = Cardinality(Cores)
  <2> DEFINE D == DetectNumaLinux
             n == Cardinality(machine.listed)
             order == Sorted(machine.listed)
             f == FlattenSeq(D)
             U == UNION {Range(D[i]) : i \in 1..n}
  <2>1. Info.nodes = D /\ machine.listed = DOMAIN machine.nodes
    BY <1>3, InfoNodes DEF Whole
  <2>2. DOMAIN machine.nodes = 1..Len(machine.nodes)
    BY MachineFacts
  <2>3. /\ n \in Nat /\ D \in [1..n -> Seq(Nat)]
        /\ \A i \in 1..n : order[i] \in DOMAIN machine.nodes
                           /\ IsInjective(D[i]) /\ Range(D[i]) = machine.nodes[order[i]]
        /\ \A i, j \in 1..n : i # j => Range(D[i]) \cap Range(D[j]) = {}
        /\ \A k \in DOMAIN machine.nodes : \E i \in 1..n : order[i] = k
    BY <2>1, <2>2, ListedNodes
  <2> HIDE DEF D, n, order
  <2>4. f \in Seq(Nat) /\ IsInjective(f) /\ Range(f) = U
    <3>1. /\ n \in Nat /\ D \in [1..n -> Seq(Nat)] /\ \A i \in 1..n : IsInjective(D[i])
          /\ \A i, j \in 1..n : i # j => Range(D[i]) \cap Range(D[j]) = {}
      BY <2>3
    <3> QED BY <3>1, FlattenDistinct
  <2>5. U = Cores
    <3>1. \A x : x \in Cores <=> \E k \in DOMAIN machine.nodes : x \in machine.nodes[k]
      BY DEF Cores, Range
    <3>2. \A x : x \in U <=> \E i \in 1..n : x \in Range(D[i])
      OBVIOUS
    <3> HIDE DEF U
    <3>3. ASSUME NEW x \in U PROVE x \in Cores
      <4>1. PICK i \in 1..n : x \in Range(D[i])
        BY <3>2
      <4>2. order[i] \in DOMAIN machine.nodes /\ x \in machine.nodes[order[i]]
        BY <2>3, <4>1
      <4> QED BY <3>1, <4>2
    <3>4. ASSUME NEW x \in Cores PROVE x \in U
      <4>1. PICK k \in DOMAIN machine.nodes : x \in machine.nodes[k]
        BY <3>1
      <4>2. PICK i \in 1..n : order[i] = k
        BY <2>3
      <4> QED BY <2>3, <3>2, <4>1, <4>2
    <3> QED BY <3>3, <3>4
  <2> HIDE DEF f, U
  <2>6. Len(f) \in Nat /\ DOMAIN f = 1..Len(f)
    BY <2>4, LenProperties
  <2>7. f \in Bijection(1..Len(f), Cores)
    <3>1. f \in [1..Len(f) -> Cores]
      <4>1. f \in [1..Len(f) -> Nat]
        BY <2>4, LenProperties
      <4>2. \A i \in 1..Len(f) : f[i] \in Cores
        BY <2>4, <2>5, <2>6 DEF Range
      <4> QED BY <4>1, <4>2
    <3>2. \A x \in Cores : \E i \in 1..Len(f) : f[i] = x
      BY <2>4, <2>5, <2>6 DEF Range
    <3>3. \A i, j \in 1..Len(f) : f[i] = f[j] => i = j
      BY <2>4, <2>6 DEF IsInjective
    <3> QED BY <2>4, <3>1, <3>2, <3>3 DEF Bijection, Injection, Surjection
  <2>8. Cardinality(Cores) = Len(f)
    BY <2>6, <2>7, FS_CountingElements DEF ExistsBijection
  <2> QED BY <2>1, <2>4, <2>5, <2>8 DEF f
<1> QED BY <1>1, <1>2, <1>3

\* Every worker number has a core, and one that exists if the process has the machine.
LEMMA CoreIsReal ==
  ASSUME machine \in Machines, cpuInfo = Info, NEW w \in Nat
  PROVE  GetCoreForWorker(w) \in Nat /\ (Whole => GetCoreForWorker(w) \in Cores)
<1> DEFINE f == FlattenSeq(cpuInfo.nodes)
<1>1. PICK n \in Nat : cpuInfo.nodes \in [1..n -> Seq(Nat)]
  BY InfoNodes
<1>2. GetCoreForWorker(w) = IF ~cpuInfo.numa \/ w >= Len(f) THEN w % cpuInfo.logical ELSE f[w + 1]
  BY <1>1, CoreForWorker
<1>3. cpuInfo.logical \in Nat \ {0} /\ w % cpuInfo.logical \in 0..(cpuInfo.logical - 1)
  <2>1. cpuInfo.logical \in 1..Cardinality(machine.allowed)
    BY InfoNodes, CoreFacts
  <2>2. cpuInfo.logical \in Nat \ {0}
    BY <2>1, CoreFacts
  <2> QED BY <2>2, Remainder
<1>4. f \in Seq(Nat)
  <2>1. n \in 0..n
    BY <1>1
  <2> QED BY <1>1, <2>1, FlattenSteps
<1>5. Whole => cpuInfo.logical - 1 \in 0..(Cardinality(Cores) - 1) /\ Cores = 0..(Cardinality(Cores) - 1)
               /\ Cardinality(Cores) \in Nat
  BY InfoNodes, WholeMachine
<1>6. Whole /\ cpuInfo.numa => Range(f) = Cores
  BY WholeMachine
<1> HIDE DEF f
<1>7. CASE ~cpuInfo.numa \/ w >= Len(f)
  <2>1. GetCoreForWorker(w) = w % cpuInfo.logical
    BY <1>2, <1>7
  <2>2. Whole => w % cpuInfo.logical \in Cores
    BY <1>3, <1>5
  <2> QED BY <1>3, <2>1, <2>2
<1>8. CASE cpuInfo.numa /\ ~(w >= Len(f))
  <2>1. GetCoreForWorker(w) = f[w + 1]
    BY <1>2, <1>8
  <2>2. w + 1 \in DOMAIN f /\ DOMAIN f = 1..Len(f)
    BY <1>4, <1>8, LenProperties
  <2>3. f[w + 1] \in Range(f)
    BY <2>2 DEF Range
  <2>4. f[w + 1] \in Nat
    BY <1>4, <2>2
  <2> QED BY <1>6, <1>8, <2>1, <2>3, <2>4
<1> QED BY <1>7, <1>8

\* Two workers numbered below the logical cores are sent to two cores.
LEMMA CoresApart ==
  ASSUME machine \in Machines, cpuInfo = Info, Whole, NEW w \in Nat, NEW v \in Nat, w # v,
         w < cpuInfo.logical, v < cpuInfo.logical
  PROVE  GetCoreForWorker(w) # GetCoreForWorker(v)
<1> DEFINE f == FlattenSeq(cpuInfo.nodes)
<1>1. PICK n \in Nat : cpuInfo.nodes \in [1..n -> Seq(Nat)]
  BY InfoNodes
<1>2. /\ GetCoreForWorker(w) = IF ~cpuInfo.numa \/ w >= Len(f) THEN w % cpuInfo.logical ELSE f[w + 1]
      /\ GetCoreForWorker(v) = IF ~cpuInfo.numa \/ v >= Len(f) THEN v % cpuInfo.logical ELSE f[v + 1]
  BY <1>1, CoreForWorker
<1>3. cpuInfo.logical \in 1..Cardinality(Cores) /\ Cardinality(Cores) \in Nat
  BY InfoNodes, WholeMachine
<1>4. cpuInfo.numa => f \in Seq(Nat) /\ IsInjective(f) /\ Len(f) = Cardinality(Cores)
  BY WholeMachine
<1> HIDE DEF f
<1>5. CASE ~cpuInfo.numa
  <2>1. w % cpuInfo.logical = w /\ v % cpuInfo.logical = v
    <3>1. cpuInfo.logical \in Nat \ {0}
      BY <1>3
    <3> QED BY <3>1, Remainder
  <2> QED BY <1>2, <1>5, <2>1
<1>6. CASE cpuInfo.numa
  <2>1. ~(w >= Len(f)) /\ ~(v >= Len(f)) /\ w + 1 \in 1..Len(f) /\ v + 1 \in 1..Len(f)
    <3>1. Len(f) = Cardinality(Cores) /\ Len(f) \in Nat
      BY <1>3, <1>4, <1>6
    <3>2. w < Len(f) /\ v < Len(f)
      BY <1>3, <3>1
    <3> QED BY <3>1, <3>2
  <2>2. DOMAIN f = 1..Len(f)
    BY <1>4, <1>6, LenProperties
  <2>3. f[w + 1] # f[v + 1]
    <3>1. \A i, j \in 1..Len(f) : f[i] = f[j] => i = j
      BY <1>4, <1>6, <2>2 DEF IsInjective
    <3>2. w + 1 # v + 1
      OBVIOUS
    <3> QED BY <2>1, <3>1, <3>2
  <2> QED BY <1>2, <1>6, <2>1, <2>3
<1> QED BY <1>5, <1>6

-----------------------------------------------------------------------------
(* What the invariant says of a thread.                                     *)

\* What a thread that tries to pin itself can find.
LEMMA PinOutcome ==
  ASSUME machine \in Machines, NEW core \in Nat, NEW o \in PinThreadToCore(core)
  PROVE  LET ids == Sorted(machine.allowed)
             c == Cardinality(machine.allowed)
         IN /\ o.result \in Results \ {"Starting"} /\ o.other \in Int
            /\ o.on # {} /\ o.on \subseteq machine.allowed
            /\ o.result = "Success" => core < c /\ o.on = {ids[core + 1]}
            /\ o.result = "SuccessDifferentCore" =>
                 ~(core < c) /\ o.other = core % c /\ o.on = {ids[(core % c) + 1]}
            /\ o = [result |-> o.result, other |-> o.other, on |-> o.on]
<1> DEFINE ids == Sorted(machine.allowed)
           c == Cardinality(machine.allowed)
           A == machine.allowed
<1>1. c \in Nat \ {0} /\ A # {} /\ core % c \in 0..(c - 1)
  <2>1. c \in Nat \ {0}
    BY CoreFacts
  <2> QED BY <2>1, CoreFacts, Remainder
<1>2. ids \in [1..c -> A] /\ Len(ids) = c
  <2>1. ids \in [1..c -> A]
    BY CoreFacts, SortedProperties
  <2> QED BY <2>1, CoreFacts, SortedList
<1>3. o \in {Outcome("Unsupported", NoCore, A), Outcome("Failed", NoCore, A),
             IF core < Len(ids) THEN Outcome("Success", NoCore, {ids[core + 1]})
             ELSE Outcome("SuccessDifferentCore", core % Len(ids), {ids[(core % Len(ids)) + 1]})}
  BY DEF PinThreadToCore
<1> HIDE DEF ids, c, A
<1>4. CASE o = Outcome("Unsupported", NoCore, A) \/ o = Outcome("Failed", NoCore, A)
  BY <1>1, <1>4 DEF Outcome, Results, NoCore, A
<1>5. CASE core < c /\ o = Outcome("Success", NoCore, {ids[core + 1]})
  <2>1. ids[core + 1] \in A
    BY <1>1, <1>2, <1>5
  <2> QED BY <1>5, <2>1 DEF Outcome, Results, NoCore, A, ids, c
<1>6. CASE ~(core < c) /\ o = Outcome("SuccessDifferentCore", core % c, {ids[(core % c) + 1]})
  <2>1. (core % c) + 1 \in 1..c /\ core % c \in Int
    BY <1>1
  <2>2. ids[(core % c) + 1] \in A
    BY <1>2, <2>1
  <2> QED BY <1>6, <2>1, <2>2 DEF Outcome, Results, A, ids, c
<1>7. \/ o = Outcome("Unsupported", NoCore, A) \/ o = Outcome("Failed", NoCore, A)
      \/ core < c /\ o = Outcome("Success", NoCore, {ids[core + 1]})
      \/ ~(core < c) /\ o = Outcome("SuccessDifferentCore", core % c, {ids[(core % c) + 1]})
  BY <1>2, <1>3
<1> QED BY <1>4, <1>5, <1>6, <1>7

\* The core of a worker in each mode.
LEMMA CoreOfWorker ==
  ASSUME machine \in Machines, cpuInfo = Info, NEW w \in Nat
  PROVE  /\ CoreOf(w) = NoCore \/ (SupportsPinning /\ CoreOf(w) = GetCoreForWorker(w) /\ CoreOf(w) \in Nat)
         /\ CoreOf(w) # NoCore /\ Whole => CoreOf(w) \in Cores
         /\ CoreOf(w) \in Int
  BY CoreIsReal DEF CoreOf, NoCore

\* What the invariant says of one thread.
LEMMA ThreadFacts ==
  ASSUME Settled, Built, NEW i \in DOMAIN workers
  PROVE  LET w == workers[i]
             A == machine.allowed
             c == Cardinality(A)
         IN /\ mode # NotYet /\ cpuInfo = Info /\ w \in Threads
            /\ w.idx \in 0..workerIdx /\ w.result \in Results
            /\ w.on # {} /\ w.on \subseteq A
            /\ w.core = NoCore => /\ w.reported = "Unsupported" /\ w.on = A
                                  /\ w.result \in {"Starting", "Unsupported"}
            /\ w.core # NoCore =>
                 /\ w.reported = "Success" /\ w.core \in Nat /\ w.core = GetCoreForWorker(w.idx)
                 /\ SupportsPinning /\ (Whole => w.core \in Cores)
                 /\ w.result = "Success" => w.core < c /\ w.on = {Sorted(A)[w.core + 1]}
                 /\ w.result = "SuccessDifferentCore" =>
                      ~(w.core < c) /\ w.other = w.core % c /\ w.on = {Sorted(A)[(w.core % c) + 1]}
<1> DEFINE w == workers[i]
           A == machine.allowed
           c == Cardinality(A)
<1>1. machine \in Machines /\ workers \in Seq(Threads) /\ w \in Threads
  BY DEF Settled
<1>2. mode # NotYet /\ cpuInfo = Info
  BY DEF Settled
<1>3. /\ w.idx \in 0..workerIdx /\ w.core = CoreOf(w.idx)
      /\ w.reported = (IF w.core = NoCore THEN "Unsupported" ELSE "Success") /\ Tried(w)
  BY DEF Built, Well
<1>4. w.idx \in Nat /\ w.result \in Results
  BY <1>1 DEF Threads
<1>5. A # {}
  BY <1>1, CoreFacts
<1> HIDE DEF w, A, c
<1>6. CASE w.core = NoCore
  <2>1. w.result = "Starting" => w.on = A
    BY <1>3 DEF Tried, A
  <2>2. w.result # "Starting" => w.on = A /\ w.result = "Unsupported"
    BY <1>3, <1>6 DEF Tried, Outcome, A
  <2> QED BY <1>1, <1>2, <1>3, <1>4, <1>5, <1>6, <2>1, <2>2 DEF w, A
<1>7. CASE w.core # NoCore
  <2>1. /\ w.core = GetCoreForWorker(w.idx) /\ w.core \in Nat /\ SupportsPinning
        /\ Whole => w.core \in Cores
    BY <1>1, <1>2, <1>3, <1>4, <1>7, CoreOfWorker
  <2>2. CASE w.result = "Starting"
    <3>1. w.on = A
      BY <1>3, <2>2 DEF Tried, A
    <3> QED BY <1>1, <1>2, <1>3, <1>4, <1>5, <1>7, <2>1, <2>2, <3>1 DEF w, A
  <2>3. CASE w.result # "Starting"
    <3> DEFINE o == [result |-> w.result, other |-> w.other, on |-> w.on]
    <3>1. o \in PinThreadToCore(w.core)
      BY <1>3, <1>7, <2>3 DEF Tried
    <3>2. o.result = w.result /\ o.other = w.other /\ o.on = w.on
      OBVIOUS
    <3> HIDE DEF o
    <3>3. /\ o.on # {} /\ o.on \subseteq A
          /\ o.result = "Success" => w.core < c /\ o.on = {Sorted(A)[w.core + 1]}
          /\ o.result = "SuccessDifferentCore" =>
               ~(w.core < c) /\ o.other = w.core % c /\ o.on = {Sorted(A)[(w.core % c) + 1]}
      BY <1>1, <2>1, <3>1, PinOutcome DEF A, c
    <3>4. /\ w.on # {} /\ w.on \subseteq A
          /\ w.result = "Success" => w.core < c /\ w.on = {Sorted(A)[w.core + 1]}
          /\ w.result = "SuccessDifferentCore" =>
               ~(w.core < c) /\ w.other = w.core % c /\ w.on = {Sorted(A)[(w.core % c) + 1]}
      BY <3>2, <3>3
    <3>5. w.reported = "Success"
      BY <1>3, <1>7
    <3> QED BY <1>1, <1>2, <1>3, <1>4, <1>7, <2>1, <3>4, <3>5 DEF w, A, c
  <2> QED BY <2>2, <2>3
<1> QED BY <1>6, <1>7

-----------------------------------------------------------------------------
(* The steps.                                                               *)

\* A process that has detected nothing yet.
LEMMA InitIInv == Init => IInv
<1> SUFFICES ASSUME Init PROVE IInv
  OBVIOUS
<1>1. workers = <<>> /\ workerIdx = 0 /\ mode = NotYet /\ cpuInfo = NotYet /\ machine \in Machines
  BY DEF Init
<1>2. 0 \in 0..MaxIdx
  BY PlacementAssumption
<1>3. workers \in Seq(Threads) /\ DOMAIN workers = {}
  BY <1>1
<1>4. Settled
  BY <1>1, <1>2, <1>3 DEF Settled
<1>5. Built /\ Numbered
  BY <1>1, <1>3 DEF Built, Numbered
<1> QED BY <1>4, <1>5 DEF IInv

\* Appending, position by position.
LEMMA AppendWorker ==
  ASSUME NEW T, NEW q \in Seq(T), NEW x
  PROVE  /\ DOMAIN Append(q, x) = DOMAIN q \cup {Len(q) + 1} /\ Len(q) + 1 \notin DOMAIN q
         /\ \A i \in DOMAIN q : Append(q, x)[i] = q[i] /\ i < Len(q) + 1 /\ i \in Nat
         /\ Append(q, x)[Len(q) + 1] = x
         /\ x \in T => Append(q, x) \in Seq(T)
<1>1. Len(q) \in Nat /\ DOMAIN q = 1..Len(q)
  BY LenProperties
<1>2. DOMAIN Append(q, x) = 1..(Len(q) + 1)
  OBVIOUS
<1>3. 1..(Len(q) + 1) = 1..Len(q) \cup {Len(q) + 1}
  BY <1>1
<1>4. \A i \in DOMAIN q : Append(q, x)[i] = q[i] /\ i < Len(q) + 1 /\ i \in Nat
  BY <1>1
<1> QED BY <1>1, <1>2, <1>3, <1>4

\* A thread that has just been built.
LEMMA NewThread ==
  ASSUME Settled, mode # NotYet, NEW w \in Nat
  PROVE  LET t == Thread(w, CoreOf(w))
         IN /\ t \in Threads /\ t.idx = w /\ t.core = CoreOf(w) /\ Tried(t)
            /\ t.reported = IF t.core = NoCore THEN "Unsupported" ELSE "Success"
<1> DEFINE t == Thread(w, CoreOf(w))
<1>1. machine \in Machines /\ cpuInfo = Info
  BY DEF Settled
<1>2. CoreOf(w) \in Int /\ machine.allowed \in SUBSET Nat
  BY <1>1, CoreOfWorker, CoreFacts
<1>3. /\ t.idx = w /\ t.core = CoreOf(w) /\ t.result = "Starting" /\ t.on = machine.allowed
      /\ t.reported = IF CoreOf(w) = NoCore THEN "Unsupported" ELSE "Success"
  BY DEF Thread
<1>4. t \in Threads
  BY <1>2 DEF Thread, Threads, Results, NoCore
<1>5. Tried(t)
  BY <1>3 DEF Tried
<1> QED BY <1>3, <1>4, <1>5

\* The machine is all that detection depends on.
LEMMA SameInfo == ASSUME UNCHANGED machine PROVE Info' = Info
  BY DEF Info, LogicalCores, DetectNumaLinux, Fallback

\* Cores and outcomes depend on the machine, the detection and the mode only ...
LEMMA SameThreads ==
  ASSUME UNCHANGED <<machine, cpuInfo, mode>>, NEW w
  PROVE  CoreOf(w)' = CoreOf(w) /\ (Tried(w)' <=> Tried(w))
<1>1. CoreOf(w)' = CoreOf(w)
  BY DEF CoreOf, SupportsPinning, GetCoreForWorker, TotalCores
<1>2. Tried(w)' <=> Tried(w)
  BY DEF Tried, PinThreadToCore
<1> QED BY <1>1, <1>2

\* ... so what holds of a thread stays true while workers are numbered.
LEMMA SameWell ==
  ASSUME UNCHANGED <<machine, cpuInfo, mode>>, workerIdx \in Nat, workerIdx' \in Nat,
         workerIdx <= workerIdx', NEW w, Well(w)
  PROVE  Well(w)'
<1>1. CoreOf(w.idx)' = CoreOf(w.idx) /\ (Tried(w)' <=> Tried(w))
  BY SameThreads
<1>2. w.idx \in 0..workerIdx'
  BY DEF Well
<1> QED BY <1>1, <1>2 DEF Well

\* Built after a step, from what holds of each thread then.
LEMMA WellBuiltNext ==
  ASSUME \A i \in DOMAIN workers' : \E w : w = workers'[i] /\ Well(w)'
  PROVE  Built'
<1>1. (\A i \in DOMAIN workers : Well(workers[i]))'
  <2> SUFFICES ASSUME NEW i \in DOMAIN workers' PROVE Well(workers[i])'
    OBVIOUS
  <2>1. PICK w : w = workers'[i] /\ Well(w)'
    OBVIOUS
  <2> QED BY <2>1 DEF Well
<1> QED BY <1>1 DEF Built, Well

\* Detection comes before any builder.
LEMMA DetectStep == ASSUME IInv, Detect PROVE IInv'
<1>1. /\ Settled /\ cpuInfo = NotYet /\ cpuInfo' = Info
      /\ machine' = machine /\ mode' = mode /\ workerIdx' = workerIdx /\ workers' = workers
  BY DEF IInv, Detect, Info
<1>2. machine \in Machines
  BY <1>1 DEF Settled
<1>3. mode = NotYet /\ workers = <<>>
  BY <1>1, <1>2, InfoNodes DEF Settled
<1>4. Info' = Info
  BY <1>1, SameInfo
<1>5. Settled'
  BY <1>1, <1>3, <1>4 DEF Settled
<1>6. DOMAIN workers' = {} /\ mode' = NotYet
  BY <1>1, <1>3
<1> QED BY <1>5, <1>6 DEF IInv, Built, Numbered

\* select_for_system and the callers choose at least one worker.
LEMMA NewBuilderStep == ASSUME IInv, NewBuilder PROVE IInv'
<1>1. /\ Settled /\ cpuInfo # NotYet /\ mode = NotYet
      /\ mode' \in {SelectForSystem} \cup ChosenModes
      /\ machine' = machine /\ cpuInfo' = cpuInfo /\ workerIdx' = workerIdx /\ workers' = workers
  BY DEF IInv, NewBuilder
<1>2. machine \in Machines /\ cpuInfo = Info /\ workers = <<>>
  BY <1>1 DEF Settled
<1>3. cpuInfo.logical \in Nat \ {0}
  <2>1. Info.logical \in 1..Cardinality(machine.allowed) /\ Cardinality(machine.allowed) \in Nat
    BY <1>2, InfoNodes, CoreFacts
  <2> QED BY <1>2, <2>1
<1>4. SelectForSystem \in Modes
  <2>1. \A n \in Nat \ {0} : (IF n <= 4 THEN n ELSE n - 1) \in Nat \ {0}
    OBVIOUS
  <2> QED BY <1>3, <2>1 DEF SelectForSystem, Modes, Kinds
<1>5. ChosenModes \subseteq Modes
  <2>1. /\ WorkerCounts \subseteq Nat \ {0} /\ {1} \subseteq Nat \ {0}
        /\ {"PinnedSharded"} \subseteq Kinds /\ Kinds \ {"PinnedSharded"} \subseteq Kinds
    BY PlacementAssumption DEF Kinds
  <2>2. [kind : Kinds \ {"PinnedSharded"}, count : {1}] \subseteq Modes
    BY <2>1 DEF Modes
  <2>3. [kind : {"PinnedSharded"}, count : WorkerCounts] \subseteq Modes
    BY <2>1 DEF Modes
  <2> QED BY <2>2, <2>3 DEF ChosenModes
<1>6. mode' \in Modes
  BY <1>1, <1>4, <1>5
<1>7. Info' = Info
  BY <1>1, SameInfo
<1>8. Settled'
  <2>1. workers' \in Seq(Threads)
    BY <1>1 DEF Settled
  <2> QED BY <1>1, <1>2, <1>6, <1>7, <2>1 DEF Settled
<1>9. DOMAIN workers' = {}
  BY <1>1, <1>2
<1> QED BY <1>8, <1>9 DEF IInv, Built, Numbered

\* build takes the next number for the thread it adds.
LEMMA BuildStep == ASSUME IInv, Build PROVE IInv'
<1> DEFINE t == Thread(workerIdx, CoreOf(workerIdx))
           n == Len(workers) + 1
<1>1. /\ Settled /\ Built /\ Numbered
      /\ mode # NotYet /\ mode.kind # "TestStub"
      /\ workerIdx < MaxIdx /\ workerIdx' = workerIdx + 1 /\ workers' = Append(workers, t)
      /\ machine' = machine /\ cpuInfo' = cpuInfo /\ mode' = mode
  BY DEF IInv, Build
<1>2. /\ machine \in Machines /\ workerIdx \in Nat /\ MaxIdx \in Nat /\ cpuInfo = Info
      /\ mode \in Modes /\ workers \in Seq(Threads)
  BY <1>1, PlacementAssumption DEF Settled
<1>3. /\ t \in Threads /\ t.idx = workerIdx /\ t.core = CoreOf(workerIdx) /\ Tried(t)
      /\ t.reported = IF t.core = NoCore THEN "Unsupported" ELSE "Success"
  BY <1>1, <1>2, NewThread
<1> HIDE DEF t, n
<1>4. /\ DOMAIN workers' = DOMAIN workers \cup {n} /\ n \notin DOMAIN workers
      /\ \A i \in DOMAIN workers : workers'[i] = workers[i] /\ i < n /\ i \in Nat
      /\ workers'[n] = t /\ workers' \in Seq(Threads) /\ n \in Nat
  <2>1. Len(workers) \in Nat
    BY <1>2
  <2> QED BY <1>1, <1>2, <1>3, <2>1, AppendWorker DEF n
<1>5. workerIdx' \in 0..MaxIdx /\ workerIdx' \in Nat /\ workerIdx <= workerIdx'
  BY <1>1, <1>2
<1>6. Settled'
  <2>1. Info' = Info
    BY <1>1, SameInfo
  <2> QED BY <1>1, <1>2, <1>4, <1>5, <2>1 DEF Settled
<1>7. Built'
  <2>1. Well(t)
    BY <1>2, <1>3 DEF Well
  <2>2. \A i \in DOMAIN workers : Well(workers[i])
    BY <1>1 DEF Built
  <2>3. ASSUME NEW w, Well(w) PROVE Well(w)'
    BY <1>1, <1>2, <1>5, <2>3, SameWell
  <2> SUFFICES ASSUME NEW i \in DOMAIN workers' PROVE \E w : w = workers'[i] /\ Well(w)'
    BY WellBuiltNext
  <2>4. \E w : w = workers'[i] /\ Well(w)
    BY <1>4, <2>1, <2>2
  <2> QED BY <2>3, <2>4
<1>8. Numbered'
  <2>1. \A i \in DOMAIN workers : workers[i].idx \in Nat
    <3>1. \A i \in DOMAIN workers : workers[i] \in Threads
      BY <1>2
    <3> QED BY <3>1 DEF Threads
  <2>2. \A i \in DOMAIN workers : workers[i].idx < workerIdx
    BY <1>1 DEF Numbered
  <2>3. \A i \in DOMAIN workers' : workers'[i].idx < workerIdx'
    BY <1>1, <1>2, <1>3, <1>4, <2>1, <2>2
  <2>4. ASSUME NEW i \in DOMAIN workers', NEW j \in DOMAIN workers', i < j
        PROVE  workers'[i].idx < workers'[j].idx
    <3>1. CASE j \in DOMAIN workers
      <4>1. i \in DOMAIN workers
        BY <1>4, <2>4, <3>1
      <4> QED BY <1>1, <1>4, <2>4, <3>1, <4>1 DEF Numbered
    <3>2. CASE j = n
      <4>1. i \in DOMAIN workers
        BY <1>4, <2>4, <3>2
      <4> QED BY <1>3, <1>4, <2>2, <3>2, <4>1
    <3> QED BY <1>4, <3>1, <3>2
  <2> QED BY <2>3, <2>4 DEF Numbered
<1> QED BY <1>6, <1>7, <1>8 DEF IInv

\* A spawn that panics leaves a gap in the numbers and nothing else.
LEMMA SpawnFailsStep == ASSUME IInv, SpawnFails PROVE IInv'
<1>1. /\ Settled /\ Built /\ Numbered
      /\ mode # NotYet /\ mode.kind # "TestStub"
      /\ workerIdx < MaxIdx /\ workerIdx' = workerIdx + 1 /\ workers' = workers
      /\ machine' = machine /\ cpuInfo' = cpuInfo /\ mode' = mode
  BY DEF IInv, SpawnFails
<1>2. workerIdx \in Nat /\ MaxIdx \in Nat /\ workers \in Seq(Threads)
  BY <1>1, PlacementAssumption DEF Settled
<1>3. workerIdx' \in 0..MaxIdx /\ workerIdx' \in Nat /\ workerIdx <= workerIdx'
  BY <1>1, <1>2
<1>4. Settled'
  <2>1. Info' = Info
    BY <1>1, SameInfo
  <2> QED BY <1>1, <1>3, <2>1 DEF Settled
<1>5. Built'
  <2>1. ASSUME NEW w, Well(w) PROVE Well(w)'
    BY <1>1, <1>2, <1>3, <2>1, SameWell
  <2>2. \A i \in DOMAIN workers : Well(workers[i])
    BY <1>1 DEF Built
  <2> QED BY <1>1, <2>1, <2>2, WellBuiltNext
<1>6. Numbered'
  <2>1. \A i \in DOMAIN workers : workers[i].idx \in Nat
    <3>1. \A i \in DOMAIN workers : workers[i] \in Threads
      BY <1>2
    <3> QED BY <3>1 DEF Threads
  <2>2. \A i \in DOMAIN workers : workers[i].idx < workerIdx
    BY <1>1 DEF Numbered
  <2>3. \A i \in DOMAIN workers' : workers'[i].idx < workerIdx'
    BY <1>1, <1>2, <2>1, <2>2
  <2> QED BY <1>1, <2>3 DEF Numbered
<1> QED BY <1>4, <1>5, <1>6 DEF IInv

\* A test stub is not numbered and asks for no core.
LEMMA BuildTestStubStep == ASSUME IInv, BuildTestStub PROVE IInv'
<1> DEFINE t == Thread(workerIdx, NoCore)
           n == Len(workers) + 1
<1>1. /\ Settled /\ Built /\ mode # NotYet /\ mode.kind = "TestStub"
      /\ workers' = Append(workers, t) /\ workerIdx' = workerIdx
      /\ machine' = machine /\ cpuInfo' = cpuInfo /\ mode' = mode
  BY DEF IInv, BuildTestStub, builder
<1>2. machine \in Machines /\ workerIdx \in Nat /\ workers \in Seq(Threads)
  BY <1>1 DEF Settled
<1>3. CoreOf(workerIdx) = NoCore
  BY <1>1 DEF CoreOf, SupportsPinning
<1>4. /\ t \in Threads /\ t.idx = workerIdx /\ t.core = CoreOf(workerIdx) /\ Tried(t)
      /\ t.reported = IF t.core = NoCore THEN "Unsupported" ELSE "Success"
  BY <1>1, <1>2, <1>3, NewThread
<1> HIDE DEF t, n
<1>5. /\ DOMAIN workers' = DOMAIN workers \cup {n}
      /\ \A i \in DOMAIN workers : workers'[i] = workers[i]
      /\ workers'[n] = t /\ workers' \in Seq(Threads)
  BY <1>1, <1>2, <1>4, AppendWorker DEF n
<1>6. Settled'
  <2>1. Info' = Info
    BY <1>1, SameInfo
  <2> QED BY <1>1, <1>5, <2>1 DEF Settled
<1>7. Built'
  <2>1. Well(t)
    BY <1>2, <1>4 DEF Well
  <2>2. \A i \in DOMAIN workers : Well(workers[i])
    BY <1>1 DEF Built
  <2>3. ASSUME NEW w, Well(w) PROVE Well(w)'
    <3>1. workerIdx' \in Nat /\ workerIdx <= workerIdx'
      BY <1>1, <1>2
    <3> QED BY <1>1, <1>2, <2>3, <3>1, SameWell
  <2> SUFFICES ASSUME NEW i \in DOMAIN workers' PROVE \E w : w = workers'[i] /\ Well(w)'
    BY WellBuiltNext
  <2>4. \E w : w = workers'[i] /\ Well(w)
    BY <1>5, <2>1, <2>2
  <2> QED BY <2>3, <2>4
<1>8. Numbered'
  BY <1>1 DEF Numbered
<1> QED BY <1>6, <1>7, <1>8 DEF IInv

\* A thread that starts changes its own outcome only.
LEMMA ThreadStartsStep ==
  ASSUME IInv, NEW i \in DOMAIN workers, ThreadStarts(i)
  PROVE  IInv'
<1> DEFINE w == workers[i]
           x == workers'[i]
           A == machine.allowed
<1>1. /\ Settled /\ Built /\ Numbered /\ w.result = "Starting"
      /\ machine' = machine /\ cpuInfo' = cpuInfo /\ mode' = mode /\ workerIdx' = workerIdx
  BY DEF IInv, ThreadStarts, builder
<1>2. PICK o \in (IF w.core = NoCore THEN {Outcome("Unsupported", NoCore, A)}
                  ELSE PinThreadToCore(w.core)) :
        workers' = [workers EXCEPT ![i].result = o.result, ![i].other = o.other, ![i].on = o.on]
  BY DEF ThreadStarts
<1>3. /\ machine \in Machines /\ workerIdx \in Nat /\ workers \in Seq(Threads) /\ w \in Threads
      /\ A \in SUBSET Nat /\ cpuInfo = Info /\ mode # NotYet
  BY <1>1, CoreFacts, ThreadFacts DEF Settled
<1>4. Well(w) /\ (w.core # NoCore => w.core \in Nat)
  BY <1>1, ThreadFacts DEF Built
<1>5. /\ o.result \in Results \ {"Starting"} /\ o.other \in Int /\ o.on \in SUBSET Nat
      /\ o = [result |-> o.result, other |-> o.other, on |-> o.on]
  <2>1. CASE w.core = NoCore
    <3>1. o = Outcome("Unsupported", NoCore, A)
      BY <1>2, <2>1
    <3> QED BY <1>3, <3>1 DEF Outcome, Results, NoCore
  <2>2. CASE w.core # NoCore
    <3>1. o \in PinThreadToCore(w.core)
      BY <1>2, <2>2
    <3>2. o.on \subseteq A
      BY <1>3, <1>4, <2>2, <3>1, PinOutcome
    <3> QED BY <1>3, <1>4, <2>2, <3>1, <3>2, PinOutcome
  <2> QED BY <2>1, <2>2
<1>6. /\ x.idx = w.idx /\ x.core = w.core /\ x.reported = w.reported
      /\ x.result = o.result /\ x.other = o.other /\ x.on = o.on
      /\ x \in Threads
      /\ DOMAIN workers' = DOMAIN workers
      /\ \A j \in DOMAIN workers : j # i => workers'[j] = workers[j]
  <2>1. x = [w EXCEPT !.result = o.result, !.other = o.other, !.on = o.on]
    BY <1>2
  <2>2. /\ DOMAIN workers' = DOMAIN workers
        /\ \A j \in DOMAIN workers : j # i => workers'[j] = workers[j]
    BY <1>2
  <2> HIDE DEF w, x
  <2>3. /\ x.idx = w.idx /\ x.core = w.core /\ x.reported = w.reported
        /\ x.result = o.result /\ x.other = o.other /\ x.on = o.on
    BY <1>3, <2>1 DEF Threads
  <2>4. x \in Threads
    BY <1>3, <1>5, <2>1 DEF Threads
  <2> QED BY <2>2, <2>3, <2>4
<1> HIDE DEF x, w
<1>7. workers' \in Seq(Threads)
  <2>1. Len(workers) \in Nat /\ DOMAIN workers = 1..Len(workers)
        /\ \A j \in DOMAIN workers : workers[j] \in Threads
    BY <1>3
  <2>2. workers' = [j \in 1..Len(workers) |-> workers'[j]]
    BY <1>2, <2>1
  <2>3. \A j \in 1..Len(workers) : workers'[j] \in Threads
    BY <1>6, <2>1 DEF x
  <2>4. workers' \in [1..Len(workers) -> Threads]
    BY <2>2, <2>3
  <2> QED BY <2>1, <2>4
<1>8. Settled'
  <2>1. Info' = Info
    BY <1>1, SameInfo
  <2> QED BY <1>1, <1>3, <1>7, <2>1 DEF Settled
<1>9. Built'
  <2>1. Well(x)
    <3>1. o = [result |-> x.result, other |-> x.other, on |-> x.on] /\ x.result # "Starting"
      BY <1>5, <1>6
    <3>2. Tried(x)
      BY <1>2, <1>6, <3>1 DEF Tried
    <3> QED BY <1>4, <1>6, <3>2 DEF Well
  <2>2. \A j \in DOMAIN workers : Well(workers[j])
    BY <1>1 DEF Built
  <2>3. ASSUME NEW t, Well(t) PROVE Well(t)'
    <3>1. workerIdx' \in Nat /\ workerIdx <= workerIdx'
      BY <1>1, <1>3
    <3> QED BY <1>1, <1>3, <2>3, <3>1, SameWell
  <2> SUFFICES ASSUME NEW j \in DOMAIN workers' PROVE \E t : t = workers'[j] /\ Well(t)'
    BY WellBuiltNext
  <2>4. \E t : t = workers'[j] /\ Well(t)
    BY <1>6, <2>1, <2>2 DEF x
  <2> QED BY <2>3, <2>4
<1>10. Numbered'
  <2>1. \A j \in DOMAIN workers : workers'[j].idx = workers[j].idx
    BY <1>6 DEF x, w
  <2> QED BY <1>1, <1>6, <2>1 DEF Numbered
<1> QED BY <1>8, <1>9, <1>10 DEF IInv

\* Every step.
LEMMA StepIInv == ASSUME IInv, [Next]_vars PROVE IInv'
<1>1. ASSUME UNCHANGED vars PROVE IInv'
  <2>1. /\ machine' = machine /\ cpuInfo' = cpuInfo /\ mode' = mode
        /\ workerIdx' = workerIdx /\ workers' = workers
    BY <1>1 DEF vars, builder
  <2>2. Info' = Info
    BY <2>1, SameInfo
  <2>3. Settled'
    BY <2>1, <2>2 DEF IInv, Settled
  <2>4. Built'
    <3>1. workerIdx \in Nat
      BY DEF IInv, Settled
    <3>2. ASSUME NEW t, Well(t) PROVE Well(t)'
      BY <2>1, <3>1, <3>2, SameWell
    <3>3. \A i \in DOMAIN workers : Well(workers[i])
      BY DEF IInv, Built
    <3> QED BY <2>1, <3>2, <3>3, WellBuiltNext
  <2>5. Numbered'
    BY <2>1 DEF IInv, Numbered
  <2> QED BY <2>3, <2>4, <2>5 DEF IInv
<1> QED BY <1>1, DetectStep, NewBuilderStep, BuildStep, SpawnFailsStep, BuildTestStubStep,
           ThreadStartsStep DEF Next

\* In every reachable state detection has read the machine or nothing, every thread has
\* the number, core, report and outcome that build and the thread's closure gave it, and
\* worker_idx numbered the threads in ascending order.
THEOREM PlacementInductive == Spec => []IInv
<1>1. Init => IInv
  BY InitIInv
<1>2. IInv /\ [Next]_vars => IInv'
  BY StepIInv
<1> QED BY <1>1, <1>2, PTL DEF Spec

-----------------------------------------------------------------------------
(* The properties.                                                          *)

\* Types follow from the invariant ...
LEMMA IInvTypeOK == IInv => TypeOK
<1> SUFFICES ASSUME IInv PROVE TypeOK
  OBVIOUS
<1>1. Settled /\ Built /\ machine \in Machines /\ workerIdx \in 0..MaxIdx
  BY DEF IInv, Settled
<1>2. ASSUME cpuInfo # NotYet
      PROVE  /\ cpuInfo.logical \in 1..Cardinality(Cores)
             /\ \A k \in DOMAIN cpuInfo.nodes : Range(cpuInfo.nodes[k]) \subseteq Nat
  <2>1. cpuInfo = Info
    BY <1>1, <1>2 DEF Settled
  <2>2. cpuInfo.logical \in 1..Cardinality(Cores)
    <3>1. LogicalCores \in 1..Cardinality(machine.allowed)
          /\ Cardinality(machine.allowed) \in 1..Cardinality(Cores) /\ Cardinality(Cores) \in Nat
      BY <1>1, CoreFacts
    <3>2. cpuInfo.logical = LogicalCores
      BY <1>1, <2>1, InfoNodes
    <3> QED BY <3>1, <3>2
  <2>3. PICK n \in Nat : cpuInfo.nodes \in [1..n -> Seq(Nat)]
    BY <1>1, <2>1, InfoNodes
  <2>4. ASSUME NEW k \in DOMAIN cpuInfo.nodes PROVE Range(cpuInfo.nodes[k]) \subseteq Nat
    <3>1. cpuInfo.nodes[k] \in Seq(Nat)
      BY <2>3
    <3> QED BY <3>1 DEF Range
  <2> QED BY <2>2, <2>4
<1>3. mode # NotYet => mode.kind \in Kinds /\ mode.count \in Nat \ {0}
  BY <1>1 DEF Settled, Modes
<1>4. ASSUME NEW i \in DOMAIN workers
      PROVE  /\ workers[i].core \in (IF Whole THEN Cores ELSE Nat) \cup {NoCore}
             /\ {workers[i].result, workers[i].reported} \subseteq Results
             /\ workers[i].on # {} /\ workers[i].on \subseteq machine.allowed
             /\ workers[i].idx <= workerIdx
  <2>1. workers[i].core \in (IF Whole THEN Cores ELSE Nat) \cup {NoCore}
    BY <1>1, ThreadFacts
  <2>2. workers[i].result \in Results /\ workers[i] \in Threads
    BY <1>1, ThreadFacts
  <2>3. workers[i].reported \in Results
    BY <2>2 DEF Threads
  <2>4. workers[i].on # {} /\ workers[i].on \subseteq machine.allowed /\ workers[i].idx \in 0..workerIdx
    BY <1>1, ThreadFacts
  <2> QED BY <1>1, <2>1, <2>2, <2>3, <2>4
<1> QED BY <1>1, <1>2, <1>3, <1>4 DEF TypeOK

\* ... and so does what detection read ...
LEMMA IInvDetectionExact == IInv => DetectionExact
<1> SUFFICES ASSUME IInv, cpuInfo # NotYet, cpuInfo.numa
             PROVE  LET order == Sorted(machine.listed)
                    IN cpuInfo.nodes = [i \in DOMAIN order |-> Sorted(machine.nodes[order[i]])]
  BY DEF DetectionExact
<1>1. machine \in Machines /\ cpuInfo = Info
  BY DEF IInv, Settled
<1>2. cpuInfo.nodes = DetectNumaLinux
  BY <1>1, InfoNodes
<1> QED BY <1>1, <1>2, DetectedNodes

\* A thread on the first cores runs where it says.
LEMMA PinnedHere ==
  ASSUME Settled, Built, Contiguous, NEW i \in DOMAIN workers
  PROVE  /\ workers[i].result = "Success" => workers[i].on = {workers[i].core}
         /\ workers[i].result = "SuccessDifferentCore" =>
              workers[i].on = {workers[i].other} /\ workers[i].other # workers[i].core
<1> DEFINE w == workers[i]
           A == machine.allowed
           c == Cardinality(A)
<1>1. machine \in Machines
  BY DEF Settled
<1>2. c \in Nat \ {0} /\ A = 0..(c - 1)
  <2>1. c \in Nat \ {0}
    BY <1>1, CoreFacts
  <2> QED BY <2>1 DEF Contiguous
<1>3. \A k \in 0..(c - 1) : Sorted(A)[k + 1] = k
  BY <1>2, SortedFirst
<1>4. w.core = NoCore => w.result \in {"Starting", "Unsupported"}
  BY ThreadFacts
<1>5. w.core # NoCore =>
        /\ w.core \in Nat
        /\ w.result = "Success" => w.core < c /\ w.on = {Sorted(A)[w.core + 1]}
        /\ w.result = "SuccessDifferentCore" =>
             ~(w.core < c) /\ w.other = w.core % c /\ w.on = {Sorted(A)[(w.core % c) + 1]}
  BY ThreadFacts
<1> HIDE DEF w, A, c
<1>6. ASSUME w.result = "Success" PROVE w.on = {w.core}
  <2>1. w.core \in 0..(c - 1) /\ w.on = {Sorted(A)[w.core + 1]}
    BY <1>2, <1>4, <1>5, <1>6
  <2> QED BY <1>3, <2>1
<1>7. ASSUME w.result = "SuccessDifferentCore" PROVE w.on = {w.other} /\ w.other # w.core
  <2>1. w.core \in Nat /\ ~(w.core < c) /\ w.other = w.core % c /\ w.on = {Sorted(A)[(w.core % c) + 1]}
    BY <1>4, <1>5, <1>7
  <2>2. w.core % c \in 0..(c - 1)
    BY <1>2, <2>1, Remainder
  <2>3. w.on = {w.other}
    BY <1>3, <2>1, <2>2
  <2>4. w.other # w.core
    BY <1>2, <2>1, <2>2
  <2> QED BY <2>3, <2>4
<1> QED BY <1>6, <1>7 DEF w

\* ... that workers are apart: distinct numbers, so distinct cores, so distinct places ...
LEMMA IInvWorkersApart == IInv => WorkersApart
<1> SUFFICES ASSUME IInv, Whole, NEW i \in DOMAIN workers, NEW j \in DOMAIN workers, i # j,
                    workers[i].idx < cpuInfo.logical, workers[j].idx < cpuInfo.logical,
                    workers[i].result = "Success", workers[j].result = "Success"
             PROVE  workers[i].on # workers[j].on
  BY DEF WorkersApart
<1>1. Settled /\ Built /\ Numbered /\ machine \in Machines /\ workers \in Seq(Threads)
  BY DEF IInv, Settled
<1>2. ASSUME NEW k \in DOMAIN workers, workers[k].result = "Success"
      PROVE  /\ workers[k].core = GetCoreForWorker(workers[k].idx) /\ workers[k].idx \in Nat
             /\ SupportsPinning /\ mode # NotYet /\ cpuInfo = Info
             /\ workers[k].on = {workers[k].core}
  <2>1. workers[k].core # NoCore
    <3>1. workers[k].core = NoCore => workers[k].result \in {"Starting", "Unsupported"}
      BY <1>1, ThreadFacts
    <3> QED BY <1>2, <3>1
  <2>2. /\ workers[k].core = GetCoreForWorker(workers[k].idx) /\ SupportsPinning
        /\ mode # NotYet /\ cpuInfo = Info /\ workers[k] \in Threads
    BY <1>1, <2>1, ThreadFacts
  <2>3. workers[k].idx \in Nat
    BY <2>2 DEF Threads
  <2>4. workers[k].on = {workers[k].core}
    BY <1>1, <1>2, PinnedHere DEF Whole
  <2> QED BY <2>2, <2>3, <2>4
<1>3. workers[i].idx # workers[j].idx
  <2>1. mode # NotYet /\ mode.kind # "TestStub"
    BY <1>2 DEF SupportsPinning
  <2>2. \A k, l \in DOMAIN workers : k < l => workers[k].idx < workers[l].idx
    BY <1>1, <2>1 DEF Numbered
  <2>3. i \in Nat /\ j \in Nat /\ (i < j \/ j < i)
    BY <1>1
  <2>4. workers[i].idx \in Nat /\ workers[j].idx \in Nat
    BY <1>2
  <2>5. workers[i].idx < workers[j].idx \/ workers[j].idx < workers[i].idx
    BY <2>2, <2>3
  <2> QED BY <2>4, <2>5
<1>4. GetCoreForWorker(workers[i].idx) # GetCoreForWorker(workers[j].idx)
  BY <1>1, <1>2, <1>3, CoresApart
<1>5. workers[i].core # workers[j].core
  BY <1>2, <1>4
<1>6. workers[i].on = {workers[i].core} /\ workers[j].on = {workers[j].core}
  BY <1>2
<1> QED BY <1>5, <1>6

\* ... and what they report.
LEMMA IInvReportTruthful == IInv => ReportTruthful
<1> SUFFICES ASSUME IInv PROVE ReportTruthful
  OBVIOUS
<1>1. Settled /\ Built /\ machine \in Machines
  BY DEF IInv, Settled
<1>2. PinnedAsReported
  BY <1>1, PinnedHere DEF PinnedAsReported
<1>3. ASSUME NEW i \in DOMAIN workers, workers[i].result # "Starting"
      PROVE  /\ workers[i].reported = "Unsupported" => workers[i].on = machine.allowed
             /\ Whole /\ workers[i].reported = "Success" =>
                  workers[i].result \in {"Success", "Failed", "Unsupported"}
  <2>1. CASE workers[i].core = NoCore
    <3>1. workers[i].reported = "Unsupported" /\ workers[i].on = machine.allowed
      BY <1>1, <2>1, ThreadFacts
    <3> QED BY <3>1
  <2>2. CASE workers[i].core # NoCore
    <3> DEFINE c == Cardinality(machine.allowed)
    <3>1. /\ workers[i].reported = "Success" /\ workers[i].result \in Results
          /\ workers[i].core \in Nat /\ (Whole => workers[i].core \in Cores)
          /\ workers[i].result = "SuccessDifferentCore" => ~(workers[i].core < c)
      BY <1>1, <2>2, ThreadFacts
    <3>2. c \in Nat
      BY <1>1, CoreFacts
    <3>3. Whole => Cores = 0..(c - 1)
      BY DEF Whole, Contiguous
    <3> HIDE DEF c
    <3>4. Whole => workers[i].core < c
      BY <3>1, <3>2, <3>3
    <3> QED BY <1>3, <3>1, <3>4 DEF Results
  <2> QED BY <2>1, <2>2
<1>4. OptimisticReport
  BY <1>3 DEF OptimisticReport
<1> QED BY <1>2, <1>4 DEF ReportTruthful

\* Types; get_core_for_worker gives a core that exists when the process has the whole
\* machine, whatever its nodes are, and threads only ever run where they may.
THEOREM PlacementTypeCorrect == Spec => []TypeOK
  BY PlacementInductive, IInvTypeOK, PTL

\* CpuInfo::detect knows every core of every listed node, once and in ascending order:
\* parse_cpu_list inverts the kernel's format on any set of cores.
THEOREM DetectionIsExact == Spec => []DetectionExact
  BY PlacementInductive, IInvDetectionExact, PTL

\* The first logical_cores workers never share a core on any whole machine: for any
\* number and sizes of nodes, in any order of the directory, under any cgroup limit and
\* after any spawns that failed.
THEOREM WorkersStayApart == Spec => []WorkersApart
  BY PlacementInductive, IInvWorkersApart, PTL

\* A thread's PinningResult says where it runs when the cores are the first ones, and on
\* a whole machine build's early Success is followed by Success or a failing call only.
THEOREM ReportsAreTruthful == Spec => []ReportTruthful
  BY PlacementInductive, IInvReportTruthful, PTL

=============================================================================
