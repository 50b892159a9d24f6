--------------------------- MODULE SequenceLemmas ---------------------------
(***************************************************************************)
(* Lists and sums, for the proofs of the modules that have them: induction  *)
(* and recursion over numbers, what a list comprehension and make_batch     *)
(* give, what taking an element out of a queue or a line of waiters leaves, *)
(* and what a sum over a finite set is made of.                             *)
(***************************************************************************)
EXTENDS Lists, SequencesExt, FiniteSetTheorems, SequenceTheorems, WellFoundedInduction, TLAPS

\* Induction over the natural numbers, on a set of them: the form that asks the
\* provers for no operator.
LEMMA SetInduction ==
  ASSUME NEW S, 0 \in S, \A n \in Nat : n \in S => n + 1 \in S
  PROVE  Nat \subseteq S
<1> DEFINE Rest == Nat \ S
<1> SUFFICES ASSUME Rest # {} PROVE FALSE
  OBVIOUS
<1>1. PICK n \in Rest : \A m \in Rest : ~(<<m, n>> \in OpToRel(<, Nat))
  BY NatLessThanWellFounded, WFMin
<1>2. n \in Nat /\ n - 1 \in Nat /\ n - 1 \in Rest
  OBVIOUS
<1>3. <<n - 1, n>> \in Nat \X Nat /\ n - 1 < n
  BY <1>2
<1>4. <<n - 1, n>> \in OpToRel(<, Nat)
  BY <1>3 DEF OpToRel
<1> QED BY <1>1, <1>2, <1>4

\* A function that is defined at each number by its value at the one before.
Steps(g, V) == g \in [Nat -> [V -> V]]
Recursion(f, n, base, g, V) ==
  /\ f \in [1 .. n -> V]
  /\ \A i \in 1 .. n : f[i] = IF i = 1 THEN base ELSE g[i][f[i - 1]]

\* There is one.
LEMMA FunctionByRecursion ==
  ASSUME NEW V, NEW base \in V, NEW g, Steps(g, V), NEW n \in Nat
  PROVE  \E f : Recursion(f, n, base, g, V)
<1> USE DEF Steps, Recursion
<1> DEFINE Right(f, i) == f[i] = IF i = 1 THEN base ELSE g[i][f[i - 1]]
           S == {m \in Nat : \E f \in [1 .. n -> V] :
                               \A i \in 1 .. n : i <= m => Right(f, i)}
<1>1. 0 \in S
  <2>1. \A i \in 1 .. n : ~(i <= 0)
    OBVIOUS
  <2>2. [i \in 1 .. n |-> base] \in [1 .. n -> V]
    OBVIOUS
  <2> QED BY <2>1, <2>2
<1>2. ASSUME NEW m \in Nat, m \in S PROVE m + 1 \in S
  <2>1. PICK f \in [1 .. n -> V] : \A i \in 1 .. n : i <= m => Right(f, i)
    BY <1>2
  <2> DEFINE next == [i \in 1 .. n |-> IF i <= m \/ i = 1 THEN IF i = 1 THEN base ELSE f[i]
                                       ELSE g[i][f[i - 1]]]
  <2>2. \A i \in 1 .. n : i > 1 => i - 1 \in 1 .. n /\ f[i - 1] \in V
    OBVIOUS
  <2>3. next \in [1 .. n -> V]
    <3> SUFFICES ASSUME NEW i \in 1 .. n, i # 1 PROVE g[i][f[i - 1]] \in V
      OBVIOUS
    <3> QED BY <2>2
  <2>4. ASSUME NEW i \in 1 .. n, i <= m + 1 PROVE Right(next, i)
    <3>1. CASE i = 1
      BY <3>1
    <3>2. CASE i # 1
      <4>1. i - 1 \in 1 .. n /\ i - 1 <= m
        BY <3>2, <2>4
      <4>2. next[i - 1] = f[i - 1]
        BY <4>1, <2>1
      <4>3. next[i] = g[i][f[i - 1]]
        BY <3>2, <2>1
      <4> QED BY <3>2, <4>2, <4>3
    <3> QED BY <3>1, <3>2
  <2>5. m + 1 \in Nat /\ \A i \in 1 .. n : i <= m + 1 => Right(next, i)
    BY <2>4
  <2> HIDE DEF next, Right
  <2> QED BY <2>3, <2>5
<1>3. n \in S
  <2>1. \A m \in Nat : m \in S => m + 1 \in S
    BY <1>2
  <2> HIDE DEF S
  <2> QED BY <1>1, <2>1, SetInduction
<1>4. PICK f \in [1 .. n -> V] : \A i \in 1 .. n : i <= n => Right(f, i)
  BY <1>3
<1>5. \A i \in 1 .. n : i <= n
  OBVIOUS
<1> QED BY <1>4, <1>5

\* The elements of a finite set of numbers can be counted in their order.
LEMMA Counting ==
  ASSUME NEW n \in Nat, NEW at \in SUBSET (1 .. n)
  PROVE  LET upTo(i) == Cardinality({j \in at : j <= i}) IN
         /\ IsFiniteSet(at) /\ Cardinality(at) \in Nat
         /\ \A i \in at : upTo(i) \in 1 .. Cardinality(at)
         /\ \A i, j \in at : upTo(i) = upTo(j) => i = j
         /\ \A k \in 1 .. Cardinality(at) : \E i \in at : upTo(i) = k
<1> DEFINE Low(i) == {j \in at : j <= i}
           upTo(i) == Cardinality(Low(i))
           S == {m \in Nat : \A k \in 1 .. upTo(m) : \E i \in at : upTo(i) = k}
<1>1. IsFiniteSet(at) /\ Cardinality(at) \in Nat
  <2>1. IsFiniteSet(1 .. n)
    BY FS_Interval
  <2>2. IsFiniteSet(at)
    BY <2>1, FS_Subset
  <2> QED BY <2>2, FS_CardinalityType
<1>2. \A i : Low(i) \in SUBSET at /\ IsFiniteSet(Low(i)) /\ upTo(i) \in Nat
  <2> TAKE i
  <2>1. Low(i) \in SUBSET at
    OBVIOUS
  <2> HIDE DEF Low
  <2> QED BY <2>1, <1>1, FS_Subset, FS_CardinalityType
<1>3. \A m \in Nat : upTo(m + 1) = IF m + 1 \in at THEN upTo(m) + 1 ELSE upTo(m)
  <2> TAKE m \in Nat
  <2>1. m + 1 \notin Low(m)
    OBVIOUS
  <2>2. Low(m + 1) = IF m + 1 \in at THEN Low(m) \cup {m + 1} ELSE Low(m)
    <3>1. \A j \in at : j <= m + 1 <=> j <= m \/ j = m + 1
      OBVIOUS
    <3> QED BY <3>1
  <2> HIDE DEF Low
  <2> QED BY <2>1, <2>2, <1>2, FS_AddElement
<1>4. \A i, j \in at : i < j => upTo(i) < upTo(j)
  <2> TAKE i, j \in at
  <2> HAVE i < j
  <2>1. Low(i) \in SUBSET Low(j) /\ Low(i) # Low(j)
    <3>1. j \in Low(j) /\ j \notin Low(i)
      OBVIOUS
    <3>2. \A x \in at : x <= i => x <= j
      OBVIOUS
    <3> QED BY <3>1, <3>2
  <2> HIDE DEF Low
  <2>2. upTo(i) <= upTo(j) /\ upTo(i) # upTo(j)
    BY <2>1, <1>2, FS_Subset
  <2> QED BY <2>2, <1>2
<1>5. 0 \in S
  <2>1. Low(0) = {}
    <3>1. \A j \in at : j \in 1 .. n /\ ~(j <= 0)
      OBVIOUS
    <3> QED BY <3>1
  <2>2. upTo(0) = 0
    BY <2>1, FS_EmptySet
  <2>3. 1 .. upTo(0) = {}
    BY <2>2
  <2> HIDE DEF upTo
  <2> QED BY <2>3
<1>6. ASSUME NEW m \in Nat, m \in S PROVE m + 1 \in S
  <2> SUFFICES ASSUME NEW k \in 1 .. upTo(m + 1) PROVE \E i \in at : upTo(i) = k
    OBVIOUS
  <2> HIDE DEF upTo
  <2>1. CASE m + 1 \in at /\ k = upTo(m) + 1
    BY <2>1, <1>3
  <2>2. CASE k \in 1 .. upTo(m)
    BY <2>2, <1>6
  <2>3. CASE m + 1 \in at /\ k # upTo(m) + 1
    <3>1. upTo(m) \in Nat /\ k \in 1 .. upTo(m) + 1
      BY <2>3, <1>2, <1>3
    <3> QED BY <3>1, <2>2, <2>3
  <2>4. CASE m + 1 \notin at
    <3>1. k \in 1 .. upTo(m)
      BY <2>4, <1>3
    <3> QED BY <3>1, <2>2
  <2> QED BY <2>1, <2>3, <2>4
<1>7. n \in S
  <2> HIDE DEF S
  <2> QED BY <1>5, <1>6, SetInduction
<1>8. upTo(n) = Cardinality(at)
  <2>1. Low(n) = at
    <3>1. \A j \in at : j \in 1 .. n /\ j <= n
      OBVIOUS
    <3> QED BY <3>1
  <2> QED BY <2>1
<1>9. \A i \in at : upTo(i) \in 1 .. Cardinality(at)
  <2> TAKE i \in at
  <2>1. i \in Low(i)
    OBVIOUS
  <2> HIDE DEF Low
  <2>2. upTo(i) <= Cardinality(at) /\ upTo(i) # 0
    BY <2>1, <1>1, <1>2, FS_Subset, FS_EmptySet
  <2> QED BY <2>2, <1>1, <1>2
<1>10. \A i, j \in at : upTo(i) = upTo(j) => i = j
  <2> HIDE DEF upTo
  <2> TAKE i, j \in at
  <2>1. i \in Nat /\ j \in Nat
    OBVIOUS
  <2>2. i < j \/ j < i \/ i = j
    BY <2>1
  <2>3. upTo(i) \in Nat /\ upTo(j) \in Nat
    BY <1>2
  <2>4. (i < j => upTo(i) < upTo(j)) /\ (j < i => upTo(j) < upTo(i))
    BY <1>4
  <2> QED BY <2>2, <2>3, <2>4
<1> QED BY <1>1, <1>7, <1>8, <1>9, <1>10

\* What is picked from a list are the elements at the places, each place once.
LEMMA PickedFacts ==
  ASSUME NEW S, NEW s \in Seq(S), NEW at \in SUBSET DOMAIN s
  PROVE  /\ Picked(s, at) \in Seq(S) /\ Len(Picked(s, at)) = Cardinality(at)
         /\ ToSet(Picked(s, at)) = {s[i] : i \in at}
         /\ IsInjective(s) => IsInjective(Picked(s, at))
<1> DEFINE upTo(i) == Cardinality({j \in at : j <= i})
           place(k) == CHOOSE i \in at : upTo(i) = k
           N == Cardinality(at)
<1>0. Len(s) \in Nat /\ DOMAIN s = 1 .. Len(s)
  OBVIOUS
<1>1. /\ N \in Nat
      /\ \A i \in at : upTo(i) \in 1 .. N
      /\ \A i, j \in at : upTo(i) = upTo(j) => i = j
      /\ \A k \in 1 .. N : \E i \in at : upTo(i) = k
  BY <1>0, Counting
<1> HIDE DEF upTo, N
<1>2. \A k \in 1 .. N : place(k) \in at /\ upTo(place(k)) = k
  BY <1>1
<1>3. \A i \in at : place(upTo(i)) = i
  BY <1>1
<1>4. Picked(s, at) = [k \in 1 .. N |-> s[place(k)]]
  BY DEF Picked, upTo, N
<1> HIDE DEF place
<1>5. PICK t : t = [k \in 1 .. N |-> s[place(k)]]
  OBVIOUS
<1>6. \A k \in 1 .. N : s[place(k)] \in S
  BY <1>0, <1>2
<1>7. t \in Seq(S) /\ Len(t) = N /\ DOMAIN t = 1 .. N
  BY <1>1, <1>5, <1>6
<1>8. ToSet(t) = {s[i] : i \in at}
  BY <1>1, <1>2, <1>3, <1>5, <1>7 DEF ToSet
<1>9. IsInjective(s) => IsInjective(t)
  BY <1>0, <1>1, <1>2, <1>5, <1>7 DEF IsInjective
<1> QED BY <1>4, <1>5, <1>7, <1>8, <1>9 DEF N

\* Division, and where the i-th piece of n begins and ends.
LEMMA Division ==
  ASSUME NEW a \in Nat, NEW n \in Nat \ {0}
  PROVE  a \div n \in Nat /\ n * (a \div n) \in Nat /\ n * (a \div n) <= a /\ a < n * (a \div n) + n
OBVIOUS

\* Multiples of a number are in order and a number apart.
LEMMA Products ==
  ASSUME NEW n \in Nat \ {0}
  PROVE  /\ \A i \in Int : n * i \in Int /\ n * (i - 1) = n * i - n /\ n * (i + 1) = n * i + n
         /\ \A i, j \in Int : i <= j => n * i <= n * j
         /\ \A i, j \in Int : i < j => n * i + n <= n * j
<1>1. \A i \in Int : n * i \in Int /\ n * (i - 1) = n * i - n /\ n * (i + 1) = n * i + n
  OBVIOUS
<1>2. \A i, j \in Int : i <= j => n * i <= n * j
  OBVIOUS
<1>3. \A i, j \in Int : i < j => n * i + n <= n * j
  <2> TAKE i, j \in Int
  <2> HAVE i < j
  <2>1. i + 1 \in Int /\ i + 1 <= j
    OBVIOUS
  <2> QED BY <2>1, <1>1, <1>2
<1> QED BY <1>1, <1>2, <1>3

\* Sums of lengths, one after the other: they do not fall, and every number up to the
\* last is in one of the stretches between them, and in one only.
Adds(K, at, len) == at[1] = 0 /\ \A i \in 1 .. K : at[i + 1] = at[i] + len[i]
Tiled(K, at, len) ==
  /\ \A i, k \in 1 .. K + 1 : i <= k => at[i] <= at[k]
  /\ \A i \in 1 .. K : \A j \in 1 .. len[i] : at[i] + j \in 1 .. at[K + 1]
  /\ \A i, k \in 1 .. K : \A j \in 1 .. len[i], l \in 1 .. len[k] :
       at[i] + j = at[k] + l => i = k /\ j = l
  /\ \A m \in 1 .. at[K + 1] : \E i \in 1 .. K : \E j \in 1 .. len[i] : m = at[i] + j

\* Stretches laid end to end tile: no place is in two, and each is in one.
LEMMA Stretches ==
  ASSUME NEW K \in Nat, NEW at \in [1 .. K + 1 -> Nat], NEW len \in [1 .. K -> Nat],
         Adds(K, at, len)
  PROVE  Tiled(K, at, len)
<1>1. \A i \in 1 .. K : /\ i \in 1 .. K + 1 /\ i + 1 \in 1 .. K + 1
                        /\ at[i] \in Nat /\ at[i + 1] \in Nat /\ len[i] \in Nat
                        /\ at[i + 1] = at[i] + len[i] /\ at[i] <= at[i + 1]
  BY DEF Adds
<1>2. \A i, k \in 1 .. K + 1 : i <= k => at[i] <= at[k]
  <2> DEFINE S1 == {d \in Nat : \A i, k \in 1 .. K + 1 : k = i + d => at[i] <= at[k]}
  <2>1. 0 \in S1
    OBVIOUS
  <2>2. ASSUME NEW d \in Nat, d \in S1 PROVE d + 1 \in S1
    <3> SUFFICES ASSUME NEW i \in 1 .. K + 1, NEW k \in 1 .. K + 1, k = i + (d + 1)
                 PROVE  at[i] <= at[k]
      OBVIOUS
    <3>1. PICK e \in 1 .. K : e = i + d /\ k = e + 1
      OBVIOUS
    <3>2. at[i] <= at[e] /\ at[e] <= at[k]
      BY <3>1, <2>2, <1>1
    <3> QED BY <3>1, <3>2, <1>1
  <2>3. Nat \subseteq S1
    <3> HIDE DEF S1
    <3> QED BY <2>1, <2>2, SetInduction
  <2> TAKE i, k \in 1 .. K + 1
  <2> HAVE i <= k
  <2>4. PICK d \in Nat : k = i + d
    <3>1. k - i \in Nat /\ k = i + (k - i)
      OBVIOUS
    <3> QED BY <3>1
  <2> QED BY <2>3, <2>4
<1>3. ASSUME NEW i \in 1 .. K, NEW j \in 1 .. len[i] PROVE at[i] + j \in 1 .. at[K + 1]
  <2>1. at[i + 1] <= at[K + 1] /\ at[K + 1] \in Nat
    BY <1>1, <1>2
  <2>2. PICK x \in Nat, z \in Nat, y \in Nat :
          x = at[i] /\ z = len[i] /\ y = at[K + 1] /\ x + z <= y
    BY <2>1, <1>1
  <2>3. j \in 1 .. z
    BY <2>2
  <2>4. x + j \in 1 .. y
    BY <2>2, <2>3
  <2> QED BY <2>2, <2>4
<1>4. ASSUME NEW i \in 1 .. K, NEW k \in 1 .. K,
             NEW j \in 1 .. len[i], NEW l \in 1 .. len[k], at[i] + j = at[k] + l
      PROVE  i = k /\ j = l
  <2>1. /\ at[i] \in Nat /\ at[k] \in Nat /\ len[i] \in Nat /\ len[k] \in Nat
        /\ at[i + 1] = at[i] + len[i] /\ at[k + 1] = at[k] + len[k]
    BY <1>1
  <2>2. PICK x \in Nat, y \in Nat, p \in Nat, q \in Nat :
          x = at[i] /\ y = at[k] /\ p = len[i] /\ q = len[k]
    BY <2>1
  <2>3. j \in 1 .. p /\ l \in 1 .. q /\ x + j = y + l
    BY <2>2, <1>4
  <2>4. (i < k => x + p <= y) /\ (k < i => y + q <= x)
    <3>1. (i + 1 <= k => at[i + 1] <= at[k]) /\ (k + 1 <= i => at[k + 1] <= at[i])
      BY <1>1, <1>2
    <3>2. (i < k => i + 1 <= k) /\ (k < i => k + 1 <= i)
      OBVIOUS
    <3> QED BY <3>1, <3>2, <2>1, <2>2
  <2>5. i < k \/ k < i \/ i = k
    OBVIOUS
  <2>6. ~(i < k) /\ ~(k < i)
    BY <2>3, <2>4
  <2>7. i = k
    BY <2>5, <2>6
  <2> QED BY <2>2, <2>3, <2>7
<1>5. ASSUME NEW m \in 1 .. at[K + 1]
      PROVE  \E i \in 1 .. K : \E j \in 1 .. len[i] : m = at[i] + j
  <2> DEFINE In(i) == \E j \in 1 .. len[i] : m = at[i] + j
             S2 == {d \in Nat : d <= K /\ m <= at[d + 1] => \E i \in 1 .. K : In(i)}
  <2>0. m \in Nat
    OBVIOUS
  <2>1. 0 \in S2
    BY DEF Adds
  <2>2. ASSUME NEW d \in Nat, d \in S2 PROVE d + 1 \in S2
    <3> SUFFICES ASSUME d + 1 <= K, m <= at[(d + 1) + 1] PROVE \E i \in 1 .. K : In(i)
      OBVIOUS
    <3>1. PICK e \in 1 .. K : e = d + 1
      OBVIOUS
    <3>2. at[e] \in Nat /\ len[e] \in Nat /\ at[e + 1] = at[e] + len[e] /\ m <= at[e + 1]
      BY <3>1, <1>1
    <3>3. CASE m <= at[e]
      BY <3>1, <3>3, <2>2
    <3>4. CASE ~(m <= at[e])
      <4>1. PICK x \in Nat, z \in Nat : x = at[e] /\ z = len[e] /\ m <= x + z /\ ~(m <= x)
        BY <3>2, <3>4
      <4>2. m - x \in 1 .. z /\ m = x + (m - x)
        <5>1. x \in Nat /\ z \in Nat
          OBVIOUS
        <5> QED BY ONLY <4>1, <5>1, <2>0
      <4> QED BY <4>1, <4>2, <3>1
    <3> QED BY <3>3, <3>4
  <2>3. K \in S2
    <3> HIDE DEF S2
    <3>1. \A d \in Nat : d \in S2 => d + 1 \in S2
      BY <2>2
    <3>2. Nat \subseteq S2
      BY ONLY <2>1, <3>1, SetInduction
    <3> QED BY <3>2
  <2>4. m <= at[K + 1]
    OBVIOUS
  <2> QED BY <2>3, <2>4
<1> QED BY <1>2, <1>3, <1>4, <1>5 DEF Tiled

\* The pieces follow each other in the list and are all of it; at[i] is how much of the
\* list is before the i-th.
Cuts(b, s, at) ==
  /\ at \in [1 .. Len(b) + 1 -> Nat] /\ at[1] = 0 /\ at[Len(b) + 1] = Len(s)
  /\ \A i \in 1 .. Len(b) : /\ at[i + 1] = at[i] + Len(b[i])
                            /\ \A j \in 1 .. Len(b[i]) : b[i][j] = s[at[i] + j]

\* In a cut, every place of the list is at one place of one piece.
LEMMA CutPlaces ==
  ASSUME NEW S, NEW s \in Seq(S), NEW b \in Seq(Seq(S)), NEW at, Cuts(b, s, at)
  PROVE  /\ \A i, k \in 1 .. Len(b) + 1 : i <= k => at[i] <= at[k]
         /\ \A i \in 1 .. Len(b) : \A j \in 1 .. Len(b[i]) : at[i] + j \in 1 .. Len(s)
         /\ \A i, k \in 1 .. Len(b) : \A j \in 1 .. Len(b[i]), l \in 1 .. Len(b[k]) :
              at[i] + j = at[k] + l => i = k /\ j = l
         /\ \A m \in 1 .. Len(s) : \E i \in 1 .. Len(b) : \E j \in 1 .. Len(b[i]) : m = at[i] + j
<1>1. PICK K \in Nat : K = Len(b)
  OBVIOUS
<1>2. PICK len \in [1 .. K -> Nat] : \A i \in 1 .. K : len[i] = Len(b[i])
  <2>1. [i \in 1 .. K |-> Len(b[i])] \in [1 .. K -> Nat]
    BY <1>1
  <2> QED BY <2>1
<1>3. /\ at \in [1 .. K + 1 -> Nat] /\ at[1] = 0 /\ at[K + 1] = Len(s)
      /\ Adds(K, at, len)
  BY <1>1, <1>2 DEF Cuts, Adds
<1>4. Tiled(K, at, len)
  BY <1>3, Stretches
<1>5. \A i, k \in 1 .. Len(b) + 1 : i <= k => at[i] <= at[k]
  BY <1>1, <1>4 DEF Tiled
<1>6. \A i \in 1 .. Len(b) : \A j \in 1 .. Len(b[i]) : at[i] + j \in 1 .. Len(s)
  BY <1>1, <1>2, <1>3, <1>4 DEF Tiled
<1>7. \A i, k \in 1 .. Len(b) : \A j \in 1 .. Len(b[i]), l \in 1 .. Len(b[k]) :
        at[i] + j = at[k] + l => i = k /\ j = l
  BY <1>1, <1>2, <1>4 DEF Tiled
<1>8. \A m \in 1 .. Len(s) : \E i \in 1 .. Len(b) : \E j \in 1 .. Len(b[i]) : m = at[i] + j
  BY <1>1, <1>2, <1>3, <1>4 DEF Tiled
<1> QED BY <1>5, <1>6, <1>7, <1>8

\* The pieces have what the list has, and none repeats what the list does not.
LEMMA CutElements ==
  ASSUME NEW S, NEW s \in Seq(S), NEW b \in Seq(Seq(S)), NEW at, Cuts(b, s, at)
  PROVE  /\ UNION {ToSet(b[i]) : i \in DOMAIN b} = ToSet(s)
         /\ IsInjective(s) => \A i \in DOMAIN b : IsInjective(b[i])
<1> DEFINE place(i, j) == at[i] + j
<1>1. /\ Len(s) \in Nat /\ DOMAIN s = 1 .. Len(s) /\ Len(b) \in Nat /\ DOMAIN b = 1 .. Len(b)
      /\ \A i \in DOMAIN b : Len(b[i]) \in Nat /\ DOMAIN b[i] = 1 .. Len(b[i])
  OBVIOUS
<1>2. /\ \A i \in 1 .. Len(b) : \A j \in 1 .. Len(b[i]) : place(i, j) \in 1 .. Len(s)
      /\ \A i, k \in 1 .. Len(b) : \A j \in 1 .. Len(b[i]), l \in 1 .. Len(b[k]) :
           place(i, j) = place(k, l) => i = k /\ j = l
      /\ \A m \in 1 .. Len(s) : \E i \in 1 .. Len(b) : \E j \in 1 .. Len(b[i]) : m = place(i, j)
  BY CutPlaces
<1>3. \A i \in 1 .. Len(b) : \A j \in 1 .. Len(b[i]) : b[i][j] = s[place(i, j)]
  BY DEF Cuts
<1> HIDE DEF place
<1>4. \A i \in DOMAIN b : \A j \in DOMAIN b[i] : place(i, j) \in DOMAIN s /\ b[i][j] = s[place(i, j)]
  BY <1>1, <1>2, <1>3
<1>5. \A i \in DOMAIN b : \A j, l \in DOMAIN b[i] : place(i, j) = place(i, l) => j = l
  <2> TAKE i \in DOMAIN b
  <2> TAKE j, l \in DOMAIN b[i]
  <2>1. i \in 1 .. Len(b) /\ j \in 1 .. Len(b[i]) /\ l \in 1 .. Len(b[i])
    BY <1>1
  <2> QED BY <2>1, <1>2
<1>6. \A m \in DOMAIN s : \E i \in DOMAIN b : \E j \in DOMAIN b[i] : m = place(i, j)
  <2> TAKE m \in DOMAIN s
  <2>1. m \in 1 .. Len(s)
    BY <1>1
  <2>2. PICK i \in 1 .. Len(b) : \E j \in 1 .. Len(b[i]) : m = place(i, j)
    BY <2>1, <1>2
  <2>3. i \in DOMAIN b /\ DOMAIN b[i] = 1 .. Len(b[i])
    BY <1>1
  <2> QED BY <2>2, <2>3
<1>7. /\ \A i \in DOMAIN b : ToSet(b[i]) = {b[i][j] : j \in DOMAIN b[i]}
      /\ ToSet(s) = {s[m] : m \in DOMAIN s}
  BY DEF ToSet
<1>8. \A i \in DOMAIN b : ToSet(b[i]) \subseteq ToSet(s)
  BY <1>4, <1>7
<1>9. \A m \in DOMAIN s : \E i \in DOMAIN b : s[m] \in ToSet(b[i])
  <2> TAKE m \in DOMAIN s
  <2>1. PICK i \in DOMAIN b : \E j \in DOMAIN b[i] : m = place(i, j)
    BY <1>6
  <2>2. PICK j \in DOMAIN b[i] : m = place(i, j)
    BY <2>1
  <2>3. b[i][j] = s[m]
    BY <2>2, <1>4
  <2> QED BY <2>3, <1>7
<1>10. UNION {ToSet(b[i]) : i \in DOMAIN b} = ToSet(s)
  BY <1>7, <1>8, <1>9
<1>11. ASSUME IsInjective(s), NEW i \in DOMAIN b PROVE IsInjective(b[i])
  <2> SUFFICES ASSUME NEW j \in DOMAIN b[i], NEW l \in DOMAIN b[i], b[i][j] = b[i][l]
               PROVE  j = l
    BY DEF IsInjective
  <2>1. \A x, y \in DOMAIN s : s[x] = s[y] => x = y
    BY <1>11 DEF IsInjective
  <2>2. place(i, j) = place(i, l)
    BY <2>1, <1>4
  <2> QED BY <2>2, <1>5
<1> QED BY <1>10, <1>11

\* make_batch cuts a list in pieces that are not empty.
Pieces(b, s, S) ==
  /\ b \in Seq(Seq(S) \ {<<>>}) /\ (b = <<>> <=> s = <<>>)
  /\ \E at : Cuts(b, s, at)

\* make_batch: the pieces of a list, none of them empty.
LEMMA MakeBatchFacts ==
  ASSUME NEW S, NEW s \in Seq(S), NEW n \in Nat \ {0}, NEW b, b = MakeBatch(s, n)
  PROVE  Pieces(b, s, S)
<1> DEFINE K == (Len(s) + n - 1) \div n
           end(i) == IF n * i < Len(s) THEN n * i ELSE Len(s)
           piece(i) == SubSeq(s, n * (i - 1) + 1, end(i))
<1>0. Len(s) \in Nat /\ DOMAIN s = 1 .. Len(s)
  OBVIOUS
<1>1. K \in Nat /\ n * K \in Nat /\ n * K <= Len(s) + n - 1 /\ Len(s) <= n * K
  <2>1. Len(s) + n - 1 \in Nat
    BY <1>0
  <2>2. PICK a : a = Len(s) + n - 1
    OBVIOUS
  <2>3. a \div n \in Nat /\ n * (a \div n) \in Nat /\ n * (a \div n) <= a /\ a < n * (a \div n) + n
    BY <2>1, <2>2, Division
  <2> QED BY <2>2, <2>3, <1>0
<1> HIDE DEF K
<1>2. \A i \in 1 .. K : /\ n * i \in Int /\ n * (i - 1) = n * i - n /\ n * (i - 1) \in Nat
                        /\ n * (i - 1) < Len(s) /\ end(i) \in 1 .. Len(s)
                        /\ n * (i - 1) + 1 <= end(i) /\ end(i) <= n * i
                        /\ i < K => end(i) = n * i
                        /\ i = K => end(i) = Len(s)
  <2> TAKE i \in 1 .. K
  <2>1. n * i \in Int /\ n * (i - 1) = n * i - n /\ n * 0 = 0 /\ i - 1 >= 0 /\ i <= K
    BY <1>1, Products
  <2>2. n * 0 <= n * (i - 1) /\ n * i <= n * K
    BY <2>1, <1>1, Products
  <2>3. i < K => n * i + n <= n * K
    BY <1>1, Products
  <2>4. PICK high \in Int, low \in Int, all \in Int :
          high = n * i /\ low = n * (i - 1) /\ all = n * K
    BY <2>1, <1>1
  <2>5. /\ low = high - n /\ 0 <= low /\ high <= all /\ (i < K => high + n <= all)
        /\ all <= Len(s) + n - 1 /\ Len(s) <= all /\ (i = K => high = all) /\ (i < K \/ i = K)
    BY <2>1, <2>2, <2>3, <2>4, <1>1
  <2>6. PICK e : e = IF high < Len(s) THEN high ELSE Len(s)
    OBVIOUS
  <2>7. (high < Len(s) /\ e = high) \/ (~(high < Len(s)) /\ e = Len(s))
    BY <2>6
  <2>8. /\ low \in Nat /\ low < Len(s) /\ e \in 1 .. Len(s) /\ low + 1 <= e /\ e <= high
        /\ (i < K => e = high) /\ (i = K => e = Len(s))
    BY <2>5, <2>7, <1>0
  <2> QED BY <2>1, <2>4, <2>6, <2>8
<1>3. \A i \in 1 .. K : /\ piece(i) \in Seq(S) /\ Len(piece(i)) = end(i) - n * (i - 1)
                        /\ \A j \in 1 .. Len(piece(i)) : piece(i)[j] = s[n * (i - 1) + j]
  <2> TAKE i \in 1 .. K
  <2> HIDE DEF end
  <2>1. PICK m \in Nat : m = n * (i - 1)
    BY <1>2
  <2>2. PICK e \in 1 .. Len(s) : e = end(i) /\ m + 1 <= e /\ m + 1 \in 1 .. Len(s)
    BY <1>0, <1>2, <2>1
  <2>3. /\ SubSeq(s, m + 1, e) \in Seq(S)
        /\ Len(SubSeq(s, m + 1, e)) = e - m
        /\ \A j \in 1 .. e - m : SubSeq(s, m + 1, e)[j] = s[m + j]
    BY <2>1, <2>2, <1>0, SubSeqProperties
  <2> QED BY <2>1, <2>2, <2>3
<1>4. b = [i \in 1 .. K |-> piece(i)]
  BY DEF MakeBatch, K
<1> HIDE DEF piece, end
<1>5. b \in Seq(Seq(S) \ {<<>>}) /\ Len(b) = K /\ DOMAIN b = 1 .. K
  <2>1. \A i \in 1 .. K : piece(i) \in Seq(S) \ {<<>>}
    BY <1>0, <1>2, <1>3
  <2> QED BY <1>1, <1>4, <2>1
<1>6. b = <<>> <=> s = <<>>
  <2>1. K = 0 => Len(s) = 0
    BY <1>0, <1>1
  <2>2. K # 0 => Len(s) # 0
    BY <1>0, <1>1, <1>2
  <2> QED BY <2>1, <2>2, <1>0, <1>1, <1>5
<1> DEFINE at == [i \in 1 .. K + 1 |-> IF i = K + 1 THEN Len(s) ELSE n * (i - 1)]
<1>7. Cuts(b, s, at)
  <2>1. at \in [1 .. Len(b) + 1 -> Nat]
    <3>1. \A i \in 1 .. K + 1 : i # K + 1 => i \in 1 .. K
      BY <1>1
    <3> QED BY <3>1, <1>0, <1>1, <1>2, <1>5
  <2>2. at[1] = 0 /\ at[Len(b) + 1] = Len(s)
    <3>1. K = 0 => Len(s) = 0
      BY <1>0, <1>1
    <3>2. n * (1 - 1) = 0
      OBVIOUS
    <3> QED BY <3>1, <3>2, <1>0, <1>1, <1>5
  <2>3. ASSUME NEW i \in 1 .. Len(b)
        PROVE  /\ at[i + 1] = at[i] + Len(b[i])
               /\ \A j \in 1 .. Len(b[i]) : b[i][j] = s[at[i] + j]
    <3>1. i \in 1 .. K /\ i # K + 1 /\ i \in 1 .. K + 1 /\ b[i] = piece(i) /\ i + 1 \in 1 .. K + 1
      BY <1>1, <1>4, <1>5
    <3>2. at[i] = n * (i - 1)
      BY <3>1
    <3>3. PICK m \in Nat : m = n * (i - 1)
      BY <3>1, <1>2
    <3>4. /\ Len(b[i]) = end(i) - m /\ n * i = m + n /\ end(i) \in Nat
          /\ i < K => end(i) = m + n
          /\ i = K => end(i) = Len(s)
      <4>1. n * i = m + n
        BY <3>1, <3>3, <1>2, Products
      <4> QED BY <4>1, <3>1, <3>3, <1>0, <1>2, <1>3
    <3>5. at[i + 1] = m + Len(b[i])
      <4>1. i + 1 = K + 1 <=> i = K
        BY <3>1, <1>1
      <4>2. i # K => i < K
        BY <3>1, <1>1
      <4>3. (i + 1) - 1 = i
        BY <3>1
      <4>4. i # K => at[i + 1] = n * i
        BY <4>1, <4>3, <3>1
      <4>5. i = K => at[i + 1] = Len(s)
        BY <4>1, <3>1
      <4>6. m + Len(b[i]) = end(i)
        BY <3>4, <1>0
      <4>7. i # K => end(i) = n * i
        BY <4>2, <3>4
      <4> QED BY <4>4, <4>5, <4>6, <4>7, <3>4
    <3>6. \A j \in 1 .. Len(b[i]) : b[i][j] = s[n * (i - 1) + j]
      BY <3>1, <1>3
    <3> QED BY <3>2, <3>3, <3>5, <3>6
  <2> HIDE DEF at
  <2> QED BY <2>1, <2>2, <2>3 DEF Cuts
<1> QED BY <1>5, <1>6, <1>7 DEF Pieces

\* What taking an element out of a sequence leaves.
LEMMA RemoveAtFacts ==
    ASSUME NEW S, NEW s \in Seq(S), NEW i \in 1..Len(s)
    PROVE  /\ RemoveAt(s, i) \in Seq(S)
           /\ Len(RemoveAt(s, i)) = Len(s) - 1
           /\ \A j \in 1..(Len(s) - 1) :
                RemoveAt(s, i)[j] = IF j < i THEN s[j] ELSE s[j + 1]
<1>1. Len(s) \in Nat
  BY LenProperties
<1>2. PICK left : left = SubSeq(s, 1, i - 1)
  OBVIOUS
<1>3. PICK right : right = SubSeq(s, i + 1, Len(s))
  OBVIOUS
<1>4. left \in Seq(S) /\ Len(left) = i - 1 /\ \A j \in 1..(i - 1) : left[j] = s[j]
  BY <1>1, <1>2, SubSeqProperties
<1>5. /\ right \in Seq(S)
      /\ Len(right) = Len(s) - i
      /\ \A j \in 1..(Len(s) - i) : right[j] = s[i + j]
  BY <1>1, <1>3, SubSeqProperties
<1>6. PICK t : t = left \o right
  OBVIOUS
<1>7. /\ t \in Seq(S)
      /\ Len(t) = Len(left) + Len(right)
      /\ \A j \in 1..(Len(left) + Len(right)) :
            t[j] = IF j <= Len(left) THEN left[j] ELSE right[j - Len(left)]
  BY <1>4, <1>5, <1>6, ConcatProperties
<1>8. ASSUME NEW j \in 1..(Len(s) - 1)
      PROVE  t[j] = IF j < i THEN s[j] ELSE s[j + 1]
  <2>1. CASE j < i
    BY <1>1, <1>4, <1>5, <1>7, <2>1
  <2>2. CASE j >= i
    <3>0. j \in 1..(Len(left) + Len(right)) /\ ~(j <= Len(left))
      BY <1>1, <1>4, <1>5, <2>2
    <3>1. t[j] = right[j - (i - 1)]
      BY <3>0, <1>4, <1>7
    <3>2. j - (i - 1) \in 1..(Len(s) - i)
      BY <1>1, <2>2
    <3>3. right[j - (i - 1)] = s[i + (j - (i - 1))]
      BY <1>5, <3>2
    <3>4. i + (j - (i - 1)) = j + 1
      BY <1>1
    <3>5. QED
      BY <3>1, <3>3, <3>4, <2>2, <1>1
  <2>3. QED
    BY <2>1, <2>2, <1>1
<1>9. RemoveAt(s, i) = t
  BY <1>2, <1>3, <1>6 DEF RemoveAt
<1>10. Len(t) = Len(s) - 1
  BY <1>1, <1>4, <1>5, <1>7
<1>11. QED
  BY <1>7, <1>8, <1>9, <1>10

\* Out of a sequence without repetition: the same elements but the one taken
\* out, again without repetition.
LEMMA RemoveAtKeeps ==
  ASSUME NEW S, NEW s \in Seq(S), NEW i \in DOMAIN s,
         \A j, k \in DOMAIN s : s[j] = s[k] => j = k
  PROVE  /\ RemoveAt(s, i) \in Seq(S)
         /\ \A j \in DOMAIN RemoveAt(s, i) :
              \E k \in DOMAIN s : RemoveAt(s, i)[j] = s[k] /\ k # i
         /\ \A j, k \in DOMAIN RemoveAt(s, i) :
              RemoveAt(s, i)[j] = RemoveAt(s, i)[k] => j = k
  <1>1. Len(s) \in Nat /\ DOMAIN s = 1..Len(s)
    BY LenProperties
  <1>2. PICK t : t = RemoveAt(s, i)
    OBVIOUS
  <1>3. /\ t \in Seq(S)
        /\ Len(t) = Len(s) - 1
        /\ \A j \in 1..(Len(s) - 1) : t[j] = IF j < i THEN s[j] ELSE s[j + 1]
    BY <1>1, <1>2, RemoveAtFacts
  <1>4. DOMAIN t = 1..(Len(s) - 1)
    BY <1>3, LenProperties
  <1>5. \A j \in DOMAIN t : \E k \in DOMAIN s : t[j] = s[k] /\ k # i
    <2> SUFFICES ASSUME NEW j \in DOMAIN t
                 PROVE  \E k \in DOMAIN s : t[j] = s[k] /\ k # i
      OBVIOUS
    <2>1. CASE j < i
      BY <2>1, <1>1, <1>3, <1>4
    <2>2. CASE ~(j < i)
      <3>1. j + 1 \in DOMAIN s /\ j + 1 # i /\ t[j] = s[j + 1]
        BY <2>2, <1>1, <1>3, <1>4
      <3> QED BY <3>1
    <2> QED BY <2>1, <2>2
  <1>6. \A j, k \in DOMAIN t : t[j] = t[k] => j = k
    <2> SUFFICES ASSUME NEW j \in DOMAIN t, NEW k \in DOMAIN t, t[j] = t[k]
                 PROVE  j = k
      OBVIOUS
    <2> DEFINE at(n) == IF n < i THEN n ELSE n + 1
    <2>1. at(j) \in DOMAIN s /\ at(k) \in DOMAIN s
      BY <1>1, <1>4
    <2>2. s[at(j)] = s[at(k)]
      BY <1>3, <1>4
    <2>3. at(j) = at(k)
      BY <2>1, <2>2
    <2> QED BY <1>1, <1>4, <2>3
  <1> QED BY <1>2, <1>3, <1>5, <1>6

-----------------------------------------------------------------------------
(***************************************************************************)
(* Finite sets of numbers: their sums and their extremes.                   *)
(***************************************************************************)
\* A set of one more element has one less without any of them.
LEMMA OneLess ==
  ASSUME NEW S, IsFiniteSet(S), NEW n \in Nat, NEW s \in SUBSET S, Cardinality(s) = n + 1
  PROVE  s # {} /\ \A c \in s : s \ {c} \in SUBSET S /\ Cardinality(s \ {c}) = n
<1>1. IsFiniteSet(s)
  BY FS_Subset
<1>2. s # {}
  BY FS_EmptySet
<1>3. \A c \in s : Cardinality(s \ {c}) = n
  <2> TAKE c \in s
  <2>1. Cardinality(s \ {c}) = Cardinality(s) - 1
    BY <1>1, FS_RemoveElement
  <2> QED BY <2>1
<1> QED BY <1>2, <1>3

\* The fold behind a sum: what it gives for a set, from what it gives for one element
\* less.
SumsBy(f, s, iter) ==
  iter[s] = IF s = {} THEN 0
            ELSE f[CHOOSE x \in s : TRUE] + iter[s \ {CHOOSE x \in s : TRUE}]
SumTable(f, S, iter) ==
  iter = [s \in SUBSET S |-> IF s = {} THEN 0
                             ELSE f[CHOOSE x \in s : TRUE] + iter[s \ {CHOOSE x \in s : TRUE}]]

\* A sum is read off the table of its fold.
LEMMA SumIs ==
  ASSUME NEW f, NEW S
  PROVE  \E it : /\ it = CHOOSE iter : SumTable(f, S, iter)
                 /\ SumOver(f, S) = it[S]
BY DEF SumOver, MapThenSumSet, MapThenFoldSet, SumTable

SumsUpTo(f, S, n) ==
  \E iter \in [SUBSET S -> Int] :
    \A s \in SUBSET S : Cardinality(s) <= n => SumsBy(f, s, iter)

\* There is such a table over a finite set.
LEMMA SumTableExists ==
  ASSUME NEW S, IsFiniteSet(S), NEW f \in [S -> Int]
  PROVE  \E iter \in [SUBSET S -> Int] : SumTable(f, S, iter)
<1> DEFINE G == {n \in Nat : SumsUpTo(f, S, n)}
<1>0. \A s \in SUBSET S : /\ IsFiniteSet(s) /\ Cardinality(s) \in Nat
                          /\ Cardinality(s) <= Cardinality(S)
  BY FS_Subset, FS_CardinalityType
<1>1. \A s \in SUBSET S : s # {} => LET c == CHOOSE x \in s : TRUE IN
        /\ c \in s /\ s \ {c} \in SUBSET S /\ Cardinality(s \ {c}) = Cardinality(s) - 1
        /\ f[c] \in Int
  <2> TAKE s \in SUBSET S
  <2> HAVE s # {}
  <2>1. PICK c : c = CHOOSE x \in s : TRUE
    OBVIOUS
  <2>2. c \in s
    BY <2>1
  <2>3. Cardinality(s \ {c}) = Cardinality(s) - 1
    BY <2>2, <1>0, FS_RemoveElement
  <2> QED BY <2>1, <2>2, <2>3
<1>2. \A s \in SUBSET S : s # {} => Cardinality(s) # 0
  BY <1>0, FS_EmptySet
<1>3. 0 \in G
  <2> DEFINE it == [s \in SUBSET S |-> 0]
  <2>1. it \in [SUBSET S -> Int] /\ \A s \in SUBSET S : it[s] = 0
    OBVIOUS
  <2>2. \A s \in SUBSET S : Cardinality(s) <= 0 => s = {}
    BY <1>0, <1>2
  <2> HIDE DEF it
  <2>3. \A s \in SUBSET S : Cardinality(s) <= 0 => SumsBy(f, s, it)
    BY <2>1, <2>2 DEF SumsBy
  <2> QED BY <2>1, <2>3 DEF SumsUpTo
<1>4. ASSUME NEW n \in Nat, SumsUpTo(f, S, n)
      PROVE  SumsUpTo(f, S, n + 1)
  <2>0. PICK iter \in [SUBSET S -> Int] :
          \A s \in SUBSET S : Cardinality(s) <= n => SumsBy(f, s, iter)
    BY <1>4 DEF SumsUpTo
  <2> DEFINE it == [s \in SUBSET S |->
                      IF Cardinality(s) <= n THEN iter[s]
                      ELSE f[CHOOSE x \in s : TRUE] + iter[s \ {CHOOSE x \in s : TRUE}]]
  <2>1. \A s \in SUBSET S : ~(Cardinality(s) <= n) => s # {}
    <3>1. Cardinality({}) <= n
      BY FS_EmptySet
    <3>2. \A s \in SUBSET S : s = {} => Cardinality(s) <= n
      BY <3>1
    <3> QED BY <3>2
  <2>2. it \in [SUBSET S -> Int]
    <3> SUFFICES ASSUME NEW s \in SUBSET S, ~(Cardinality(s) <= n)
                 PROVE  f[CHOOSE x \in s : TRUE] + iter[s \ {CHOOSE x \in s : TRUE}] \in Int
      OBVIOUS
    <3>1. PICK c : c = CHOOSE x \in s : TRUE
      OBVIOUS
    <3>2. f[c] \in Int /\ iter[s \ {c}] \in Int
      BY <2>1, <1>1, <3>1
    <3> QED BY <3>1, <3>2
  <2>3. \A s \in SUBSET S : Cardinality(s) <= n => it[s] = iter[s]
    OBVIOUS
  <2>4. \A s \in SUBSET S : ~(Cardinality(s) <= n) =>
           it[s] = f[CHOOSE x \in s : TRUE] + iter[s \ {CHOOSE x \in s : TRUE}]
    OBVIOUS
  <2> HIDE DEF it
  <2>5. ASSUME NEW s \in SUBSET S, Cardinality(s) <= n + 1
        PROVE  SumsBy(f, s, it)
    <3>1. CASE s = {}
      <4>1. Cardinality(s) <= n
        BY <3>1, FS_EmptySet
      <4>2. it[s] = iter[s] /\ iter[s] = 0
        BY <4>1, <2>0, <2>3, <3>1 DEF SumsBy
      <4> QED BY <4>2, <3>1 DEF SumsBy
    <3>2. CASE s # {}
      <4>1. PICK c : c = CHOOSE x \in s : TRUE
        OBVIOUS
      <4>2. s \ {c} \in SUBSET S /\ Cardinality(s \ {c}) <= n
        BY <4>1, <3>2, <1>0, <1>1, <2>5
      <4>3. it[s \ {c}] = iter[s \ {c}]
        BY <4>2, <2>3
      <4>4. CASE Cardinality(s) <= n
        <5>1. it[s] = iter[s] /\ iter[s] = f[c] + iter[s \ {c}]
          BY <2>0, <2>3, <4>1, <4>4, <3>2 DEF SumsBy
        <5> QED BY <5>1, <4>1, <4>3, <3>2 DEF SumsBy
      <4>5. CASE ~(Cardinality(s) <= n)
        <5>1. it[s] = f[c] + iter[s \ {c}]
          BY <2>4, <4>1, <4>5
        <5> QED BY <5>1, <4>1, <4>3, <3>2 DEF SumsBy
      <4> QED BY <4>4, <4>5
    <3> QED BY <3>1, <3>2
  <2> QED BY <2>2, <2>5 DEF SumsUpTo
<1>5. SumsUpTo(f, S, Cardinality(S))
  <2>1. 0 \in G /\ \A n \in Nat : n \in G => n + 1 \in G
    BY <1>3, <1>4
  <2> HIDE DEF G
  <2>2. Nat \subseteq G
    BY <2>1, SetInduction
  <2>3. Cardinality(S) \in G
    BY <2>2, <1>0
  <2> QED BY <2>3 DEF G
<1>6. PICK iter \in [SUBSET S -> Int] :
        \A s \in SUBSET S : Cardinality(s) <= Cardinality(S) => SumsBy(f, s, iter)
  BY <1>5 DEF SumsUpTo
<1>7. \A s \in SUBSET S : SumsBy(f, s, iter)
  BY <1>0, <1>6
<1> QED BY <1>7 DEF SumsBy, SumTable

\* Two tables agree wherever both are.
LEMMA SumTablesAgree ==
  ASSUME NEW S, IsFiniteSet(S), NEW T \in SUBSET S, NEW f, NEW g, \A x \in T : f[x] = g[x],
         NEW a, SumTable(f, S, a), NEW b, SumTable(g, T, b)
  PROVE  a[T] = b[T]
<1> DEFINE G == {n \in Nat : \A s \in SUBSET T : Cardinality(s) = n => a[s] = b[s]}
<1>0. \A s \in SUBSET T : IsFiniteSet(s) /\ Cardinality(s) \in Nat
  BY FS_Subset, FS_CardinalityType
<1>1. \A s \in SUBSET T : SumsBy(f, s, a) /\ SumsBy(g, s, b)
  BY DEF SumTable, SumsBy
<1>2. 0 \in G
  <2>1. \A s \in SUBSET T : Cardinality(s) = 0 => s = {}
    BY <1>0, FS_EmptySet
  <2> QED BY <2>1, <1>1 DEF SumsBy
<1>3. \A n \in Nat : n \in G => n + 1 \in G
  <2> SUFFICES ASSUME NEW n \in Nat, \A s \in SUBSET T : Cardinality(s) = n => a[s] = b[s],
                      NEW s \in SUBSET T, Cardinality(s) = n + 1
               PROVE  a[s] = b[s]
    OBVIOUS
  <2>1. s # {}
    BY FS_EmptySet
  <2>2. PICK c : c = CHOOSE x \in s : TRUE
    OBVIOUS
  <2>3. c \in s /\ f[c] = g[c]
    BY <2>1, <2>2
  <2>4. s \ {c} \in SUBSET T /\ Cardinality(s \ {c}) = n
    <3>1. IsFiniteSet(T)
      BY FS_Subset
    <3> HIDE DEF G
    <3> QED BY <2>3, <3>1, OneLess
  <2>5. a[s] = f[c] + a[s \ {c}]
    BY <1>1, <2>1, <2>2 DEF SumsBy
  <2>6. b[s] = g[c] + b[s \ {c}]
    BY <1>1, <2>1, <2>2 DEF SumsBy
  <2> QED BY <2>3, <2>4, <2>5, <2>6
<1>4. Cardinality(T) \in G
  <2> HIDE DEF G
  <2> QED BY <1>0, <1>2, <1>3, SetInduction
<1> QED BY <1>4

\* A sum is a number.
LEMMA SumType ==
  ASSUME NEW S, IsFiniteSet(S), NEW f \in [S -> Int]
  PROVE  /\ SumOver(f, S) \in Int
         /\ \E it \in [SUBSET S -> Int] : SumTable(f, S, it) /\ SumOver(f, S) = it[S]
<1>1. PICK it : it = (CHOOSE iter : SumTable(f, S, iter)) /\ SumOver(f, S) = it[S]
  BY SumIs
<1>2. PICK i2 \in [SUBSET S -> Int] : SumTable(f, S, i2)
  BY SumTableExists
<1>3. SumTable(f, S, it)
  BY <1>1, <1>2
<1>4. it[S] = i2[S]
  BY <1>2, <1>3, SumTablesAgree
<1> QED BY <1>1, <1>2, <1>4

\* Of nothing it is 0.
LEMMA SumEmpty ==
  ASSUME NEW f
  PROVE  SumOver(f, {}) = 0
<1>1. IsFiniteSet({})
  BY FS_EmptySet
<1>2. PICK it : it = (CHOOSE iter : SumTable(f, {}, iter)) /\ SumOver(f, {}) = it[{}]
  BY SumIs
<1>3. SumTable(f, {}, [s \in SUBSET {} |-> 0])
  BY DEF SumTable
<1>4. SumTable(f, {}, it)
  BY <1>2, <1>3
<1> QED BY <1>2, <1>4 DEF SumTable

\* Equal values have equal sums.
LEMMA SumSame ==
  ASSUME NEW S, IsFiniteSet(S), NEW f \in [S -> Int], NEW g, \A x \in S : g[x] = f[x]
  PROVE  SumOver(g, S) = SumOver(f, S)
<1>1. PICK it \in [SUBSET S -> Int] : SumTable(f, S, it) /\ SumOver(f, S) = it[S]
  BY SumType
<1>2. SumTable(g, S, it)
  <2>1. \A s \in SUBSET S : s # {} => LET c == CHOOSE x \in s : TRUE IN c \in S
    OBVIOUS
  <2> QED BY <1>1, <2>1 DEF SumTable
<1>3. PICK i2 : i2 = (CHOOSE iter : SumTable(g, S, iter)) /\ SumOver(g, S) = i2[S]
  BY SumIs
<1>4. SumTable(g, S, i2)
  BY <1>2, <1>3
<1>5. i2[S] = it[S]
  BY <1>2, <1>4, SumTablesAgree
<1> QED BY <1>1, <1>3, <1>5

\* A part of a table is a table.
LEMMA SumOfPart ==
  ASSUME NEW S, IsFiniteSet(S), NEW f \in [S -> Int], NEW it \in [SUBSET S -> Int],
         SumTable(f, S, it), NEW s \in SUBSET S
  PROVE  SumOver(f, s) = it[s]
<1>1. IsFiniteSet(s)
  BY FS_Subset
<1> DEFINE g == [x \in s |-> f[x]]
<1>2. g \in [s -> Int] /\ \A x \in s : f[x] = g[x]
  OBVIOUS
<1> HIDE DEF g
<1>3. SumOver(f, s) = SumOver(g, s)
  BY <1>1, <1>2, SumSame
<1>4. PICK i2 \in [SUBSET s -> Int] : SumTable(g, s, i2) /\ SumOver(g, s) = i2[s]
  BY <1>1, <1>2, SumType
<1>5. it[s] = i2[s]
  BY <1>2, <1>4, SumTablesAgree
<1> QED BY <1>3, <1>4, <1>5

\* A sum is any of its terms and the sum of the rest.
SumsUp(f, s) ==
  /\ SumOver(f, s) \in Int
  /\ \A x \in s : SumOver(f, s) = f[x] + SumOver(f, s \ {x})

\* It does not matter which term is taken first.
LEMMA SumParts ==
  ASSUME NEW S, IsFiniteSet(S), NEW f \in [S -> Int]
  PROVE  \A s \in SUBSET S : SumsUp(f, s)
<1> DEFINE G == {n \in Nat : \A s \in SUBSET S : Cardinality(s) = n => SumsUp(f, s)}
<1>1. PICK it \in [SUBSET S -> Int] : SumTable(f, S, it)
  BY SumTableExists
<1>2. \A s \in SUBSET S : SumOver(f, s) = it[s] /\ it[s] \in Int
  BY <1>1, SumOfPart
<1>0. \A s \in SUBSET S : IsFiniteSet(s) /\ Cardinality(s) \in Nat
  BY FS_Subset, FS_CardinalityType
<1>3. \A s \in SUBSET S : s # {} =>
         \E c \in s : SumOver(f, s) = f[c] + SumOver(f, s \ {c})
  <2> TAKE s \in SUBSET S
  <2> HAVE s # {}
  <2>1. PICK c : c = CHOOSE x \in s : TRUE
    OBVIOUS
  <2>2. c \in s /\ s \ {c} \in SUBSET S
    BY <2>1
  <2>3. it[s] = f[c] + it[s \ {c}]
    BY <1>1, <2>1 DEF SumTable
  <2> QED BY <1>2, <2>2, <2>3
<1>4. 0 \in G
  <2>1. \A s \in SUBSET S : Cardinality(s) = 0 => s = {}
    BY <1>0, FS_EmptySet
  <2> QED BY <2>1, <1>2 DEF SumsUp
<1>5. ASSUME NEW n \in Nat, n \in G
      PROVE  n + 1 \in G
  <2> SUFFICES ASSUME NEW s \in SUBSET S, Cardinality(s) = n + 1, NEW x \in s
               PROVE  SumOver(f, s) = f[x] + SumOver(f, s \ {x})
    BY <1>2 DEF SumsUp
  <2>1. PICK c \in s : SumOver(f, s) = f[c] + SumOver(f, s \ {c})
    BY <1>3
  <2>2. CASE c = x
    BY <2>1, <2>2
  <2>3. CASE c # x
    <3>1. s \ {c} \in SUBSET S /\ s \ {x} \in SUBSET S /\ x \in s \ {c} /\ c \in s \ {x}
      BY <2>3
    <3>2. Cardinality(s \ {c}) = n /\ Cardinality(s \ {x}) = n
      BY OneLess
    <3>3. SumsUp(f, s \ {c}) /\ SumsUp(f, s \ {x})
      BY <1>5, <3>1, <3>2
    <3>4. (s \ {c}) \ {x} = (s \ {x}) \ {c} /\ (s \ {c}) \ {x} \in SUBSET S
      OBVIOUS
    <3>5. /\ SumOver(f, s \ {c}) = f[x] + SumOver(f, (s \ {c}) \ {x})
          /\ SumOver(f, s \ {x}) = f[c] + SumOver(f, (s \ {c}) \ {x})
      BY <3>1, <3>3, <3>4 DEF SumsUp
    <3>6. f[x] \in Int /\ f[c] \in Int /\ SumOver(f, (s \ {c}) \ {x}) \in Int
      BY <1>2, <3>4
    <3> QED BY <2>1, <3>5, <3>6
  <2> QED BY <2>2, <2>3
<1>6. Nat \subseteq G
  <2> HIDE DEF G
  <2> QED BY <1>4, <1>5, SetInduction
<1> QED BY <1>0, <1>6

\* A sum of terms none of which is above a bound.
LEMMA SumBound ==
  ASSUME NEW S, IsFiniteSet(S), NEW f \in [S -> Int], NEW u \in Int, \A x \in S : f[x] <= u
  PROVE  SumOver(f, S) <= Cardinality(S) * u
<1> DEFINE G == {n \in Nat : \A s \in SUBSET S : Cardinality(s) = n => SumOver(f, s) <= n * u}
<1>0. \A s \in SUBSET S : IsFiniteSet(s) /\ Cardinality(s) \in Nat
  BY FS_Subset, FS_CardinalityType
<1>1. \A s \in SUBSET S : SumsUp(f, s)
  BY SumParts
<1>2. 0 \in G
  <2>1. \A s \in SUBSET S : Cardinality(s) = 0 => s = {}
    BY <1>0, FS_EmptySet
  <2>2. SumOver(f, {}) = 0
    BY SumEmpty
  <2>3. 0 * u = 0
    OBVIOUS
  <2>4. ASSUME NEW s \in SUBSET S, Cardinality(s) = 0
        PROVE  SumOver(f, s) <= 0 * u
    <3>1. SumOver(f, s) = 0
      BY <2>1, <2>2, <2>4
    <3> QED BY <3>1, <2>3
  <2> QED BY <2>4
<1>3. ASSUME NEW n \in Nat, n \in G
      PROVE  n + 1 \in G
  <2> SUFFICES ASSUME NEW s \in SUBSET S, Cardinality(s) = n + 1
               PROVE  SumOver(f, s) <= (n + 1) * u
    OBVIOUS
  <2>1. s # {}
    BY OneLess
  <2>2. PICK c \in s : TRUE
    BY <2>1
  <2>3. s \ {c} \in SUBSET S /\ Cardinality(s \ {c}) = n
    BY OneLess
  <2>4. SumOver(f, s \ {c}) <= n * u
    BY <1>3, <2>3
  <2>5. SumOver(f, s) = f[c] + SumOver(f, s \ {c}) /\ SumOver(f, s \ {c}) \in Int
    BY <1>1, <2>3 DEF SumsUp
  <2>6. f[c] \in Int /\ f[c] <= u
    OBVIOUS
  <2>7. n * u \in Int /\ (n + 1) * u = n * u + u
    OBVIOUS
  <2> QED BY <2>4, <2>5, <2>6, <2>7
<1>4. Nat \subseteq G
  <2> HIDE DEF G
  <2> QED BY <1>2, <1>3, SetInduction
<1> QED BY <1>0, <1>4

\* A sum of natural numbers is one, and none of its terms is larger.
LEMMA SumOfNaturals ==
  ASSUME NEW S, IsFiniteSet(S), NEW f \in [S -> Nat]
  PROVE  SumOver(f, S) \in Nat /\ \A x \in S : f[x] <= SumOver(f, S)
<1> DEFINE G == {n \in Nat : \A s \in SUBSET S : Cardinality(s) = n => SumOver(f, s) >= 0}
<1>0. \A s \in SUBSET S : IsFiniteSet(s) /\ Cardinality(s) \in Nat
  BY FS_Subset, FS_CardinalityType
<1>1. \A s \in SUBSET S : SumsUp(f, s)
  BY SumParts
<1>2. 0 \in G
  <2>1. \A s \in SUBSET S : Cardinality(s) = 0 => s = {}
    BY <1>0, FS_EmptySet
  <2>2. SumOver(f, {}) = 0
    BY SumEmpty
  <2> QED BY <2>1, <2>2
<1>3. ASSUME NEW n \in Nat, n \in G
      PROVE  n + 1 \in G
  <2> SUFFICES ASSUME NEW s \in SUBSET S, Cardinality(s) = n + 1
               PROVE  SumOver(f, s) >= 0
    OBVIOUS
  <2>1. s # {}
    BY OneLess
  <2>2. PICK c \in s : TRUE
    BY <2>1
  <2>3. s \ {c} \in SUBSET S /\ Cardinality(s \ {c}) = n
    BY OneLess
  <2>4. SumOver(f, s \ {c}) >= 0
    BY <1>3, <2>3
  <2>5. SumOver(f, s) = f[c] + SumOver(f, s \ {c}) /\ SumOver(f, s \ {c}) \in Int
    BY <1>1, <2>3 DEF SumsUp
  <2>6. f[c] \in Nat
    OBVIOUS
  <2> QED BY <2>4, <2>5, <2>6
<1>4. Nat \subseteq G
  <2> HIDE DEF G
  <2> QED BY <1>2, <1>3, SetInduction
<1>5. \A s \in SUBSET S : SumOver(f, s) >= 0
  BY <1>0, <1>4
<1>6. \A x \in S : SumOver(f, S) = f[x] + SumOver(f, S \ {x}) /\ SumOver(f, S \ {x}) \in Int
  BY <1>1 DEF SumsUp
<1>7. SumOver(f, S) \in Nat
  <2> HIDE DEF G
  <2>1. S \in SUBSET S
    OBVIOUS
  <2>2. SumOver(f, S) \in Int /\ SumOver(f, S) >= 0
    BY <1>1, <1>5, <2>1 DEF SumsUp
  <2> QED BY <2>2
<1>8. ASSUME NEW x \in S
      PROVE  f[x] <= SumOver(f, S)
  <2>1. S \ {x} \in SUBSET S /\ f[x] \in Nat
    OBVIOUS
  <2>2. SumOver(f, S \ {x}) >= 0 /\ SumOver(f, S \ {x}) \in Int
    BY <2>1, <1>1, <1>5 DEF SumsUp
  <2> QED BY <2>1, <2>2, <1>6, <1>8
<1> QED BY <1>7, <1>8

\* A function has a largest and a smallest value on a finite set.
LEMMA Extremes ==
  ASSUME NEW S, IsFiniteSet(S), S # {}, NEW f \in [S -> Int]
  PROVE  \E a, b \in S : \A x \in S : f[b] <= f[x] /\ f[x] <= f[a]
<1> DEFINE Bounded(s) == \E a, b \in s : \A x \in s : f[b] <= f[x] /\ f[x] <= f[a]
           G == {n \in Nat : \A s \in SUBSET S : Cardinality(s) = n + 1 => Bounded(s)}
<1>1. 0 \in G
  <2> SUFFICES ASSUME NEW s \in SUBSET S, Cardinality(s) = 1
               PROVE  Bounded(s)
    OBVIOUS
  <2>1. IsFiniteSet(s)
    BY FS_Subset
  <2>2. PICK c : s = {c}
    BY <2>1, FS_Singleton
  <2>3. f[c] \in Int /\ c \in s /\ \A x \in s : x = c
    BY <2>2
  <2> QED BY <2>3
<1>2. ASSUME NEW n \in Nat, n \in G
      PROVE  n + 1 \in G
  <2> SUFFICES ASSUME NEW s \in SUBSET S, Cardinality(s) = (n + 1) + 1
               PROVE  Bounded(s)
    OBVIOUS
  <2>1. PICK m \in Nat : m = n + 1
    OBVIOUS
  <2>2. s # {} /\ \A c \in s : s \ {c} \in SUBSET S /\ Cardinality(s \ {c}) = m
    <3>1. Cardinality(s) = m + 1
      BY <2>1
    <3> HIDE DEF G, Bounded
    <3> QED BY <3>1, OneLess
  <2>3. PICK c \in s : TRUE
    BY <2>2
  <2>4. Bounded(s \ {c})
    <3> HIDE DEF Bounded
    <3> QED BY <1>2, <2>1, <2>2
  <2>5. PICK a, b \in s \ {c} : \A x \in s \ {c} : f[b] <= f[x] /\ f[x] <= f[a]
    BY <2>4
  <2>6. \A x \in s : f[x] \in Int /\ (x = c \/ x \in s \ {c})
    OBVIOUS
  <2>7. PICK u \in s : u = IF f[c] <= f[a] THEN a ELSE c
    OBVIOUS
  <2>8. PICK v \in s : v = IF f[b] <= f[c] THEN b ELSE c
    OBVIOUS
  <2>9. \A x \in s : f[v] <= f[x] /\ f[x] <= f[u]
    BY <2>5, <2>6, <2>7, <2>8
  <2> QED BY <2>9
<1>3. Nat \subseteq G
  <2> HIDE DEF G
  <2> QED BY <1>1, <1>2, SetInduction
<1>4. PICK n \in Nat : Cardinality(S) = n + 1
  <2>1. Cardinality(S) \in Nat /\ Cardinality(S) # 0
    BY FS_CardinalityType, FS_EmptySet
  <2>2. Cardinality(S) - 1 \in Nat /\ Cardinality(S) = (Cardinality(S) - 1) + 1
    BY <2>1
  <2> QED BY <2>2
<1>5. Bounded(S)
  <2> HIDE DEF Bounded
  <2> QED BY <1>3, <1>4
<1> QED BY <1>5

\* Max and Min are of the set.
LEMMA LargestOf ==
  ASSUME NEW S, IsFiniteSet(S), S # {}, S \subseteq Int
  PROVE  /\ Max(S) \in S /\ \A x \in S : x <= Max(S)
         /\ Min(S) \in S /\ \A x \in S : Min(S) <= x
<1> DEFINE f == [x \in S |-> x]
<1>1. f \in [S -> Int] /\ \A x \in S : f[x] = x
  OBVIOUS
<1> HIDE DEF f
<1>2. PICK a, b \in S : \A x \in S : f[b] <= f[x] /\ f[x] <= f[a]
  BY <1>1, Extremes
<1>3. \A x \in S : b <= x /\ x <= a
  BY <1>1, <1>2
<1> QED BY <1>3 DEF Max, Min

\* The values of a function on a finite set are finitely many.
LEMMA FiniteValues ==
  ASSUME NEW S, IsFiniteSet(S), NEW f, f = [x \in S |-> f[x]]
  PROVE  IsFiniteSet({f[x] : x \in S})
<1> DEFINE V == {f[x] : x \in S}
<1>1. f \in Surjection(S, V)
  BY DEF Surjection
<1> QED BY <1>1, FS_Surjection

\* The recursion of FlattenSeq: each list of lists appended after those before it.
Appended(ss, f) ==
  f = [i \in 1 .. Len(ss) |-> IF i = 1 THEN ss[i] ELSE f[i - 1] \o ss[i]]

\* One list put after another: both keep their order, the second behind the first.
LEMMA Appending ==
  ASSUME NEW S, NEW s \in Seq(S), NEW t \in Seq(S)
  PROVE  /\ s \o t \in Seq(S) /\ Len(s \o t) = Len(s) + Len(t)
         /\ \A x \in 1 .. Len(s) : (s \o t)[x] = s[x]
         /\ \A j \in 1 .. Len(t) : (s \o t)[Len(s) + j] = t[j]
  OBVIOUS

\* The recursion that FlattenSeq declares has a solution, and its last value is FlattenSeq.
LEMMA AppendedExists ==
  ASSUME NEW S, NEW ss \in Seq(Seq(S)), ss # <<>>
  PROVE  \E f \in [1 .. Len(ss) -> Seq(S)] : Appended(ss, f) /\ FlattenSeq(ss) = f[Len(ss)]
<1>1. PICK K \in Nat : K = Len(ss) /\ K >= 1
  OBVIOUS
<1>2. \A i \in 1 .. K : ss[i] \in Seq(S)
  BY <1>1
<1> DEFINE g == [i \in Nat |-> [t \in Seq(S) |-> IF i \in 1 .. K THEN t \o ss[i] ELSE t]]
<1>3. g \in [Nat -> [Seq(S) -> Seq(S)]]
  <2>1. ASSUME NEW i \in Nat, NEW t \in Seq(S)
        PROVE  (IF i \in 1 .. K THEN t \o ss[i] ELSE t) \in Seq(S)
    BY <1>2, Appending
  <2> QED BY <2>1
<1>4. PICK f \in [1 .. K -> Seq(S)] :
        \A i \in 1 .. K : f[i] = IF i = 1 THEN ss[1] ELSE g[i][f[i - 1]]
  <2>1. PICK base \in Seq(S) : base = ss[1]
    BY <1>1, <1>2
  <2> HIDE DEF g
  <2>2. PICK V : V = Seq(S)
    OBVIOUS
  <2>3. base \in V /\ Steps(g, V) /\ K \in Nat
    BY <1>1, <1>3, <2>1, <2>2 DEF Steps
  <2>4. \E f : Recursion(f, K, base, g, V)
    BY ONLY <2>3, FunctionByRecursion
  <2> QED BY <2>1, <2>2, <2>4 DEF Recursion
<1>5. \A i \in 1 .. K : i # 1 => g[i][f[i - 1]] = f[i - 1] \o ss[i]
  <2> SUFFICES ASSUME NEW i \in 1 .. K, i # 1 PROVE g[i][f[i - 1]] = f[i - 1] \o ss[i]
    OBVIOUS
  <2>1. f[i - 1] \in Seq(S) /\ i \in Nat
    <3>1. i - 1 \in 1 .. K
      OBVIOUS
    <3> QED BY <3>1
  <2> QED BY <2>1
<1> HIDE DEF g
<1>6. f = [i \in 1 .. K |-> IF i = 1 THEN ss[i] ELSE f[i - 1] \o ss[i]]
  <2>1. \A i \in 1 .. K : f[i] = IF i = 1 THEN ss[i] ELSE f[i - 1] \o ss[i]
    BY <1>4, <1>5
  <2> QED BY <2>1
<1>7. Appended(ss, f)
  BY <1>1, <1>6 DEF Appended
<1>8. FlattenSeq(ss) = (CHOOSE h : Appended(ss, h))[Len(ss)]
  <2>1. Len(ss) # 0
    BY <1>1
  <2> QED BY <2>1 DEF FlattenSeq, Appended
<1>9. \A h : Appended(ss, h) => \A n \in Nat : n \in 1 .. K => h[n] = f[n]
  <2> TAKE h
  <2> HAVE Appended(ss, h)
  <2>1. \A i \in 1 .. K : /\ h[i] = IF i = 1 THEN ss[i] ELSE h[i - 1] \o ss[i]
                          /\ f[i] = IF i = 1 THEN ss[i] ELSE f[i - 1] \o ss[i]
    BY <1>1, <1>6 DEF Appended
  <2> DEFINE G == {n \in Nat : n \in 1 .. K => h[n] = f[n]}
  <2>2. 0 \in G
    OBVIOUS
  <2>3. ASSUME NEW n \in Nat, n \in G PROVE n + 1 \in G
    <3>1. CASE n + 1 \in 1 .. K /\ n >= 1
      <4>1. n \in 1 .. K /\ (n + 1) - 1 = n /\ n + 1 # 1
        BY <3>1, <1>1
      <4>2. h[n] = f[n]
        BY <4>1, <2>3
      <4>3. h[n + 1] = h[(n + 1) - 1] \o ss[n + 1] /\ f[n + 1] = f[(n + 1) - 1] \o ss[n + 1]
        BY <4>1, <3>1, <2>1
      <4>4. h[n + 1] = f[n + 1]
        BY <4>1, <4>2, <4>3
      <4> QED BY <4>4
    <3>2. CASE n = 0
      <4>1. 1 \in 1 .. K
        BY <1>1
      <4>2. h[1] = f[1]
        BY <4>1, <2>1
      <4> QED BY <3>2, <4>2
    <3>3. CASE n + 1 \notin 1 .. K
      BY <3>3
    <3> QED BY <3>1, <3>2, <3>3
  <2>4. \A n \in Nat : n \in G => n + 1 \in G
    BY <2>3
  <2> HIDE DEF G
  <2>5. Nat \subseteq G
    BY <2>2, <2>4, SetInduction
  <2> QED BY <2>5 DEF G
<1>10. FlattenSeq(ss) = f[Len(ss)]
  <2> DEFINE h == CHOOSE h : Appended(ss, h)
  <2>1. Appended(ss, h)
    BY <1>7
  <2> HIDE DEF h
  <2>2. h[K] = f[K]
    BY <2>1, <1>1, <1>9
  <2> QED BY <2>2, <1>1, <1>8 DEF h
<1> QED BY <1>1, <1>4, <1>7, <1>10

\* FlattenSeq lays the lists end to end: they are its pieces.
LEMMA FlattenFacts ==
  ASSUME NEW S, NEW ss \in Seq(Seq(S))
  PROVE  FlattenSeq(ss) \in Seq(S) /\ \E at : Cuts(ss, FlattenSeq(ss), at)
<1>0. PICK K \in Nat : K = Len(ss) /\ DOMAIN ss = 1 .. K
  OBVIOUS
<1>1. CASE ss = <<>>
  <2>1. FlattenSeq(ss) = <<>> /\ K = 0
    BY <1>0, <1>1 DEF FlattenSeq
  <2> DEFINE at == [i \in 1 .. 1 |-> 0]
  <2>2. Cuts(ss, FlattenSeq(ss), at)
    BY <1>0, <1>1, <2>1 DEF Cuts
  <2> QED BY <2>1, <2>2
<1>2. CASE ss # <<>>
  <2>1. PICK f \in [1 .. K -> Seq(S)] : Appended(ss, f) /\ FlattenSeq(ss) = f[K]
    BY <1>0, <1>2, AppendedExists
  <2>2. K >= 1 /\ \A i \in 1 .. K : ss[i] \in Seq(S) /\ Len(ss[i]) \in Nat
    BY <1>0, <1>2
  <2>3. \A i \in 1 .. K : f[i] \in Seq(S) /\ Len(f[i]) \in Nat
    BY <2>1
  <2>4. f[1] = ss[1] /\ \A i \in 1 .. K : i # 1 => f[i] = f[i - 1] \o ss[i]
    <3>1. \A i \in 1 .. K : f[i] = IF i = 1 THEN ss[i] ELSE f[i - 1] \o ss[i]
      BY <1>0, <2>1 DEF Appended
    <3>2. 1 \in 1 .. K
      BY <2>2
    <3> QED BY <3>1, <3>2
  <2> DEFINE at == [i \in 1 .. K + 1 |-> IF i = 1 THEN 0 ELSE Len(f[i - 1])]
  <2>5. /\ at \in [1 .. K + 1 -> Nat] /\ at[1] = 0 /\ at[K + 1] = Len(f[K])
        /\ \A i \in 1 .. K : at[i + 1] = Len(f[i]) /\ (i # 1 => at[i] = Len(f[i - 1]))
    <3>1. \A i \in 1 .. K + 1 : i # 1 => i - 1 \in 1 .. K
      OBVIOUS
    <3>2. \A i \in 1 .. K : i + 1 \in 1 .. K + 1 /\ i + 1 # 1 /\ (i + 1) - 1 = i /\ i \in 1 .. K + 1
      OBVIOUS
    <3> QED BY <3>1, <3>2, <2>2, <2>3
  <2>6. \A i \in 1 .. K : Len(f[i]) = at[i] + Len(ss[i])
    <3> TAKE i \in 1 .. K
    <3>1. CASE i = 1
      BY <3>1, <2>4, <2>5, <2>2
    <3>2. CASE i # 1
      <4>0. i - 1 \in 1 .. K
        BY <3>2
      <4> HIDE DEF at
      <4>1. i - 1 \in 1 .. K /\ f[i] = f[i - 1] \o ss[i] /\ at[i] = Len(f[i - 1])
        BY <3>2, <4>0, <2>4, <2>5
      <4>2. f[i - 1] \in Seq(S) /\ ss[i] \in Seq(S)
        BY <4>1, <2>2, <2>3
      <4> QED BY ONLY <4>1, <4>2, Appending
    <3> QED BY <3>1, <3>2
  <2>7. \A i \in 1 .. K : \A j \in 1 .. Len(ss[i]) : f[i][at[i] + j] = ss[i][j]
    <3> TAKE i \in 1 .. K
    <3> TAKE j \in 1 .. Len(ss[i])
    <3>1. CASE i = 1
      BY <3>1, <2>4, <2>5, <2>2
    <3>2. CASE i # 1
      <4>0. i - 1 \in 1 .. K
        BY <3>2
      <4> HIDE DEF at
      <4>1. i - 1 \in 1 .. K /\ f[i] = f[i - 1] \o ss[i] /\ at[i] = Len(f[i - 1])
        BY <3>2, <4>0, <2>4, <2>5
      <4>2. f[i - 1] \in Seq(S) /\ ss[i] \in Seq(S)
        BY <4>1, <2>2, <2>3
      <4> QED BY ONLY <4>1, <4>2, Appending
    <3> QED BY <3>1, <3>2
  <2> HIDE DEF at
  <2> DEFINE G == {d \in Nat : \A i, m \in 1 .. K : m = i + d =>
                     /\ Len(f[i]) <= Len(f[m])
                     /\ \A x \in 1 .. Len(f[i]) : f[m][x] = f[i][x]}
  <2>8. 0 \in G
    <3>1. \A i, m \in 1 .. K : m = i + 0 => m = i
      OBVIOUS
    <3> QED BY <3>1, <2>3
  <2>9. ASSUME NEW d \in Nat, d \in G PROVE d + 1 \in G
    <3> SUFFICES ASSUME NEW i \in 1 .. K, NEW m \in 1 .. K, m = i + (d + 1)
                 PROVE  /\ Len(f[i]) <= Len(f[m])
                        /\ \A x \in 1 .. Len(f[i]) : f[m][x] = f[i][x]
      OBVIOUS
    <3>1. PICK p \in 1 .. K : p = m - 1 /\ p = i + d /\ m # 1
      <4>1. m - 1 \in 1 .. K /\ m - 1 = i + d /\ m # 1
        OBVIOUS
      <4> QED BY <4>1
    <3>2. Len(f[i]) <= Len(f[p]) /\ \A x \in 1 .. Len(f[i]) : f[p][x] = f[i][x]
      BY <3>1, <2>9
    <3>3. f[m] = f[p] \o ss[m] /\ f[p] \in Seq(S) /\ ss[m] \in Seq(S)
      BY <3>1, <2>2, <2>3, <2>4
    <3> HIDE DEF G
    <3>4. Len(f[p]) <= Len(f[m]) /\ \A x \in 1 .. Len(f[p]) : f[m][x] = f[p][x]
      BY ONLY <3>3, Appending
    <3>5. Len(f[i]) \in Nat /\ Len(f[p]) \in Nat /\ Len(f[m]) \in Nat
      BY <2>3
    <3> QED BY <3>2, <3>4, <3>5
  <2>10. \A d \in Nat : d \in G => d + 1 \in G
    BY <2>9
  <2> HIDE DEF G
  <2>11. Nat \subseteq G
    BY <2>8, <2>10, SetInduction
  <2>12. \A i \in 1 .. K : \A x \in 1 .. Len(f[i]) : f[K][x] = f[i][x]
    <3> TAKE i \in 1 .. K
    <3>1. PICK d \in Nat : d = K - i /\ K = i + d /\ K \in 1 .. K
      BY <2>2
    <3>2. d \in G
      BY <2>11
    <3> QED BY <3>1, <3>2 DEF G
  <2>13. ASSUME NEW i \in 1 .. K
         PROVE  at[i + 1] = at[i] + Len(ss[i]) /\ \A j \in 1 .. Len(ss[i]) : ss[i][j] = f[K][at[i] + j]
    <3>1. at[i + 1] = at[i] + Len(ss[i])
      BY <2>5, <2>6
    <3>2. ASSUME NEW j \in 1 .. Len(ss[i]) PROVE at[i] + j \in 1 .. Len(f[i])
      <4>1. at[i] \in Nat /\ Len(ss[i]) \in Nat /\ Len(f[i]) = at[i] + Len(ss[i])
        BY <2>2, <2>5, <2>6
      <4> QED BY <4>1
    <3> QED BY <3>1, <3>2, <2>7, <2>12
  <2>14. Cuts(ss, f[K], at)
    BY <1>0, <2>5, <2>13 DEF Cuts
  <2>15. f[K] \in Seq(S)
    BY <2>2, <2>3
  <2> QED BY <2>1, <2>14, <2>15
<1> QED BY <1>1, <1>2

\* A list of whatever it holds.
IsList(s) == s \in Seq(ToSet(s))

\* What makes something a list, its length and its places.
LEMMA ListFacts ==
  ASSUME NEW s
  PROVE  /\ \A S : s \in Seq(S) => IsList(s)
         /\ \A n \in Nat : s = [i \in 1 .. n |-> s[i]] => IsList(s) /\ Len(s) = n /\ DOMAIN s = 1 .. n
         /\ IsList(s) => /\ Len(s) \in Nat /\ DOMAIN s = 1 .. Len(s)
                         /\ s = [i \in 1 .. Len(s) |-> s[i]]
<1>1. \A S : s \in Seq(S) => IsList(s)
  <2> SUFFICES ASSUME NEW S, s \in Seq(S) PROVE IsList(s)
    OBVIOUS
  <2>1. Len(s) \in Nat /\ s \in [1 .. Len(s) -> S] /\ DOMAIN s = 1 .. Len(s)
    OBVIOUS
  <2>2. s \in [1 .. Len(s) -> ToSet(s)]
    BY <2>1 DEF ToSet
  <2> QED BY <2>1, <2>2 DEF IsList
<1>2. ASSUME NEW n \in Nat, s = [i \in 1 .. n |-> s[i]]
      PROVE  IsList(s) /\ Len(s) = n /\ DOMAIN s = 1 .. n
  <2>1. DOMAIN s = 1 .. n
    BY <1>2
  <2>2. s \in [1 .. n -> ToSet(s)]
    BY <1>2, <2>1 DEF ToSet
  <2>3. s \in Seq(ToSet(s))
    BY <2>2
  <2>4. Len(s) = n
    BY <2>1, <2>3
  <2> QED BY <2>1, <2>3, <2>4 DEF IsList
<1>3. ASSUME IsList(s)
      PROVE  Len(s) \in Nat /\ DOMAIN s = 1 .. Len(s) /\ s = [i \in 1 .. Len(s) |-> s[i]]
  BY <1>3 DEF IsList
<1> QED BY <1>1, <1>2, <1>3

\* A function on 1 .. n into a set is a list of that set, n long.
LEMMA ListOf ==
  ASSUME NEW S, NEW s, NEW n \in Nat, s = [i \in 1 .. n |-> s[i]],
         \A i \in 1 .. n : s[i] \in S
  PROVE  s \in Seq(S) /\ Len(s) = n /\ DOMAIN s = 1 .. n
<1>1. s \in [1 .. n -> S]
  BY ONLY s = [i \in 1 .. n |-> s[i]], \A i \in 1 .. n : s[i] \in S
<1>2. s \in Seq(S)
  BY <1>1
<1> QED BY <1>1, <1>2, ListFacts

\* Lists are the same when they have the same at every place.
LEMMA SameList ==
  ASSUME NEW s, NEW t, IsList(s), IsList(t), NEW n, Len(s) = n, Len(t) = n,
         \A j \in 1 .. n : s[j] = t[j]
  PROVE  s = t
<1>1. s = [j \in 1 .. n |-> s[j]] /\ t = [j \in 1 .. n |-> t[j]]
  BY ListFacts
<1> QED BY ONLY <1>1, \A j \in 1 .. n : s[j] = t[j]

\* Lists of lists are lists of some set's lists.
LEMMA NestedLists ==
  ASSUME NEW ss, IsList(ss), \A i \in DOMAIN ss : IsList(ss[i])
  PROVE  ss \in Seq(Seq(UNION {ToSet(ss[i]) : i \in DOMAIN ss}))
<1> DEFINE S == UNION {ToSet(ss[i]) : i \in DOMAIN ss}
<1>1. \A i \in DOMAIN ss : ss[i] \in Seq(S)
  <2> TAKE i \in DOMAIN ss
  <2>1. ToSet(ss[i]) \subseteq S
    OBVIOUS
  <2>2. ss[i] \in Seq(ToSet(ss[i]))
    BY DEF IsList
  <2> HIDE DEF S
  <2> QED BY <2>1, <2>2
<1>2. Len(ss) \in Nat /\ DOMAIN ss = 1 .. Len(ss) /\ ss = [i \in 1 .. Len(ss) |-> ss[i]]
  BY ListFacts
<1> HIDE DEF S
<1> QED BY <1>1, <1>2 DEF S

\* Lists of lists that have their elements at the same places.
SameShape(ss, tt) == Len(tt) = Len(ss) /\ \A i \in 1 .. Len(ss) : Len(tt[i]) = Len(ss[i])

\* What is at a place of s is at a place of ss, and t has there what tt has.
Along(s, t, ss, tt) ==
  /\ Len(t) = Len(s)
  /\ \A k \in 1 .. Len(s) : \E i \in 1 .. Len(ss) : \E j \in 1 .. Len(ss[i]) :
       s[k] = ss[i][j] /\ t[k] = tt[i][j]
  /\ \A i \in 1 .. Len(ss) : \A j \in 1 .. Len(ss[i]) : \E k \in 1 .. Len(s) :
       s[k] = ss[i][j] /\ t[k] = tt[i][j]

\* Lists that are cut at the same places are alike place by place: what ss has somewhere, s
\* has, and there t has what tt has.
LEMMA CutsAlong ==
  ASSUME NEW S, NEW T, NEW ss \in Seq(Seq(S)), NEW tt \in Seq(Seq(T)), SameShape(ss, tt),
         NEW s \in Seq(S), NEW t \in Seq(T), NEW at, NEW to, Cuts(ss, s, at), Cuts(tt, t, to)
  PROVE  Along(s, t, ss, tt)
<1>1. PICK K \in Nat : K = Len(ss) /\ K = Len(tt)
  BY DEF SameShape
<1>2. /\ at \in [1 .. K + 1 -> Nat] /\ at[1] = 0 /\ at[K + 1] = Len(s)
      /\ to \in [1 .. K + 1 -> Nat] /\ to[1] = 0 /\ to[K + 1] = Len(t)
      /\ \A i \in 1 .. K : /\ at[i + 1] = at[i] + Len(ss[i])
                           /\ to[i + 1] = to[i] + Len(ss[i])
                           /\ Len(ss[i]) \in Nat /\ Len(tt[i]) = Len(ss[i])
                           /\ \A j \in 1 .. Len(ss[i]) : /\ ss[i][j] = s[at[i] + j]
                                                         /\ tt[i][j] = t[to[i] + j]
  BY <1>1 DEF Cuts, SameShape
<1>3. \A i \in 1 .. K + 1 : to[i] = at[i]
  <2> DEFINE G == {n \in Nat : n + 1 \in 1 .. K + 1 => to[n + 1] = at[n + 1]}
  <2>1. 0 \in G
    BY <1>2
  <2>2. ASSUME NEW n \in Nat, n \in G PROVE n + 1 \in G
    <3>1. CASE (n + 1) + 1 \in 1 .. K + 1
      <4>1. n + 1 \in 1 .. K /\ n + 1 \in 1 .. K + 1
        BY <3>1
      <4>2. to[n + 1] = at[n + 1]
        BY <4>1, <2>2
      <4>3. /\ at[(n + 1) + 1] = at[n + 1] + Len(ss[n + 1])
            /\ to[(n + 1) + 1] = to[n + 1] + Len(ss[n + 1])
        BY <4>1, <1>2
      <4> QED BY <4>2, <4>3
    <3>2. CASE (n + 1) + 1 \notin 1 .. K + 1
      BY <3>2
    <3> QED BY <3>1, <3>2
  <2>3. \A n \in Nat : n \in G => n + 1 \in G
    BY <2>2
  <2> HIDE DEF G
  <2>4. Nat \subseteq G
    BY <2>1, <2>3, SetInduction
  <2> TAKE i \in 1 .. K + 1
  <2>5. PICK n \in Nat : n + 1 = i
    <3>1. i - 1 \in Nat /\ (i - 1) + 1 = i
      OBVIOUS
    <3> QED BY <3>1
  <2>6. n \in G
    BY <2>4
  <2> QED BY <2>5, <2>6 DEF G
<1>4. /\ \A i \in 1 .. K : \A j \in 1 .. Len(ss[i]) : at[i] + j \in 1 .. Len(s)
      /\ \A m \in 1 .. Len(s) : \E i \in 1 .. K : \E j \in 1 .. Len(ss[i]) : m = at[i] + j
  <2>1. /\ \A i \in 1 .. Len(ss) : \A j \in 1 .. Len(ss[i]) : at[i] + j \in 1 .. Len(s)
        /\ \A m \in 1 .. Len(s) : \E i \in 1 .. Len(ss) : \E j \in 1 .. Len(ss[i]) : m = at[i] + j
    <3>1. s \in Seq(S) /\ ss \in Seq(Seq(S)) /\ Cuts(ss, s, at)
      OBVIOUS
    <3>2. \A i \in 1 .. Len(ss) : \A j \in 1 .. Len(ss[i]) : at[i] + j \in 1 .. Len(s)
      BY ONLY <3>1, CutPlaces
    <3>3. \A m \in 1 .. Len(s) : \E i \in 1 .. Len(ss) : \E j \in 1 .. Len(ss[i]) : m = at[i] + j
      BY ONLY <3>1, CutPlaces, SMTT(30)
    <3> QED BY <3>2, <3>3
  <2> QED BY ONLY <2>1, <1>1
<1>5. Len(t) = Len(s)
  BY <1>2, <1>3
<1>6. \A i \in 1 .. K : \A j \in 1 .. Len(ss[i]) : tt[i][j] = t[at[i] + j] /\ ss[i][j] = s[at[i] + j]
  BY <1>2, <1>3
<1>7. ASSUME NEW k \in 1 .. Len(s)
      PROVE  \E i \in 1 .. K : \E j \in 1 .. Len(ss[i]) : s[k] = ss[i][j] /\ t[k] = tt[i][j]
  <2>1. PICK i \in 1 .. K : \E j \in 1 .. Len(ss[i]) : k = at[i] + j
    BY <1>4
  <2>2. PICK j \in 1 .. Len(ss[i]) : k = at[i] + j
    BY <2>1
  <2> QED BY <2>2, <1>6
<1>8. ASSUME NEW i \in 1 .. K, NEW j \in 1 .. Len(ss[i])
      PROVE  \E k \in 1 .. Len(s) : s[k] = ss[i][j] /\ t[k] = tt[i][j]
  BY <1>4, <1>6
<1>9. \A k \in 1 .. Len(s) :
        \E i \in 1 .. Len(ss) : \E j \in 1 .. Len(ss[i]) : s[k] = ss[i][j] /\ t[k] = tt[i][j]
  BY ONLY <1>1, <1>7
<1>10. \A i \in 1 .. Len(ss) : \A j \in 1 .. Len(ss[i]) :
         \E k \in 1 .. Len(s) : s[k] = ss[i][j] /\ t[k] = tt[i][j]
  BY ONLY <1>1, <1>8
<1> QED BY ONLY <1>5, <1>9, <1>10, Zenon DEF Along

\* Two lists that are cut in the same pieces are the same; so the pieces of a list, end
\* to end, are the list.
LEMMA FlattenOfCuts ==
  ASSUME NEW S, NEW s \in Seq(S), NEW ss \in Seq(Seq(S)), NEW at, Cuts(ss, s, at)
  PROVE  FlattenSeq(ss) = s
<1>1. PICK t \in Seq(S) : t = FlattenSeq(ss) /\ \E to : Cuts(ss, t, to)
  BY FlattenFacts
<1>2. PICK to : Cuts(ss, t, to)
  BY <1>1
<1>3. SameShape(ss, ss)
  BY DEF SameShape
<1>4. Along(s, t, ss, ss)
  BY <1>2, <1>3, CutsAlong
<1>5. Len(t) = Len(s) /\ \A k \in 1 .. Len(s) : t[k] = s[k]
  BY <1>4 DEF Along
<1>6. t = s
  BY <1>5
<1> QED BY <1>1, <1>6

\* Lists of lists of the same shape, end to end, are alike place by place.
LEMMA FlattenAlong ==
  ASSUME NEW S, NEW T, NEW ss \in Seq(Seq(S)), NEW tt \in Seq(Seq(T)), SameShape(ss, tt)
  PROVE  /\ FlattenSeq(ss) \in Seq(S) /\ FlattenSeq(tt) \in Seq(T)
         /\ Along(FlattenSeq(ss), FlattenSeq(tt), ss, tt)
<1>1. PICK s \in Seq(S) : s = FlattenSeq(ss) /\ \E at : Cuts(ss, s, at)
  BY FlattenFacts
<1>2. PICK t \in Seq(T) : t = FlattenSeq(tt) /\ \E to : Cuts(tt, t, to)
  BY FlattenFacts
<1>3. PICK at, to : Cuts(ss, s, at) /\ Cuts(tt, t, to)
  BY <1>1, <1>2
<1>4. Along(s, t, ss, tt)
  BY <1>3, CutsAlong
<1> QED BY <1>1, <1>2, <1>4

\* The elements before a piece are the sum of the lengths before it.
LEMMA SumsAreStarts ==
  ASSUME NEW K \in Nat, NEW at \in [1 .. K + 1 -> Nat], NEW len \in [1 .. K -> Nat],
         Adds(K, at, len)
  PROVE  \A i \in 1 .. K + 1 : SumOver(len, 1 .. i - 1) = at[i]
<1>1. IsFiniteSet(1 .. K) /\ len \in [1 .. K -> Int]
  BY FS_Interval
<1>2. \A s \in SUBSET (1 .. K) : SumsUp(len, s)
  BY ONLY <1>1, SumParts
<1> DEFINE G == {n \in Nat : n + 1 \in 1 .. K + 1 => SumOver(len, 1 .. n) = at[n + 1]}
<1>3. 0 \in G
  <2>1. 1 .. 0 = {}
    OBVIOUS
  <2>2. SumOver(len, 1 .. 0) = 0
    BY <2>1, SumEmpty
  <2> QED BY <2>2 DEF Adds
<1>4. ASSUME NEW n \in Nat, n \in G PROVE n + 1 \in G
  <2>1. CASE (n + 1) + 1 \in 1 .. K + 1
    <3>1. n + 1 \in 1 .. K /\ n + 1 \in 1 .. K + 1
      BY <2>1
    <3>2. SumOver(len, 1 .. n) = at[n + 1]
      BY <3>1, <1>4
    <3>3. at[(n + 1) + 1] = at[n + 1] + len[n + 1]
      BY <3>1 DEF Adds
    <3>4. /\ 1 .. n + 1 \in SUBSET (1 .. K) /\ n + 1 \in 1 .. n + 1
          /\ (1 .. n + 1) \ {n + 1} = 1 .. n
      BY <3>1
    <3>5. SumOver(len, 1 .. n + 1) = len[n + 1] + SumOver(len, (1 .. n + 1) \ {n + 1})
      BY <3>4, <1>2 DEF SumsUp
    <3>6. at[n + 1] \in Nat /\ len[n + 1] \in Nat
      BY <3>1
    <3>7. SumOver(len, 1 .. n + 1) = len[n + 1] + SumOver(len, 1 .. n)
      BY <3>4, <3>5
    <3>8. SumOver(len, 1 .. n + 1) = at[(n + 1) + 1]
      BY ONLY <3>2, <3>3, <3>6, <3>7
    <3> QED BY <3>8
  <2>2. CASE (n + 1) + 1 \notin 1 .. K + 1
    BY <2>2
  <2> QED BY <2>1, <2>2
<1>5. \A n \in Nat : n \in G => n + 1 \in G
  BY <1>4
<1> HIDE DEF G
<1>6. Nat \subseteq G
  BY <1>3, <1>5, SetInduction
<1> TAKE i \in 1 .. K + 1
<1>7. PICK n \in Nat : n = i - 1 /\ n + 1 = i
  <2>1. i - 1 \in Nat /\ (i - 1) + 1 = i
    OBVIOUS
  <2> QED BY <2>1
<1>8. n \in G
  BY <1>6
<1> QED BY <1>7, <1>8 DEF G

\* What a function makes of each element, of a list and of a list of lists.
ValuesOn(h, S) == {h[x] : x \in S}
Each(h, s) == [i \in DOMAIN s |-> h[s[i]]]
EachOf(h, ss) == [i \in DOMAIN ss |-> Each(h, ss[i])]
Lens(ss) == [i \in DOMAIN ss |-> Len(ss[i])]

\* A function of each element leaves a list as long.
LEMMA EachFacts ==
  ASSUME NEW S, NEW s \in Seq(S), NEW h
  PROVE  /\ Each(h, s) \in Seq(ValuesOn(h, S)) /\ Len(Each(h, s)) = Len(s)
         /\ DOMAIN Each(h, s) = DOMAIN s
<1>1. Len(s) \in Nat /\ DOMAIN s = 1 .. Len(s) /\ \A i \in 1 .. Len(s) : s[i] \in S
  OBVIOUS
<1>2. Each(h, s) = [i \in 1 .. Len(s) |-> h[s[i]]]
  BY <1>1 DEF Each
<1>3. \A i \in 1 .. Len(s) : h[s[i]] \in ValuesOn(h, S)
  BY <1>1 DEF ValuesOn
<1> QED BY <1>1, <1>2, <1>3

\* A function of each element of each list leaves lists of the same shape.
LEMMA EachOfFacts ==
  ASSUME NEW S, NEW ss \in Seq(Seq(S)), NEW h
  PROVE  /\ EachOf(h, ss) \in Seq(Seq(ValuesOn(h, S))) /\ SameShape(ss, EachOf(h, ss))
         /\ Lens(EachOf(h, ss)) = Lens(ss)
<1>1. PICK K \in Nat : K = Len(ss) /\ DOMAIN ss = 1 .. K /\ \A i \in 1 .. K : ss[i] \in Seq(S)
  OBVIOUS
<1>2. PICK T : T = ValuesOn(h, S)
  OBVIOUS
<1>3. \A i \in 1 .. K : Each(h, ss[i]) \in Seq(T) /\ Len(Each(h, ss[i])) = Len(ss[i])
  <2> TAKE i \in 1 .. K
  <2>1. ss[i] \in Seq(S)
    BY <1>1
  <2>2. Each(h, ss[i]) \in Seq(ValuesOn(h, S)) /\ Len(Each(h, ss[i])) = Len(ss[i])
    BY ONLY <2>1, EachFacts
  <2> QED BY <2>2, <1>2
<1>4. PICK tt : tt = EachOf(h, ss)
  OBVIOUS
<1>5. DOMAIN tt = 1 .. K /\ tt = [i \in 1 .. K |-> Each(h, ss[i])]
  BY <1>1, <1>4 DEF EachOf
<1>6. tt \in Seq(Seq(T)) /\ Len(tt) = K
  BY ONLY <1>3, <1>5, <1>1
<1>7. \A i \in 1 .. K : Len(tt[i]) = Len(ss[i])
  BY <1>3, <1>5
<1>8. SameShape(ss, tt)
  BY <1>1, <1>6, <1>7 DEF SameShape
<1>9. Lens(tt) = Lens(ss)
  BY <1>1, <1>5, <1>7 DEF Lens
<1> QED BY <1>2, <1>4, <1>6, <1>8, <1>9

\* A function of each element, piece by piece and end to end, is the function of each
\* element of the list: cutting it in batches does not show.
LEMMA EachEndToEnd ==
  ASSUME NEW S, NEW ss \in Seq(Seq(S)), NEW h
  PROVE  FlattenSeq(EachOf(h, ss)) = Each(h, FlattenSeq(ss))
<1>1. PICK T : T = ValuesOn(h, S)
  OBVIOUS
<1>2. PICK tt \in Seq(Seq(T)) : tt = EachOf(h, ss) /\ SameShape(ss, tt)
  BY <1>1, EachOfFacts
<1>3. PICK s \in Seq(S) : s = FlattenSeq(ss)
  BY FlattenFacts
<1>4. PICK t \in Seq(T) : t = FlattenSeq(tt)
  BY FlattenFacts
<1>5. Along(s, t, ss, tt)
  BY <1>2, <1>3, <1>4, FlattenAlong
<1>6. \A i \in 1 .. Len(ss) : \A j \in 1 .. Len(ss[i]) : tt[i][j] = h[ss[i][j]]
  <2> TAKE i \in 1 .. Len(ss)
  <2> TAKE j \in 1 .. Len(ss[i])
  <2>1. DOMAIN ss = 1 .. Len(ss) /\ ss[i] \in Seq(S) /\ DOMAIN ss[i] = 1 .. Len(ss[i])
    OBVIOUS
  <2> QED BY <2>1, <1>2 DEF EachOf, Each
<1>7. Len(t) = Len(s) /\ \A k \in 1 .. Len(s) : t[k] = h[s[k]]
  <2>1. /\ Len(t) = Len(s)
        /\ \A k \in 1 .. Len(s) : \E i \in 1 .. Len(ss) : \E j \in 1 .. Len(ss[i]) :
             s[k] = ss[i][j] /\ t[k] = tt[i][j]
    BY <1>5 DEF Along
  <2> QED BY ONLY <2>1, <1>6
<1>8. t = Each(h, s)
  BY <1>7 DEF Each
<1> QED BY <1>2, <1>3, <1>4, <1>8

\* make_batch loses and repeats nothing: its batches, end to end, are the list.
LEMMA BatchesEndToEnd ==
  ASSUME NEW S, NEW s \in Seq(S), NEW n \in Nat \ {0}
  PROVE  MakeBatch(s, n) \in Seq(Seq(S)) /\ FlattenSeq(MakeBatch(s, n)) = s
<1>1. PICK b : b = MakeBatch(s, n)
  OBVIOUS
<1>2. Pieces(b, s, S)
  BY <1>1, MakeBatchFacts
<1>3. PICK at : Cuts(b, s, at)
  BY <1>2 DEF Pieces
<1>4. b \in Seq(Seq(S))
  BY <1>2 DEF Pieces
<1>5. FlattenSeq(b) = s
  BY <1>3, <1>4, FlattenOfCuts
<1> QED BY <1>1, <1>4, <1>5

\* Ranks by a number, the larger first and what is as large in its place: no two places
\* have the same, so every rank is some place's.
LEMMA Ranks ==
  ASSUME NEW n \in Nat, NEW key \in [1 .. n -> Int]
  PROVE  \A k \in 1 .. n : \E i \in 1 .. n :
           Cardinality({j \in 1 .. n : key[j] > key[i] \/ (j <= i /\ ~(key[i] > key[j]))}) = k
<1> DEFINE First(i) == {j \in 1 .. n : key[j] > key[i] \/ (j <= i /\ ~(key[i] > key[j]))}
           rank == [i \in 1 .. n |-> Cardinality(First(i))]
<1>1. IsFiniteSet(1 .. n) /\ Cardinality(1 .. n) = n
  BY FS_Interval
<1>2. \A i \in 1 .. n : i \in First(i) /\ First(i) \in SUBSET (1 .. n)
  OBVIOUS
<1>3. \A i, j \in 1 .. n : i # j => \/ First(i) \in SUBSET First(j) /\ j \notin First(i)
                                    \/ First(j) \in SUBSET First(i) /\ i \notin First(j)
  <2> TAKE i, j \in 1 .. n
  <2> HAVE i # j
  <2>1. key[i] \in Int /\ key[j] \in Int /\ i \in Int /\ j \in Int
    OBVIOUS
  <2>2. ASSUME NEW a \in 1 .. n, NEW b \in 1 .. n, a # b, key[b] > key[a] \/ (key[a] = key[b] /\ b < a)
        PROVE  First(b) \in SUBSET First(a) /\ a \notin First(b)
    <3>1. ASSUME NEW x \in 1 .. n, x \in First(b) PROVE x \in First(a)
      <4>1. key[x] \in Int /\ key[a] \in Int /\ key[b] \in Int
        OBVIOUS
      <4> QED BY <2>2, <3>1, <4>1
    <3>2. key[a] \in Int /\ key[b] \in Int
      OBVIOUS
    <3>3. a \notin First(b)
      BY <2>2, <3>2
    <3> HIDE DEF First
    <3> QED BY <3>1, <3>3, <1>2
  <2>3. \/ key[j] > key[i] \/ (key[i] = key[j] /\ j < i)
        \/ key[i] > key[j] \/ (key[j] = key[i] /\ i < j)
    BY <2>1
  <2> HIDE DEF First
  <2> QED BY <2>2, <2>3
<1> HIDE DEF First
<1>4. \A i \in 1 .. n : IsFiniteSet(First(i)) /\ Cardinality(First(i)) \in 1 .. n
  <2> TAKE i \in 1 .. n
  <2>1. IsFiniteSet(First(i)) /\ Cardinality(First(i)) <= n
    BY <1>1, <1>2, FS_Subset
  <2>2. Cardinality(First(i)) \in Nat /\ Cardinality(First(i)) # 0
    BY <2>1, <1>2, FS_CardinalityType, FS_EmptySet
  <2> QED BY <2>1, <2>2
<1>5. rank \in [1 .. n -> 1 .. n]
  BY <1>4
<1>6. \A i, j \in 1 .. n : rank[i] = rank[j] => i = j
  <2> TAKE i, j \in 1 .. n
  <2> HAVE rank[i] = rank[j]
  <2>1. Cardinality(First(i)) = Cardinality(First(j))
    OBVIOUS
  <2>2. First(i) \in SUBSET First(j) => First(i) = First(j)
    BY <2>1, <1>4, FS_Subset
  <2>3. First(j) \in SUBSET First(i) => First(i) = First(j)
    BY <2>1, <1>4, FS_Subset
  <2> QED BY <2>2, <2>3, <1>2, <1>3
<1>7. rank \in Injection(1 .. n, 1 .. n)
  <2>1. IsInjective(rank)
    BY <1>5, <1>6 DEF IsInjective
  <2> QED BY <2>1, <1>5 DEF Injection
<1>8. rank \in Surjection(1 .. n, 1 .. n)
  BY <1>1, <1>7, FS_Injection
<1>9. \A k \in 1 .. n : \E i \in 1 .. n : rank[i] = k
  BY <1>8 DEF Surjection
<1> QED BY <1>9 DEF First

\* A piece from within a list is as long as was asked, and starts where it was asked to.
LEMMA SubSeqPiece ==
  ASSUME NEW S, NEW s \in Seq(S), NEW a \in Nat, NEW l \in Nat, a + l <= Len(s)
  PROVE  /\ SubSeq(s, a + 1, a + l) \in Seq(S) /\ Len(SubSeq(s, a + 1, a + l)) = l
         /\ \A j \in 1 .. l : SubSeq(s, a + 1, a + l)[j] = s[a + j]
<1>1. PICK m \in Int : m = a + 1
  OBVIOUS
<1>2. PICK e \in Int : e = a + l
  OBVIOUS
<1>3. \A x \in m .. e : s[x] \in S
  <2>1. \A x \in m .. e : x \in 1 .. Len(s)
    BY <1>1, <1>2
  <2> QED BY <2>1
<1>4. /\ SubSeq(s, m, e) \in Seq(S) /\ Len(SubSeq(s, m, e)) = IF m <= e THEN e - m + 1 ELSE 0
      /\ \A j \in 1 .. e - m + 1 : SubSeq(s, m, e)[j] = s[m + j - 1]
  BY <1>3, SubSeqProperties
<1>5. e - m + 1 = l /\ (m <= e \/ l = 0) /\ \A j \in 1 .. l : m + j - 1 = a + j
  BY <1>1, <1>2
<1> QED BY <1>1, <1>2, <1>4, <1>5
=============================================================================
