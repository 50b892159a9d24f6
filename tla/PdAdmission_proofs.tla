------------------------- MODULE PdAdmission_proofs -------------------------
(***************************************************************************)
(* What the gates of PdAdmission guarantee for every number of requests    *)
(* and every limit.  The argument is an account kept per gate: whoever     *)
(* moves a request from place to place gives back, takes or hands on       *)
(* exactly the permits by which the two places differ.                     *)
(***************************************************************************)
EXTENDS PdAdmission, FiniteSetTheorems, SequenceLemmas, TLAPS

\* A line holds requests that wait at its gate, each of them once.
LineInv ==
    /\ line \in [Gates -> Seq(Requests)]
    /\ \A g \in Gates : \A i \in DOMAIN line[g] : pc[line[g][i]] = g
    /\ \A g \in Gates : \A i, j \in DOMAIN line[g] :
          line[g][i] = line[g][j] => i = j

\* Only waiters are granted permits.
GrantInv ==
    /\ granted \in SUBSET Requests
    /\ \A q \in granted : pc[q] \in Gates

\* Only a request between its prefill and the fetch pins blocks.
PinInv ==
    \A q \in ready :
        q \in Requests /\ pc[q] \in HeldAt["prefill"] \cup HeldAt["decode"]

IInv ==
    /\ pc \in [Requests -> Places]
    /\ free \in [Gates -> Nat]
    /\ LineInv
    /\ GrantInv
    /\ PinInv
    /\ PermitsConserved

-----------------------------------------------------------------------------
\* The places of a request at the gates, written out.
LEMMA Tables ==
  /\ Gates = {"stage", "prefill", "decode"}
  /\ \A g \in Gates : Before[g] \notin Gates /\ After[g] \notin Gates
  /\ \A g \in Gates : Before[g] \in Places /\ After[g] \in Places
  /\ HeldAt["stage"] = {"staged", "prefill", "prefilling", "prefilled", "decode",
                        "decoding"}
  /\ HeldAt["prefill"] = {"prefilling", "prefilled", "decode"}
  /\ HeldAt["decode"] = {"decoding"}
  /\ Before["stage"] = "new" /\ After["stage"] = "staged"
  /\ Before["prefill"] = "staged" /\ After["prefill"] = "prefilling"
  /\ Before["decode"] = "prefilled" /\ After["decode"] = "decoding"
  BY DEF Gates, HeldAt, Before, After, Places, Posting, Ended

\* A request that leaves the gate it may wait at leaves the lines in order.
LEMMA LeavesKeepsLines ==
  ASSUME pc \in [Requests -> Places], LineInv,
         NEW q \in Requests, NEW place \in Places \ Gates,
         pc' = [pc EXCEPT ![q] = place], Leaves(q)
  PROVE  LineInv'
  <1>1. CASE pc[q] \notin Gates /\ UNCHANGED line
    BY <1>1, ElementOfSeq, LenProperties DEF LineInv
  <1>2. CASE pc[q] \in Gates
    <2>1. PICK i \in DOMAIN line[pc[q]] :
            /\ line[pc[q]][i] = q
            /\ line' = [line EXCEPT ![pc[q]] = RemoveAt(@, i)]
      BY <1>2 DEF Leaves
    <2> DEFINE old == line[pc[q]]
               short == RemoveAt(old, i)
    <2>2. /\ short \in Seq(Requests)
          /\ \A j \in DOMAIN short : \E k \in DOMAIN old : short[j] = old[k] /\ k # i
          /\ \A j, k \in DOMAIN short : short[j] = short[k] => j = k
      BY <1>2, RemoveAtKeeps DEF LineInv
    <2> HIDE DEF short
    <2>3. line' = [line EXCEPT ![pc[q]] = short]
      BY <2>1 DEF short
    <2>4. \A j \in DOMAIN short : short[j] # q /\ short[j] \in Requests
                                    /\ pc[short[j]] = pc[q]
      BY <1>2, <2>1, <2>2, ElementOfSeq, LenProperties DEF LineInv
    <2>5. \A g \in Gates : g # pc[q] =>
            line'[g] = line[g] /\ \A j \in DOMAIN line[g] :
                                     line[g][j] # q /\ line[g][j] \in Requests
      BY <2>3, ElementOfSeq, LenProperties DEF LineInv
    <2>6. line'[pc[q]] = short
      BY <1>2, <2>3 DEF LineInv
    <2>7. line' \in [Gates -> Seq(Requests)]
      BY <2>2, <2>3 DEF LineInv
    <2>8. \A g \in Gates : \A j \in DOMAIN line'[g] : pc'[line'[g][j]] = g
      <3> SUFFICES ASSUME NEW g \in Gates, NEW j \in DOMAIN line'[g]
                   PROVE  pc'[line'[g][j]] = g
        OBVIOUS
      <3>1. CASE g = pc[q]
        BY <3>1, <2>4, <2>6
      <3>2. CASE g # pc[q]
        BY <3>2, <2>5 DEF LineInv
      <3> QED BY <3>1, <3>2
    <2>9. \A g \in Gates : \A j, k \in DOMAIN line'[g] :
            line'[g][j] = line'[g][k] => j = k
      <3> SUFFICES ASSUME NEW g \in Gates
                   PROVE  \A j, k \in DOMAIN line'[g] :
                            line'[g][j] = line'[g][k] => j = k
        OBVIOUS
      <3>1. CASE g = pc[q]
        BY <3>1, <2>2, <2>6
      <3>2. CASE g # pc[q]
        BY <3>2, <2>5 DEF LineInv
      <3> QED BY <3>1, <3>2
    <2> QED BY <2>7, <2>8, <2>9 DEF LineInv
  <1> QED BY <1>1, <1>2 DEF Leaves

\* A waiter leaves a set of waiters and others join it.
LEMMA LeaveAndJoin ==
  ASSUME NEW A, NEW W, NEW q, IsFiniteSet(A), IsFiniteSet(W), W \cap A = {}
  PROVE  Cardinality((A \ {q}) \cup W)
           = (IF q \in A THEN Cardinality(A) - 1 ELSE Cardinality(A)) + Cardinality(W)
  <1>1. Cardinality(A) \in Nat /\ Cardinality(W) \in Nat
    BY FS_CardinalityType
  <1>2. /\ IsFiniteSet(A \ {q})
        /\ Cardinality(A \ {q}) = IF q \in A THEN Cardinality(A) - 1 ELSE Cardinality(A)
    BY FS_RemoveElement
  <1>3. Cardinality((A \ {q}) \cap W) = 0
    <2>1. (A \ {q}) \cap W = {}
      OBVIOUS
    <2> QED BY <2>1, FS_EmptySet
  <1>4. Cardinality((A \ {q}) \cup W)
          = Cardinality(A \ {q}) + Cardinality(W) - Cardinality((A \ {q}) \cap W)
    BY <1>2, FS_Union
  <1>5. Cardinality(A \ {q}) \in Nat
    BY <1>2, FS_CardinalityType
  <1> QED BY <1>1, <1>2, <1>3, <1>4, <1>5

\* What a request gives back and takes is what the places it moves between
\* differ by.
Balanced(q, place, back, taken) ==
    \A g \in Gates :
        Delta(g \in back) - Delta(g \in taken) - Delta(q \in granted /\ pc[q] = g)
          = Delta(pc[q] \in HeldAt[g]) - Delta(place \in HeldAt[g])

\* It takes only what is free.
Takes(taken) == \A g \in Gates : g \in taken => free[g] > 0

\* Permits that change hands as a request moves on from q's place stay
\* accounted for, if the request gives back and takes what the two places
\* differ by.
LEMMA PermitsBalance ==
  ASSUME IInv, LineInv',
         NEW q \in Requests, NEW place \in Places \ Gates,
         pc' = [pc EXCEPT ![q] = place],
         NEW back, NEW taken, NEW left,
         Permits(q, back, taken, left),
         Balanced(q, place, back, taken), Takes(taken)
  PROVE  free' \in [Gates -> Nat] /\ GrantInv' /\ PermitsConserved'
  <1> DEFINE add   == [g \in Gates |-> Delta(g \in back) - Delta(g \in taken)]
             wakes == [g \in Gates |-> IF g \in left THEN free[g] + add[g]
                                                     ELSE Delta(g \in back)]
  <1>1. PICK s \in Woken(line'["stage"], wakes["stage"]),
             p \in Woken(line'["prefill"], wakes["prefill"]),
             d \in Woken(line'["decode"], wakes["decode"]) :
          /\ granted' = (granted \ {q}) \cup s \cup p \cup d
          /\ free' = [free EXCEPT
                        !["stage"]   = @ + add["stage"] - Cardinality(s),
                        !["prefill"] = @ + add["prefill"] - Cardinality(p),
                        !["decode"]  = @ + add["decode"] - Cardinality(d)]
    BY DEF Permits
  <1> DEFINE W(g) == IF g = "stage" THEN s ELSE IF g = "prefill" THEN p ELSE d
  <1>2. \A g \in Gates : /\ W(g) \in Woken(line'[g], wakes[g])
                         /\ free'[g] = free[g] + add[g] - Cardinality(W(g))
    BY <1>1 DEF Gates, IInv
  <1>3. granted' = (granted \ {q}) \cup UNION {W(g) : g \in Gates}
    BY <1>1 DEF Gates
  <1>4. free' = [g \in Gates |-> free'[g]]
    BY <1>1 DEF IInv
  <1> HIDE DEF W
  <1>5. \A g \in Gates : \A r \in W(g) :
          r \in Requests /\ pc'[r] = g /\ r \notin granted
    <2> SUFFICES ASSUME NEW g \in Gates, NEW r \in W(g)
                 PROVE  r \in Requests /\ pc'[r] = g /\ r \notin granted
      OBVIOUS
    <2>1. r \in Pending(line'[g])
      BY <1>2 DEF Woken
    <2>2. PICK i \in DOMAIN line'[g] : r = line'[g][i]
      BY <2>1 DEF Pending
    <2> QED BY <2>1, <2>2, ElementOfSeq, LenProperties DEF LineInv, Pending
  <1>6. \A g \in Gates : /\ IsFiniteSet(W(g))
                         /\ Cardinality(W(g)) \in Nat
                         /\ Cardinality(W(g)) <= wakes[g]
    <2> SUFFICES ASSUME NEW g \in Gates
                 PROVE  /\ IsFiniteSet(W(g))
                        /\ Cardinality(W(g)) \in Nat
                        /\ Cardinality(W(g)) <= wakes[g]
      OBVIOUS
    <2>1. W(g) \subseteq Requests
      BY <1>5
    <2> QED BY <2>1, <1>2, FS_Subset, FS_CardinalityType, PdAdmissionAssumption
            DEF PdAdmissionAssumption, Woken
  <1>7. \A g \in Gates : free'[g] \in Nat
    BY <1>2, <1>6 DEF IInv, Delta, Takes
  <1>8. GrantInv'
    <2> SUFFICES ASSUME NEW r \in granted' PROVE r \in Requests /\ pc'[r] \in Gates
      BY DEF GrantInv
    <2>1. CASE r \in granted \ {q}
      BY <2>1 DEF IInv, GrantInv
    <2>2. CASE \E g \in Gates : r \in W(g)
      BY <2>2, <1>5
    <2> QED BY <1>3, <2>1, <2>2
  <1>9. ASSUME NEW g \in Gates
        PROVE  free'[g] + Cardinality((granted \cap Waiting(g))')
                  + Cardinality(Holders(g)') = Limit[g]
    <2> DEFINE A == granted \cap Waiting(g)
               H == Holders(g)
    <2>1. IsFiniteSet(A) /\ IsFiniteSet(H)
      BY FS_Subset, PdAdmissionAssumption DEF PdAdmissionAssumption, Waiting, Holders
    <2>2. W(g) \cap A = {}
      BY <1>5
    <2>3. (granted \cap Waiting(g))' = (A \ {q}) \cup W(g)
      <3>1. ASSUME NEW r \in Requests, r \in granted', pc'[r] = g
            PROVE  r \in (A \ {q}) \cup W(g)
        <4>1. r # q
          BY <3>1 DEF IInv
        <4>2. CASE r \in granted
          BY <3>1, <4>1, <4>2 DEF IInv, Waiting
        <4>3. CASE r \notin granted
          BY <1>3, <1>5, <3>1, <4>3
        <4> QED BY <4>2, <4>3
      <3>2. ASSUME NEW r \in (A \ {q}) \cup W(g)
            PROVE  r \in Requests /\ r \in granted' /\ pc'[r] = g
        BY <1>3, <1>5, <3>2 DEF IInv, Waiting
      <3> QED BY <3>1, <3>2 DEF Waiting
    <2>4. Holders(g)' = IF place \in HeldAt[g] THEN H \cup {q} ELSE H \ {q}
      BY DEF Holders, IInv
    <2>5. /\ q \in A <=> (q \in granted /\ pc[q] = g)
          /\ q \in H <=> pc[q] \in HeldAt[g]
      BY DEF Waiting, Holders
    <2> HIDE DEF A, H
    <2>6. PICK w \in {0, 1}, h \in {0, 1}, k \in {0, 1}, b \in {0, 1}, t \in {0, 1} :
            /\ w = Delta(q \in granted /\ pc[q] = g) /\ (w = 1 <=> q \in A)
            /\ h = Delta(pc[q] \in HeldAt[g]) /\ (h = 1 <=> q \in H)
            /\ k = Delta(place \in HeldAt[g]) /\ (k = 1 <=> place \in HeldAt[g])
            /\ b = Delta(g \in back)
            /\ t = Delta(g \in taken)
      BY <2>5 DEF Delta
    <2>7. /\ Cardinality((A \ {q}) \cup W(g)) = Cardinality(A) - w + Cardinality(W(g))
          /\ Cardinality(A) \in Nat /\ Cardinality(H) \in Nat /\ Cardinality(W(g)) \in Nat
      <3>1. Cardinality((A \ {q}) \cup W(g))
               = (IF q \in A THEN Cardinality(A) - 1 ELSE Cardinality(A)) + Cardinality(W(g))
        BY <1>6, <2>1, <2>2, LeaveAndJoin
      <3>2. Cardinality(A) \in Nat /\ Cardinality(H) \in Nat /\ Cardinality(W(g)) \in Nat
        BY <1>6, <2>1, FS_CardinalityType
      <3> QED BY <2>6, <3>1, <3>2
    <2>8. Cardinality(Holders(g)') = Cardinality(H) - h + k
      <3>1. /\ Cardinality(H \ {q}) = IF q \in H THEN Cardinality(H) - 1 ELSE Cardinality(H)
            /\ Cardinality(H \cup {q}) = IF q \in H THEN Cardinality(H) ELSE Cardinality(H) + 1
        BY <2>1, FS_RemoveElement, FS_AddElement
      <3> QED BY <2>4, <2>6, <2>7, <3>1
    <2>9. free[g] + Cardinality(A) + Cardinality(H) = Limit[g]
      BY DEF IInv, PermitsConserved, A, H
    <2>10. free[g] \in Nat /\ free'[g] = free[g] + (b - t) - Cardinality(W(g))
      BY <1>2, <2>6 DEF IInv
    <2>11. b - t - w = h - k
      BY <2>6 DEF Balanced
    <2>12. Cardinality((granted \cap Waiting(g))')
             = Cardinality(A) - w + Cardinality(W(g))
      BY <2>3, <2>7
    <2>13. PICK na \in Nat, nh \in Nat, nw \in Nat :
             na = Cardinality(A) /\ nh = Cardinality(H) /\ nw = Cardinality(W(g))
      BY <2>7
    <2>14. free'[g] + (na - w + nw) + (nh - h + k) = free[g] + na + nh
      BY <2>10, <2>11, <2>13
    <2> QED BY <2>8, <2>9, <2>12, <2>13, <2>14
  <1>10. PermitsConserved'
    BY <1>9 DEF PermitsConserved, Limit
  <1> QED BY <1>4, <1>7, <1>8, <1>10

-----------------------------------------------------------------------------
\* The invariant holds initially.
LEMMA InitIInv == Init => IInv
  <1> SUFFICES ASSUME Init PROVE IInv
    OBVIOUS
  <1>1. pc \in [Requests -> Places] /\ free \in [Gates -> Nat]
    BY PdAdmissionAssumption
    DEF PdAdmissionAssumption, Init, Places, Gates, Limit, PrefillFeederSlots
  <1>2. LineInv
    <2>1. <<>> \in Seq(Requests) /\ DOMAIN <<>> = {}
      BY EmptySeq, LenProperties
    <2> QED BY <2>1 DEF Init, LineInv
  <1>3. GrantInv /\ PinInv
    BY DEF Init, GrantInv, PinInv
  <1>4. PermitsConserved
    <2> SUFFICES ASSUME NEW g \in Gates
                 PROVE  free[g] + Cardinality(granted \cap Waiting(g))
                          + Cardinality(Holders(g)) = Limit[g]
      BY DEF PermitsConserved
    <2>1. granted \cap Waiting(g) = {}
      BY DEF Init
    <2>2. Holders(g) = {}
      BY Tables DEF Init, Holders
    <2> QED BY <1>1, <2>1, <2>2, FS_EmptySet DEF Init
  <1> QED BY <1>1, <1>2, <1>3, <1>4 DEF IInv

\* What neither moves a request nor touches a permit only has to keep the pins.
LEMMA PinSteps ==
  ASSUME IInv, PinInv', UNCHANGED <<pc, free, line, granted>>
  PROVE  IInv'
  BY DEF IInv, LineInv, GrantInv, PermitsConserved, Waiting, Holders

\* A request may move between two places at which it holds the same permits,
\* if it is granted none.
LEMMA SameHoldings ==
  ASSUME IInv, NEW q \in Requests \ granted, NEW place \in Places,
         pc' = [pc EXCEPT ![q] = place],
         \A g \in Gates : pc[q] \in HeldAt[g] <=> place \in HeldAt[g],
         UNCHANGED <<free, granted>>
  PROVE  PermitsConserved'
  <1> SUFFICES ASSUME NEW g \in Gates
               PROVE  free'[g] + Cardinality((granted \cap Waiting(g))')
                        + Cardinality(Holders(g)') = Limit[g]
    BY DEF PermitsConserved, Limit
  <1>1. (granted \cap Waiting(g))' = granted \cap Waiting(g)
    BY DEF IInv, Waiting
  <1>2. Holders(g)' = Holders(g)
    BY DEF IInv, Holders
  <1> QED BY <1>1, <1>2 DEF IInv, PermitsConserved

\* Joining a line keeps the invariant.
LEMMA JoinKeepsIInv ==
  ASSUME IInv, NEW q \in Requests, NEW g \in Gates, Join(q, g)
  PROVE  IInv'
  <1>1. /\ pc[q] = Before[g]
        /\ pc' = [pc EXCEPT ![q] = g]
        /\ line' = [line EXCEPT ![g] = Append(@, q)]
        /\ UNCHANGED <<ready, free, granted>>
    BY DEF Join
  <1>2. pc[q] \notin Gates /\ q \notin granted
    BY <1>1, Tables DEF IInv, GrantInv
  <1>3. pc' \in [Requests -> Places]
    BY <1>1 DEF IInv, Places
  <1>4. LineInv'
    <2> DEFINE old == line[g]
               new == Append(old, q)
    <2>1. /\ old \in Seq(Requests) /\ Len(old) \in Nat /\ DOMAIN old = 1..Len(old)
      BY LenProperties DEF IInv, LineInv
    <2>2. /\ new \in Seq(Requests)
          /\ DOMAIN new = 1..(Len(old) + 1)
          /\ \A i \in 1..Len(old) : new[i] = old[i]
          /\ new[Len(old) + 1] = q
      BY <2>1, AppendProperties, LenProperties
    <2>3. \A h \in Gates : \A i \in DOMAIN line[h] : line[h][i] # q /\ line[h][i] \in Requests
      BY <1>2, ElementOfSeq, LenProperties DEF IInv, LineInv
    <2>4. line'[g] = new /\ \A h \in Gates : h # g => line'[h] = line[h]
      BY <1>1 DEF IInv, LineInv
    <2> HIDE DEF new
    <2>5. line' \in [Gates -> Seq(Requests)]
      BY <1>1, <2>2 DEF IInv, LineInv, new
    <2>6. \A h \in Gates : \A i \in DOMAIN line'[h] : pc'[line'[h][i]] = h
      <3> SUFFICES ASSUME NEW h \in Gates, NEW i \in DOMAIN line'[h]
                   PROVE  pc'[line'[h][i]] = h
        OBVIOUS
      <3>1. CASE h # g
        BY <1>1, <2>3, <2>4, <3>1 DEF IInv, LineInv
      <3>2. CASE h = g /\ i = Len(old) + 1
        BY <1>1, <2>2, <2>4, <3>2 DEF IInv
      <3>3. CASE h = g /\ i \in 1..Len(old)
        BY <1>1, <2>1, <2>2, <2>3, <2>4, <3>3 DEF IInv, LineInv
      <3>4. h = g => i = Len(old) + 1 \/ i \in 1..Len(old)
        BY <2>1, <2>2, <2>4
      <3> QED BY <3>1, <3>2, <3>3, <3>4
    <2>7. \A h \in Gates : \A i, j \in DOMAIN line'[h] :
             line'[h][i] = line'[h][j] => i = j
      <3> SUFFICES ASSUME NEW h \in Gates, NEW i \in DOMAIN line'[h],
                          NEW j \in DOMAIN line'[h], line'[h][i] = line'[h][j]
                   PROVE  i = j
        OBVIOUS
      <3>1. CASE h # g
        BY <2>4, <3>1 DEF IInv, LineInv
      <3>2. CASE h = g
        <4>1. /\ i = Len(old) + 1 \/ i \in 1..Len(old)
              /\ j = Len(old) + 1 \/ j \in 1..Len(old)
          BY <2>1, <2>2, <2>4, <3>2
        <4>2. CASE i \in 1..Len(old) /\ j \in 1..Len(old)
          BY <2>1, <2>2, <2>4, <3>2, <4>2 DEF IInv, LineInv
        <4>3. CASE i = Len(old) + 1 \/ j = Len(old) + 1
          BY <2>1, <2>2, <2>3, <2>4, <3>2, <4>1, <4>3
        <4> QED BY <4>1, <4>2, <4>3
      <3> QED BY <3>1, <3>2
    <2> QED BY <2>5, <2>6, <2>7 DEF LineInv
  <1>5. GrantInv'
    BY <1>1, <1>2 DEF IInv, GrantInv
  <1>6. \A h \in Gates : pc[q] \in HeldAt[h] <=> g \in HeldAt[h]
    BY <1>1, Tables
  <1>7. PinInv'
    BY <1>1, <1>6, Tables DEF IInv, PinInv
  <1>8. PermitsConserved'
    BY <1>1, <1>2, <1>6, SameHoldings DEF Places
  <1> QED BY <1>1, <1>3, <1>4, <1>5, <1>7, <1>8 DEF IInv

\* Taking a permit at once keeps the invariant.
LEMMA PassKeepsIInv ==
  ASSUME IInv, NEW q \in Requests, NEW g \in Gates, Pass(q, g)
  PROVE  IInv'
  <1>1. /\ pc[q] = Before[g]
        /\ pc' = [pc EXCEPT ![q] = After[g]]
        /\ UNCHANGED <<ready, line>>
        /\ Permits(q, HandedBack(g), {g}, {})
        /\ free[g] # 0
    BY DEF Pass, Locked
  <1>2. After[g] \in Places \ Gates /\ pc[q] \notin Gates
    BY <1>1, Tables
  <1>3. pc' \in [Requests -> Places]
    BY <1>1, <1>2 DEF IInv
  <1>4. LineInv'
    BY <1>1, <1>2, LeavesKeepsLines DEF IInv, Leaves
  <1>5. Balanced(q, After[g], HandedBack(g), {g})
    <2>1. \A h \in Gates : ~(q \in granted /\ pc[q] = h)
      BY <1>2
    <2>2. CASE g = "stage"
      BY <1>1, <2>1, <2>2, Tables DEF Balanced, Delta, HandedBack
    <2>3. CASE g = "prefill"
      BY <1>1, <2>1, <2>3, Tables DEF Balanced, Delta, HandedBack
    <2>4. CASE g = "decode"
      BY <1>1, <2>1, <2>4, Tables DEF Balanced, Delta, HandedBack
    <2> QED BY <2>2, <2>3, <2>4 DEF Gates
  <1>6. Takes({g})
    BY <1>1 DEF IInv, Takes
  <1>7. free' \in [Gates -> Nat] /\ GrantInv' /\ PermitsConserved'
    BY <1>1, <1>2, <1>4, <1>5, <1>6, PermitsBalance
  <1>8. PinInv'
    BY <1>1, Tables DEF IInv, PinInv, Gates
  <1> QED BY <1>3, <1>4, <1>7, <1>8 DEF IInv

\* Going on with a granted permit keeps the invariant.
LEMMA ResumeKeepsIInv ==
  ASSUME IInv, NEW q \in Requests, NEW g \in Gates, Resume(q, g)
  PROVE  IInv'
  <1>1. /\ pc[q] = g
        /\ q \in granted
        /\ pc' = [pc EXCEPT ![q] = After[g]]
        /\ Leaves(q)
        /\ UNCHANGED ready
        /\ Permits(q, HandedBack(g), {}, {g})
    BY DEF Resume
  <1>2. After[g] \in Places \ Gates
    BY Tables
  <1>3. pc' \in [Requests -> Places]
    BY <1>1, <1>2 DEF IInv
  <1>4. LineInv'
    BY <1>1, <1>2, LeavesKeepsLines DEF IInv
  <1>5. Takes({}) /\ Balanced(q, After[g], HandedBack(g), {})
    <2>0. Takes({})
      BY DEF Takes
    <2>1. CASE g = "stage"
      BY <1>1, <2>0, <2>1, Tables DEF Balanced, Delta, HandedBack
    <2>2. CASE g = "prefill"
      BY <1>1, <2>0, <2>2, Tables DEF Balanced, Delta, HandedBack
    <2>3. CASE g = "decode"
      BY <1>1, <2>0, <2>3, Tables DEF Balanced, Delta, HandedBack
    <2> QED BY <2>1, <2>2, <2>3 DEF Gates
  <1>6. free' \in [Gates -> Nat] /\ GrantInv' /\ PermitsConserved'
    BY <1>1, <1>2, <1>4, <1>5, PermitsBalance
  <1>7. PinInv'
    BY <1>1, Tables DEF IInv, PinInv, Gates
  <1> QED BY <1>3, <1>4, <1>6, <1>7 DEF IInv

\* The end of a request keeps the invariant, if it gives back what it holds
\* and a permit it was granted.
LEMMA EndKeepsIInv ==
  ASSUME IInv, NEW q \in Requests, NEW place \in Ended, NEW outcome, NEW back,
         pc' = [pc EXCEPT ![q] = place],
         End(q, outcome, Held(q), back),
         back = Held(q) \cup (IF q \in granted THEN {pc[q]} ELSE {})
  PROVE  IInv'
  <1>1. /\ ready' = ready \ {q}
        /\ Leaves(q)
        /\ Permits(q, back, {}, Gates \cap {pc[q]})
    BY DEF End
  <1>2. place \in Places \ Gates /\ \A h \in Gates : place \notin HeldAt[h]
    BY Tables DEF Ended, Places
  <1>3. pc' \in [Requests -> Places]
    BY <1>2 DEF IInv
  <1>4. LineInv'
    BY <1>1, <1>2, LeavesKeepsLines DEF IInv
  <1>5. Takes({}) /\ Balanced(q, place, back, {})
    <2> SUFFICES ASSUME NEW h \in Gates
                 PROVE  Delta(h \in back) - Delta(h \in {})
                            - Delta(q \in granted /\ pc[q] = h)
                          = Delta(pc[q] \in HeldAt[h]) - Delta(place \in HeldAt[h])
      BY DEF Balanced, Takes
    <2>1. h \in back <=> pc[q] \in HeldAt[h] \/ (q \in granted /\ pc[q] = h)
      BY DEF Held
    <2>2. pc[q] = h => pc[q] \notin HeldAt[h]
      BY Tables
    <2> QED BY <1>2, <2>1, <2>2 DEF Delta
  <1>6. free' \in [Gates -> Nat] /\ GrantInv' /\ PermitsConserved'
    BY <1>1, <1>2, <1>4, <1>5, PermitsBalance
  <1>7. PinInv'
    BY <1>1 DEF IInv, PinInv
  <1> QED BY <1>3, <1>4, <1>6, <1>7 DEF IInv

\* The account of the permits, and what it rests on, is an invariant.
THEOREM GatesInvariant == Spec => []IInv
  <1>1. IInv /\ [Next]_vars => IInv'
    <2> SUFFICES ASSUME IInv, [Next]_vars PROVE IInv'
      OBVIOUS
    <2>1. ASSUME NEW q \in Requests, Gate(q) PROVE IInv'
      BY <2>1, JoinKeepsIInv, PassKeepsIInv, ResumeKeepsIInv DEF Gate
    <2>2. ASSUME NEW q \in Requests, Engine(q) \/ Retry(q) \/ Cancel(q) PROVE IInv'
      <3>1. UNCHANGED <<pc, free, line, granted>>
        BY <2>2 DEF Engine, PrefillEngineDone, DecodeEngineFetches, Retry, Cancel
      <3>2. ready' \subseteq ready \cup {q} /\ (pc[q] = "prefilling" \/ ready' \subseteq ready)
        BY <2>2 DEF Engine, PrefillEngineDone, DecodeEngineFetches, Retry, Cancel
      <3>3. PinInv'
        BY <3>1, <3>2, Tables DEF IInv, PinInv
      <3> QED BY <3>1, <3>3, PinSteps
    <2>3. ASSUME NEW q \in Requests, PrefillReturns(q) PROVE IInv'
      <3>1. /\ pc[q] = "prefilling"
            /\ pc' = [pc EXCEPT ![q] = "prefilled"]
            /\ UNCHANGED <<ready, free, line, granted>>
        BY <2>3 DEF PrefillReturns
      <3>2. /\ "prefilled" \in Places \ Gates
            /\ pc[q] \notin Gates
            /\ q \notin granted
            /\ \A g \in Gates : pc[q] \in HeldAt[g] <=> "prefilled" \in HeldAt[g]
        BY <3>1, Tables DEF IInv, GrantInv, Places
      <3>3. LineInv'
        BY <3>1, <3>2, LeavesKeepsLines DEF IInv, Leaves
      <3>4. PermitsConserved'
        BY <3>1, <3>2, SameHoldings
      <3>5. PinInv' /\ GrantInv' /\ pc' \in [Requests -> Places]
        BY <3>1, <3>2, Tables DEF IInv, PinInv, GrantInv
      <3> QED BY <3>1, <3>3, <3>4, <3>5 DEF IInv
    <2>4. ASSUME NEW q \in Requests, DecodeReturns(q) \/ Fail(q) PROVE IInv'
      <3>1. PICK place \in Ended, outcome \in Outcomes :
              pc' = [pc EXCEPT ![q] = place] /\ End(q, outcome, Held(q), Held(q))
        BY <2>4 DEF DecodeReturns, Fail, Ended, Outcomes
      <3>2. q \notin granted
        BY <2>4 DEF IInv, GrantInv, DecodeReturns, Fail, Posting, Gates
      <3> QED BY <3>1, <3>2, EndKeepsIInv
    <2>5. ASSUME NEW q \in Requests, Unwind(q) PROVE IInv'
      BY <2>5, EndKeepsIInv DEF Unwind, Ended
    <2>6. CASE UNCHANGED vars
      BY <2>6, PinSteps DEF vars, IInv, PinInv
    <2> QED BY <2>1, <2>2, <2>3, <2>4, <2>5, <2>6 DEF Next, Answer
  <1> QED BY InitIInv, <1>1, PTL DEF Spec

\* No permit of a gate is lost or made up: not by a cancellation that meets a
\* grant, not by a failure after the handoff, not by an answer.
THEOREM PermitsAreConserved == Spec => []PermitsConserved
  <1>1. IInv => PermitsConserved
    BY DEF IInv
  <1> QED BY GatesInvariant, <1>1, PTL

\* However long decode is blocked, finished prefills are bounded by the
\* permits: those not admitted to decode by the prefill gate's, all of them by
\* both gates'.
THEOREM HandlesAreBounded == Spec => []HandlesBounded
  <1>1. IInv => HandlesBounded
    <2> SUFFICES ASSUME IInv PROVE HandlesBounded
      OBVIOUS
    <2>1. \A g \in Gates : IsFiniteSet(Holders(g)) /\ IsFiniteSet(granted \cap Waiting(g))
      BY FS_Subset, PdAdmissionAssumption DEF PdAdmissionAssumption, Holders, Waiting
    <2>2. \A g \in Gates : Cardinality(Holders(g)) \in Nat
                            /\ Cardinality(granted \cap Waiting(g)) \in Nat
      BY <2>1, FS_CardinalityType
    <2>3. /\ Limit["prefill"] = PrefillSeqs + PrefillFeederSlots
          /\ Limit["decode"] = DecodeSeqs
          /\ "prefill" \in Gates /\ "decode" \in Gates
      BY DEF Limit, Gates
    <2>4. PrefillSeqs \in Nat /\ DecodeSeqs \in Nat /\ PrefillFeederSlots \in Nat
      BY PdAdmissionAssumption DEF PdAdmissionAssumption, PrefillFeederSlots
    <2>5. Cardinality(Holders("prefill")) <= PrefillSeqs + PrefillFeederSlots
      <3>1. free["prefill"] + Cardinality(granted \cap Waiting("prefill"))
              + Cardinality(Holders("prefill")) = PrefillSeqs + PrefillFeederSlots
        BY <2>3 DEF IInv, PermitsConserved
      <3>2. free["prefill"] \in Nat
        BY <2>3 DEF IInv
      <3> QED BY <2>2, <2>3, <2>4, <3>1, <3>2
    <2>6. Cardinality(Holders("decode")) <= DecodeSeqs
      <3>1. free["decode"] + Cardinality(granted \cap Waiting("decode"))
              + Cardinality(Holders("decode")) = DecodeSeqs
        BY <2>3 DEF IInv, PermitsConserved
      <3>2. free["decode"] \in Nat
        BY <2>3 DEF IInv
      <3> QED BY <2>2, <2>3, <2>4, <3>1, <3>2
    <2>7. HandlesAwaitingDecode \subseteq Holders("prefill")
      BY DEF HandlesAwaitingDecode
    <2>8. ready \subseteq Holders("prefill") \cup Holders("decode")
      BY DEF IInv, PinInv, Holders
    <2>9. /\ IsFiniteSet(Holders("prefill") \cup Holders("decode"))
          /\ Cardinality(Holders("prefill") \cup Holders("decode"))
               = Cardinality(Holders("prefill")) + Cardinality(Holders("decode"))
                   - Cardinality(Holders("prefill") \cap Holders("decode"))
          /\ Cardinality(Holders("prefill") \cap Holders("decode")) \in Nat
      BY <2>1, <2>3, FS_Union, FS_Intersection, FS_CardinalityType
    <2>10. /\ Cardinality(HandlesAwaitingDecode) <= Cardinality(Holders("prefill"))
          /\ Cardinality(HandlesAwaitingDecode) \in Nat
      BY <2>1, <2>3, <2>7, FS_Subset, FS_CardinalityType
    <2>11. /\ Cardinality(ready) <= Cardinality(Holders("prefill") \cup Holders("decode"))
          /\ Cardinality(ready) \in Nat
      BY <2>8, <2>9, FS_Subset, FS_CardinalityType
    <2>12. Cardinality(Holders("prefill")) \in Nat /\ Cardinality(Holders("decode")) \in Nat
      BY <2>2, <2>3
    <2>13. Cardinality(HandlesAwaitingDecode) <= PrefillSeqs + PrefillFeederSlots
      BY <2>4, <2>5, <2>10, <2>12
    <2>14. Cardinality(ready)
             <= Cardinality(Holders("prefill")) + Cardinality(Holders("decode"))
      BY <2>9, <2>11, <2>12
    <2>15. Cardinality(ready) <= PrefillSeqs + PrefillFeederSlots + DecodeSeqs
      BY <2>4, <2>5, <2>6, <2>11, <2>12, <2>14
    <2> QED BY <2>13, <2>15 DEF HandlesBounded
  <1> QED BY GatesInvariant, <1>1, PTL


-----------------------------------------------------------------------------
(***************************************************************************)
(* Two more invariants of the gates, on top of the account of their        *)
(* permits (GatesInvariant): a free permit is never left lying beside a    *)
(* waiter, and the counters are the truth.                                 *)
(***************************************************************************)

\* Every gate's share of a change of hands: who is woken there, and what is left free.
LEMMA PermitsPerGate ==
  ASSUME IInv, NEW q \in Requests, NEW back, NEW taken, NEW left,
         Permits(q, back, taken, left), NEW g \in Gates
  PROVE  /\ granted \ {q} \subseteq granted'
         /\ \E W : /\ W \subseteq granted'
                   /\ W \in Woken(line'[g], IF g \in left
                                            THEN free[g] + (Delta(g \in back) - Delta(g \in taken))
                                            ELSE Delta(g \in back))
                   /\ free'[g] = free[g] + (Delta(g \in back) - Delta(g \in taken))
                                   - Cardinality(W)
<1> DEFINE add   == [h \in Gates |-> Delta(h \in back) - Delta(h \in taken)]
           wakes == [h \in Gates |-> IF h \in left THEN free[h] + add[h]
                                                   ELSE Delta(h \in back)]
<1>1. PICK s \in Woken(line'["stage"], wakes["stage"]),
           p \in Woken(line'["prefill"], wakes["prefill"]),
           d \in Woken(line'["decode"], wakes["decode"]) :
        /\ granted' = (granted \ {q}) \cup s \cup p \cup d
        /\ free' = [free EXCEPT
                      !["stage"]   = @ + add["stage"] - Cardinality(s),
                      !["prefill"] = @ + add["prefill"] - Cardinality(p),
                      !["decode"]  = @ + add["decode"] - Cardinality(d)]
  BY DEF Permits
<1>2. /\ free'["stage"] = free["stage"] + add["stage"] - Cardinality(s)
      /\ free'["prefill"] = free["prefill"] + add["prefill"] - Cardinality(p)
      /\ free'["decode"] = free["decode"] + add["decode"] - Cardinality(d)
  BY <1>1 DEF Gates, IInv
<1>3. \E W : /\ W \subseteq granted' /\ W \in Woken(line'[g], wakes[g])
             /\ free'[g] = free[g] + add[g] - Cardinality(W)
  BY <1>1, <1>2 DEF Gates
<1> QED BY <1>1, <1>3

\* A request that leaves its gate's line leaves the other lines alone.
LEMMA LeavesElsewhere ==
  ASSUME LineInv, NEW q \in Requests, Leaves(q), NEW g \in Gates, g # pc[q]
  PROVE  line'[g] = line[g]
  BY DEF Leaves, LineInv

\* Whoever gives permits back, takes them or leaves a line wakes the waiters that the free
\* permits are enough for.
LEMMA PermitsKeepNoIdle ==
  ASSUME IInv, IInv', NoIdlePermit,
         NEW q \in Requests, NEW place \in Places \ Gates, pc' = [pc EXCEPT ![q] = place],
         NEW back, NEW taken, NEW left, Permits(q, back, taken, left),
         \A g \in Gates : g \in left \/ line'[g] = line[g],
         hit \ {q} \subseteq hit'
  PROVE  NoIdlePermit'
<1> SUFFICES ASSUME NEW g \in Gates, free'[g] > 0, NEW r \in Pending(line[g])'
             PROVE  \E i \in DOMAIN line'[g] : line'[g][i] \in granted'
  BY DEF NoIdlePermit
<1>1. \A i \in DOMAIN line'[g] : line'[g][i] # q
  BY DEF IInv, LineInv
<1> DEFINE change == Delta(g \in back) - Delta(g \in taken)
           wakes  == IF g \in left THEN free[g] + change ELSE Delta(g \in back)
<1>2. /\ granted \ {q} \subseteq granted'
      /\ \E W : /\ W \subseteq granted' /\ W \in Woken(line'[g], wakes)
                /\ free'[g] = free[g] + change - Cardinality(W)
  BY PermitsPerGate
<1>3. PICK W : /\ W \subseteq granted' /\ W \in Woken(line'[g], wakes)
               /\ free'[g] = free[g] + change - Cardinality(W)
  BY <1>2
<1>4. r \in Pending(line'[g]) /\ r \notin granted'
  BY <1>1, <1>2 DEF Pending
<1>5. Cardinality(W) = wakes /\ W \subseteq Pending(line'[g])
  BY <1>3, <1>4 DEF Woken
<1>6. CASE W # {}
  <2>1. PICK x \in W : TRUE
    BY <1>6
  <2> QED BY <1>3, <1>5, <2>1 DEF Pending
<1>7. CASE W = {}
  <2>1. wakes = 0
    BY <1>5, <1>7, FS_EmptySet
  <2>2. free[g] \in Nat /\ free'[g] \in Nat
    BY DEF IInv
  <2>3. g \notin left /\ free[g] > 0
    BY <1>3, <1>7, <2>1, <2>2, FS_EmptySet DEF Delta
  <2>4. r \in Pending(line[g]) /\ line'[g] = line[g]
    BY <1>4, <2>3
  <2>5. PICK i \in DOMAIN line[g] : line[g][i] \in granted
    BY <2>3, <2>4 DEF NoIdlePermit
  <2> QED BY <1>1, <1>2, <2>4, <2>5
<1> QED BY <1>6, <1>7

\* Who joins a line finds it locked: no permit is free, or one is on its way.
LEMMA JoinKeepsNoIdle ==
  ASSUME IInv, NoIdlePermit, NEW q \in Requests, NEW g \in Gates, Join(q, g)
  PROVE  NoIdlePermit'
<1>1. Locked(g) /\ UNCHANGED <<hit, free, granted>> /\ line' = [line EXCEPT ![g] = Append(@, q)]
  BY DEF Join
<1>2. /\ line[g] \in Seq(Requests) /\ line'[g] = Append(line[g], q)
      /\ \A h \in Gates : h # g => line'[h] = line[h]
  BY <1>1 DEF IInv, LineInv
<1>3. \A i \in DOMAIN line[g] : i \in DOMAIN line'[g] /\ line'[g][i] = line[g][i]
  BY <1>2, AppendProperties, LenProperties
<1> SUFFICES ASSUME NEW h \in Gates, free'[h] > 0, Pending(line[h])' # {}
             PROVE  \E i \in DOMAIN line'[h] : line'[h][i] \in granted'
  BY DEF NoIdlePermit
<1>4. CASE h # g
  BY <1>1, <1>2, <1>4 DEF NoIdlePermit, Pending
<1>5. CASE h = g
  <2>1. PICK i \in DOMAIN line[g] : line[g][i] \notin hit \ granted
    BY <1>1, <1>5 DEF Locked, IInv
  <2>2. CASE line[g][i] \in granted
    BY <1>1, <1>3, <1>5, <2>2
  <2>3. CASE line[g][i] \notin granted
    <3>1. line[g][i] \in Pending(line[g])
      BY <2>1, <2>3 DEF Pending
    <3>2. PICK j \in DOMAIN line[g] : line[g][j] \in granted
      BY <1>1, <1>5, <3>1 DEF NoIdlePermit
    <3> QED BY <1>1, <1>3, <1>5, <3>2
  <2> QED BY <2>2, <2>3
<1> QED BY <1>4, <1>5

\* A request's end wakes whom it leaves behind.
LEMMA EndKeepsNoIdle ==
  ASSUME IInv, IInv', NoIdlePermit, NEW q \in Requests, NEW place \in Ended, NEW outcome,
         NEW held, NEW back, pc' = [pc EXCEPT ![q] = place], End(q, outcome, held, back)
  PROVE  NoIdlePermit'
<1>1. /\ hit' = hit \ {q} /\ Leaves(q) /\ Permits(q, back, {}, Gates \cap {pc[q]})
  BY DEF End
<1>2. place \in Places \ Gates
  BY DEF Ended, Places, Gates
<1>3. \A g \in Gates : g \in Gates \cap {pc[q]} \/ line'[g] = line[g]
  BY <1>1, LeavesElsewhere DEF IInv
<1> QED BY <1>1, <1>2, <1>3, PermitsKeepNoIdle

LEMMA NextKeepsNoIdle ==
  ASSUME IInv, IInv', NoIdlePermit, [Next]_vars
  PROVE  NoIdlePermit'
<1>1. ASSUME NEW q \in Requests, NEW g \in Gates, Pass(q, g) PROVE NoIdlePermit'
  <2>1. /\ pc' = [pc EXCEPT ![q] = After[g]] /\ UNCHANGED <<hit, line>>
        /\ Permits(q, HandedBack(g), {g}, {}) /\ After[g] \in Places \ Gates
    BY <1>1, Tables DEF Pass
  <2> QED BY <2>1, PermitsKeepNoIdle
<1>2. ASSUME NEW q \in Requests, NEW g \in Gates, Resume(q, g) PROVE NoIdlePermit'
  <2>1. /\ pc[q] = g /\ pc' = [pc EXCEPT ![q] = After[g]] /\ Leaves(q) /\ UNCHANGED hit
        /\ Permits(q, HandedBack(g), {}, {g}) /\ After[g] \in Places \ Gates
    BY <1>2, Tables DEF Resume
  <2>2. \A h \in Gates : h \in {g} \/ line'[h] = line[h]
    BY <2>1, LeavesElsewhere DEF IInv
  <2> QED BY <2>1, <2>2, PermitsKeepNoIdle
<1>3. ASSUME NEW q \in Requests,
             Engine(q) \/ Retry(q) \/ Cancel(q) \/ PrefillReturns(q) \/ UNCHANGED vars
      PROVE  NoIdlePermit'
  <2>1. UNCHANGED <<free, line, granted>> /\ hit \subseteq hit'
    BY <1>3 DEF Engine, PrefillEngineDone, DecodeEngineFetches, Retry, Cancel, PrefillReturns, vars
  <2> QED BY <2>1 DEF NoIdlePermit, Pending
<1>4. ASSUME NEW q \in Requests, DecodeReturns(q) \/ Fail(q) \/ Unwind(q) PROVE NoIdlePermit'
  <2>1. PICK place \in Ended, outcome \in Outcomes, back \in {Held(q), Held(q) \cup {pc[q]}} :
          pc' = [pc EXCEPT ![q] = place] /\ End(q, outcome, Held(q), back)
    BY <1>4 DEF DecodeReturns, Fail, Unwind, Ended, Outcomes
  <2> QED BY <2>1, EndKeepsNoIdle
<1>5. CASE UNCHANGED vars
  BY <1>5 DEF vars, NoIdlePermit, Pending
<1> QED BY <1>1, <1>2, <1>3, <1>4, <1>5, JoinKeepsNoIdle DEF Next, Gate, Answer

\* asyncio.Semaphore behind generate_text and _acquire_role: a cancelled waiter, granted or
\* not, never leaves a free permit beside a waiter whom nobody will wake.
THEOREM NoPermitIsIdle == Spec => []NoIdlePermit
<1>1. Init => NoIdlePermit
  BY EmptySeq, LenProperties DEF Init, NoIdlePermit, Pending
<1>2. IInv /\ IInv' /\ NoIdlePermit /\ [Next]_vars => NoIdlePermit'
  BY NextKeepsNoIdle
<1> QED BY <1>1, <1>2, GatesInvariant, PTL DEF Spec

-----------------------------------------------------------------------------
\* What a tally adds to a counter of a gate.
Change(up, down, g, c) == Delta(<<g, c>> \in up) - Delta(<<g, c>> \in down)

\* The counters follow a request from its place to the next, and a submission that is
\* neither waiting nor inside has ended in one way.
Follows(q, place, up, down) ==
  /\ \A g \in Gates :
       /\ Change(up, down, g, "waiting") = Delta(place = g) - Delta(pc[q] = g)
       /\ Change(up, down, g, "inflight") = Delta(place \in HeldAt[g]) - Delta(pc[q] \in HeldAt[g])
  /\ \A r \in Roles :
       Change(up, down, r, "submitted") =
         Change(up, down, r, "waiting") + Change(up, down, r, "inflight")
           + Change(up, down, r, "completed") + Change(up, down, r, "failed")
           + Change(up, down, r, "cancelled")

CountInv == count \in [Gates -> [Counters -> Int]] /\ CountersTellTheTruth

\* A set of requests that one request leaves or joins.
LEMMA CardinalityFollows ==
  ASSUME NEW A \in SUBSET Requests, NEW q, NEW was \in {0, 1}, NEW is \in {0, 1},
         was = 1 <=> q \in A, NEW B, B = IF is = 1 THEN A \cup {q} ELSE A \ {q}
  PROVE  Cardinality(B) = Cardinality(A) + (is - was)
<1>1. IsFiniteSet(A)
  BY FS_Subset, PdAdmissionAssumption DEF PdAdmissionAssumption
<1>2. /\ Cardinality(A \cup {q}) = IF q \in A THEN Cardinality(A) ELSE Cardinality(A) + 1
      /\ Cardinality(A \ {q}) = IF q \in A THEN Cardinality(A) - 1 ELSE Cardinality(A)
      /\ Cardinality(A) \in Nat
  BY <1>1, FS_AddElement, FS_RemoveElement, FS_CardinalityType
<1>3. CASE is = 1
  BY <1>2, <1>3
<1>4. CASE is = 0
  BY <1>2, <1>4
<1> QED BY <1>3, <1>4

LEMMA TallyKeepsCounts ==
  ASSUME IInv, CountInv, NEW q \in Requests, NEW place \in Places,
         pc' = [pc EXCEPT ![q] = place],
         NEW up, NEW down, Tally(up, down), Follows(q, place, up, down)
  PROVE  CountInv'
<1>1. \A g \in Gates : \A c \in Counters :
        /\ Change(up, down, g, c) \in Int
        /\ count[g][c] \in Int /\ count'[g][c] = count[g][c] + Change(up, down, g, c)
  BY DEF Tally, Change, Delta, CountInv
<1>2. count' \in [Gates -> [Counters -> Int]]
  <2>1. count' = [g \in Gates |-> [c \in Counters |->
                   count[g][c] + Delta(<<g, c>> \in up) - Delta(<<g, c>> \in down)]]
    BY DEF Tally
  <2>2. \A g \in Gates : \A c \in Counters :
          count[g][c] + Delta(<<g, c>> \in up) - Delta(<<g, c>> \in down) \in Int
    BY DEF CountInv, Delta
  <2> QED BY <2>1, <2>2
<1>3. Counters = {"submitted", "waiting", "inflight", "completed", "failed", "cancelled"}
  BY DEF Counters, Outcomes
<1>4. ASSUME NEW g \in Gates
      PROVE  /\ count'[g]["waiting"] = Cardinality(Waiting(g)')
             /\ count'[g]["inflight"] = Cardinality(Holders(g)')
  <2>1. /\ Waiting(g)' = (IF place = g THEN Waiting(g) \cup {q} ELSE Waiting(g) \ {q})
        /\ Holders(g)' = (IF place \in HeldAt[g] THEN Holders(g) \cup {q} ELSE Holders(g) \ {q})
    BY DEF Waiting, Holders, IInv
  <2>2. /\ pc[q] = g <=> q \in Waiting(g)
        /\ pc[q] \in HeldAt[g] <=> q \in Holders(g)
        /\ Waiting(g) \in SUBSET Requests /\ Holders(g) \in SUBSET Requests
    BY DEF Waiting, Holders
  <2>3. Cardinality(Waiting(g)') = Cardinality(Waiting(g)) + (Delta(place = g) - Delta(pc[q] = g))
    <3>1. PICK is \in {0, 1}, was \in {0, 1} :
            /\ is = Delta(place = g) /\ (is = 1 <=> place = g)
            /\ was = Delta(pc[q] = g) /\ (was = 1 <=> pc[q] = g)
      BY DEF Delta
    <3>2. /\ Waiting(g)' = IF is = 1 THEN Waiting(g) \cup {q} ELSE Waiting(g) \ {q}
          /\ was = 1 <=> q \in Waiting(g)
      BY <2>1, <2>2, <3>1
    <3>3. Cardinality(Waiting(g)') = Cardinality(Waiting(g)) + (is - was)
      BY <2>2, <3>2, CardinalityFollows
    <3> QED BY <3>1, <3>3
  <2>4. Cardinality(Holders(g)')
          = Cardinality(Holders(g)) + (Delta(place \in HeldAt[g]) - Delta(pc[q] \in HeldAt[g]))
    <3>1. PICK is \in {0, 1}, was \in {0, 1} :
            /\ is = Delta(place \in HeldAt[g]) /\ (is = 1 <=> place \in HeldAt[g])
            /\ was = Delta(pc[q] \in HeldAt[g]) /\ (was = 1 <=> pc[q] \in HeldAt[g])
      BY DEF Delta
    <3>2. /\ Holders(g)' = IF is = 1 THEN Holders(g) \cup {q} ELSE Holders(g) \ {q}
          /\ was = 1 <=> q \in Holders(g)
      BY <2>1, <2>2, <3>1
    <3>3. Cardinality(Holders(g)') = Cardinality(Holders(g)) + (is - was)
      BY <2>2, <3>2, CardinalityFollows
    <3> QED BY <3>1, <3>3
  <2> QED BY <1>1, <1>3, <2>3, <2>4 DEF CountInv, CountersTellTheTruth, Follows
<1>5. ASSUME NEW r \in Roles
      PROVE  count'[r]["submitted"] =
               count'[r]["waiting"] + count'[r]["inflight"] + count'[r]["completed"]
                 + count'[r]["failed"] + count'[r]["cancelled"]
  <2>1. r \in Gates
    BY DEF Roles, Gates
  <2>2. count[r]["submitted"] =
          count[r]["waiting"] + count[r]["inflight"] + count[r]["completed"]
            + count[r]["failed"] + count[r]["cancelled"]
    BY DEF CountInv, CountersTellTheTruth
  <2>3. Change(up, down, r, "submitted") =
          Change(up, down, r, "waiting") + Change(up, down, r, "inflight")
            + Change(up, down, r, "completed") + Change(up, down, r, "failed")
            + Change(up, down, r, "cancelled")
    BY DEF Follows
  <2> QED BY <1>1, <1>3, <2>1, <2>2, <2>3
<1> QED BY <1>2, <1>4, <1>5 DEF CountInv, CountersTellTheTruth

\* generate_text and _acquire_role count a request in.
LEMMA GateFollows ==
  ASSUME IInv, NEW q \in Requests, NEW g \in Gates
  PROVE  /\ pc[q] = Before[g] =>
              /\ Follows(q, g, {<<g, "submitted">>, <<g, "waiting">>}, {})
              /\ Follows(q, After[g],
                         {<<g, "submitted">>, <<g, "inflight">>} \cup HandedBack(g) \X {"completed"},
                         HandedBack(g) \X {"inflight"})
         /\ pc[q] = g =>
              Follows(q, After[g], {<<g, "inflight">>} \cup HandedBack(g) \X {"completed"},
                      {<<g, "waiting">>} \cup HandedBack(g) \X {"inflight"})
<1>1. CASE g = "stage"
  BY <1>1, Tables DEF Follows, Change, Delta, HandedBack, Roles
<1>2. CASE g = "prefill"
  BY <1>2, Tables DEF Follows, Change, Delta, HandedBack, Roles
<1>3. CASE g = "decode"
  BY <1>3, Tables DEF Follows, Change, Delta, HandedBack, Roles
<1> QED BY <1>1, <1>2, <1>3 DEF Gates

\* Their handlers count it out, whichever way it ends.
LEMMA EndFollows ==
  ASSUME NEW q \in Requests, NEW place \in Ended, NEW outcome \in Outcomes,
         outcome = "completed" => pc[q] = "decoding",
         NEW counted,
         counted = IF outcome = "completed" THEN Held(q) ELSE Roles \cap (Held(q) \cup {pc[q]})
  PROVE  Follows(q, place, counted \X {outcome},
                 (Held(q) \X {"inflight"}) \cup ({pc[q]} \X {"waiting"}))
<1> DEFINE up == counted \X {outcome}
           down == (Held(q) \X {"inflight"}) \cup ({pc[q]} \X {"waiting"})
<1>1. \A h, c : /\ <<h, c>> \in up <=> h \in counted /\ c = outcome
                /\ <<h, c>> \in down <=> \/ h \in Held(q) /\ c = "inflight"
                                         \/ h = pc[q] /\ c = "waiting"
  OBVIOUS
<1>2. \A h \in Gates : /\ place # h /\ place \notin HeldAt[h]
                       /\ h \in Held(q) <=> pc[q] \in HeldAt[h]
                       /\ pc[q] = h => pc[q] \notin HeldAt[h]
  BY Tables DEF Ended, Held
<1>3. \A h \in Roles : /\ h \in Gates
                       /\ h \in counted <=> h \in Held(q) \/ h = pc[q]
  BY DEF Roles, Gates
<1>4. outcome \in {"completed", "failed", "cancelled"}
  BY DEF Outcomes
<1> HIDE DEF up, down
<1>5. \A h \in Gates :
        /\ Change(up, down, h, "waiting") = Delta(place = h) - Delta(pc[q] = h)
        /\ Change(up, down, h, "inflight") = Delta(place \in HeldAt[h]) - Delta(pc[q] \in HeldAt[h])
  BY <1>1, <1>2, <1>4 DEF Change, Delta
<1>6. \A r \in Roles :
        Change(up, down, r, "submitted") =
          Change(up, down, r, "waiting") + Change(up, down, r, "inflight")
            + Change(up, down, r, "completed") + Change(up, down, r, "failed")
            + Change(up, down, r, "cancelled")
  BY <1>1, <1>2, <1>3, <1>4 DEF Change, Delta
<1> QED BY <1>5, <1>6 DEF Follows, up, down

LEMMA NextKeepsCounts ==
  ASSUME IInv, CountInv, [Next]_vars
  PROVE  CountInv'
<1>1. ASSUME NEW q \in Requests, Gate(q) PROVE CountInv'
  <2>1. PICK g \in Gates : Join(q, g) \/ Pass(q, g) \/ Resume(q, g)
    BY <1>1 DEF Gate
  <2>2. g \in Places /\ After[g] \in Places
    BY Tables DEF Places
  <2>6. \A place \in Places : \A up, down :
          /\ pc' = [pc EXCEPT ![q] = place] /\ Tally(up, down) /\ Follows(q, place, up, down)
          => CountInv'
    BY TallyKeepsCounts
  <2>3. CASE Join(q, g)
    <3>1. Follows(q, g, {<<g, "submitted">>, <<g, "waiting">>}, {})
      BY <2>3, GateFollows DEF Join
    <3> QED BY <2>2, <2>3, <2>6, <3>1 DEF Join
  <2>4. CASE Pass(q, g)
    <3>1. Follows(q, After[g],
                  {<<g, "submitted">>, <<g, "inflight">>} \cup HandedBack(g) \X {"completed"},
                  HandedBack(g) \X {"inflight"})
      BY <2>4, GateFollows DEF Pass
    <3> QED BY <2>2, <2>4, <2>6, <3>1 DEF Pass
  <2>5. CASE Resume(q, g)
    BY <2>2, <2>5, <2>6, GateFollows DEF Resume
  <2> QED BY <2>1, <2>3, <2>4, <2>5
<1>2. ASSUME NEW q \in Requests, Engine(q) \/ Retry(q) \/ Cancel(q) PROVE CountInv'
  <2>1. UNCHANGED <<pc, count>>
    BY <1>2 DEF Engine, PrefillEngineDone, DecodeEngineFetches, Retry, Cancel
  <2> QED BY <2>1 DEF CountInv, CountersTellTheTruth, Waiting, Holders
<1>3. ASSUME NEW q \in Requests, PrefillReturns(q) PROVE CountInv'
  <2>1. pc[q] = "prefilling" /\ pc' = [pc EXCEPT ![q] = "prefilled"] /\ UNCHANGED count
    BY <1>3 DEF PrefillReturns
  <2>2. \A g \in Gates : Waiting(g)' = Waiting(g) /\ Holders(g)' = Holders(g)
    BY <2>1, Tables DEF IInv, Waiting, Holders
  <2> QED BY <2>1, <2>2 DEF CountInv, CountersTellTheTruth
<1>4. ASSUME NEW q \in Requests, DecodeReturns(q) \/ Fail(q) \/ Unwind(q) PROVE CountInv'
  <2>1. PICK place \in Ended, outcome \in Outcomes, back \in {Held(q), Held(q) \cup {pc[q]}} :
          /\ pc' = [pc EXCEPT ![q] = place] /\ End(q, outcome, Held(q), back)
          /\ outcome = "completed" => pc[q] = "decoding"
    BY <1>4 DEF DecodeReturns, Fail, Unwind, Ended, Outcomes
  <2>2. place \in Places
    BY DEF Ended, Places
  <2> QED BY <2>1, <2>2, EndFollows, TallyKeepsCounts DEF End
<1>5. CASE UNCHANGED vars
  BY <1>5 DEF vars, CountInv, CountersTellTheTruth, Waiting, Holders
<1> QED BY <1>1, <1>2, <1>3, <1>4, <1>5 DEF Next, Answer

\* _pd_role_stats and the stage's window counters: who waits, who is inside, and every
\* submission of a role in one end only, whatever is cancelled, retried or fails.
THEOREM CountsAreTrue == Spec => []CountersTellTheTruth
<1>1. Init => CountInv
  <2> SUFFICES ASSUME Init PROVE CountInv
    OBVIOUS
  <2>1. \A g \in Gates : Waiting(g) = {} /\ Holders(g) = {}
    BY Tables DEF Init, Waiting, Holders
  <2>2. count = [g \in Gates |-> [c \in Counters |-> 0]]
    BY DEF Init
  <2>3. \A g \in Gates : \A c \in Counters : count[g][c] = 0
    BY <2>2
  <2>4. count \in [Gates -> [Counters -> Int]]
    BY <2>2
  <2>5. {"submitted", "waiting", "inflight", "completed", "failed", "cancelled"} = Counters
    BY DEF Counters, Outcomes
  <2>6. \A r \in Roles : r \in Gates
    BY DEF Roles, Gates
  <2>7. \A g \in Gates : /\ count[g]["waiting"] = Cardinality(Waiting(g))
                         /\ count[g]["inflight"] = Cardinality(Holders(g))
    BY <2>1, <2>3, <2>5, FS_EmptySet
  <2>8. \A r \in Roles :
          /\ count[r]["submitted"] = 0 /\ count[r]["waiting"] = 0 /\ count[r]["inflight"] = 0
          /\ count[r]["completed"] = 0 /\ count[r]["failed"] = 0 /\ count[r]["cancelled"] = 0
    BY <2>3, <2>5, <2>6
  <2> QED BY <2>4, <2>7, <2>8 DEF CountInv, CountersTellTheTruth
<1>2. IInv /\ CountInv /\ [Next]_vars => CountInv'
  BY NextKeepsCounts
<1>3. CountInv => CountersTellTheTruth
  BY DEF CountInv
<1> QED BY <1>1, <1>2, <1>3, GatesInvariant, PTL DEF Spec
=============================================================================
