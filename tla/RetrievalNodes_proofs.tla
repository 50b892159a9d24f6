------------------------ MODULE RetrievalNodes_proofs ------------------------
(***************************************************************************)
(* BatchingIsInvisible, for every batch, corpus, index, model and number of *)
(* replicas.  The argument: whatever a node flattens, cuts into batches,    *)
(* shards over replicas and cuts back by lengths is what each row gets by   *)
(* itself (lists, then nodes); so every node is one that raises on some     *)
(* rows and makes something of each of the others, and such a node does not *)
(* show whom a call shares its batch with. PercentileCutoff, colbert and    *)
(* monot5 are such nodes in a batch whose rows are alike; in any other they *)
(* still raise on the batch exactly when they raise on one of its calls.    *)
(***************************************************************************)
EXTENDS RetrievalNodes, SequenceLemmas, FiniteSetTheorems, SequenceTheorems, TLAPS

\* The constants are as assumed.
NodesOk == NodesAssumption

-----------------------------------------------------------------------------
(***************************************************************************)
(* What is flattened, cut into batches, sharded over replicas and cut back by *)
(* lengths is what each row gets by itself.                                *)
(***************************************************************************)

\* reconstruct_list cuts a list at the sums of the lengths.
LEMMA CutsOfRegrouped ==
  ASSUME NEW S, NEW s \in Seq(S), NEW K \in Nat, NEW len \in [1 .. K -> Nat],
         NEW at \in [1 .. K + 1 -> Nat], Adds(K, at, len), at[K + 1] = Len(s)
  PROVE  /\ Regrouped(s, len) \in Seq(Seq(S)) /\ Len(Regrouped(s, len)) = K
         /\ Cuts(Regrouped(s, len), s, at)
<1>1. Tiled(K, at, len)
  BY Stretches
<1>2. \A i \in 1 .. K + 1 : SumOver(len, 1 .. i - 1) = at[i]
  BY SumsAreStarts
<1>3. Len(s) \in Nat /\ \A x \in 1 .. Len(s) : s[x] \in S
  OBVIOUS
<1> DEFINE piece(i) == SubSeq(s, at[i] + 1, at[i] + len[i])
<1>4. ASSUME NEW i \in 1 .. K
      PROVE  /\ piece(i) \in Seq(S) /\ Len(piece(i)) = len[i]
             /\ \A j \in 1 .. len[i] : piece(i)[j] = s[at[i] + j]
  <2>1. at[i] \in Nat /\ len[i] \in Nat /\ at[i + 1] \in Nat /\ at[K + 1] \in Nat
    OBVIOUS
  <2>2. at[i + 1] = at[i] + len[i]
    BY DEF Adds
  <2>3. at[i + 1] <= at[K + 1]
    <3>1. i + 1 \in 1 .. K + 1 /\ K + 1 \in 1 .. K + 1 /\ i + 1 <= K + 1
      OBVIOUS
    <3>2. \A x, k \in 1 .. K + 1 : x <= k => at[x] <= at[k]
      BY <1>1 DEF Tiled
    <3> QED BY ONLY <3>1, <3>2
  <2>4. at[i] + len[i] <= Len(s)
    BY <2>1, <2>2, <2>3, <1>3
  <2>5. PICK a \in Nat : a = at[i]
    BY <2>1
  <2>6. PICK l \in Nat : l = len[i]
    BY <2>1
  <2>7. s \in Seq(S) /\ a \in Nat /\ l \in Nat /\ a + l <= Len(s)
    BY <2>4, <2>5, <2>6
  <2>8. /\ SubSeq(s, a + 1, a + l) \in Seq(S) /\ Len(SubSeq(s, a + 1, a + l)) = l
        /\ \A j \in 1 .. l : SubSeq(s, a + 1, a + l)[j] = s[a + j]
    BY ONLY <2>7, SubSeqPiece
  <2> QED BY <2>5, <2>6, <2>8
<1>5. PICK b : b = Regrouped(s, len)
  OBVIOUS
<1>6. b = [i \in 1 .. K |-> piece(i)]
  <2>1. \A i \in 1 .. K : i \in 1 .. K + 1
    OBVIOUS
  <2> QED BY <1>2, <1>5, <2>1 DEF Regrouped
<1> HIDE DEF piece
<1>7. b \in Seq(Seq(S)) /\ Len(b) = K /\ \A i \in 1 .. K : b[i] = piece(i)
  BY <1>4, <1>6
<1>8. Cuts(b, s, at)
  <2>1. \A i \in 1 .. K : /\ at[i + 1] = at[i] + Len(b[i]) /\ Len(b[i]) = len[i]
                          /\ \A j \in 1 .. Len(b[i]) : b[i][j] = s[at[i] + j]
    <3> TAKE i \in 1 .. K
    <3>1. b[i] = piece(i) /\ at[i + 1] = at[i] + len[i]
      BY ONLY i \in 1 .. K, Adds(K, at, len), <1>7 DEF Adds
    <3>2. Len(piece(i)) = len[i] /\ \A j \in 1 .. len[i] : piece(i)[j] = s[at[i] + j]
      BY ONLY i \in 1 .. K, <1>4
    <3> QED BY ONLY <3>1, <3>2
  <2>2. at[1] = 0
    BY DEF Adds
  <2> QED BY <2>1, <2>2, <1>7 DEF Cuts
<1> QED BY <1>5, <1>7, <1>8

\* Lists laid end to end and cut at their lengths are the lists.
LEMMA RegroupedEndToEnd ==
  ASSUME NEW S, NEW ss \in Seq(Seq(S))
  PROVE  Regrouped(FlattenSeq(ss), Lens(ss)) = ss
<1>1. PICK K \in Nat : K = Len(ss) /\ DOMAIN ss = 1 .. K
  OBVIOUS
<1>2. PICK s \in Seq(S) : s = FlattenSeq(ss) /\ \E at : Cuts(ss, s, at)
  BY FlattenFacts
<1>3. PICK at : Cuts(ss, s, at)
  BY <1>2
<1>4. PICK len : len = Lens(ss)
  OBVIOUS
<1>5. len \in [1 .. K -> Nat] /\ \A i \in 1 .. K : len[i] = Len(ss[i])
  BY <1>1, <1>4 DEF Lens
<1>6. at \in [1 .. K + 1 -> Nat] /\ Adds(K, at, len) /\ at[K + 1] = Len(s)
  BY <1>1, <1>3, <1>5 DEF Cuts, Adds
<1>7. PICK b \in Seq(Seq(S)) : b = Regrouped(s, len) /\ Len(b) = K /\ Cuts(b, s, at)
  BY <1>5, <1>6, CutsOfRegrouped
<1>8. \A i \in 1 .. K : /\ at[i + 1] = at[i] + Len(ss[i])
                        /\ \A j \in 1 .. Len(ss[i]) : ss[i][j] = s[at[i] + j]
  BY <1>1, <1>3 DEF Cuts
<1>9. \A i \in 1 .. K : /\ at[i + 1] = at[i] + Len(b[i])
                        /\ \A j \in 1 .. Len(b[i]) : b[i][j] = s[at[i] + j]
  BY <1>7 DEF Cuts
<1>10. ASSUME NEW i \in 1 .. K PROVE b[i] = ss[i]
  <2>1. PICK x \in Seq(S) : x = ss[i]
    BY <1>1
  <2>2. PICK y \in Seq(S) : y = b[i]
    BY <1>7
  <2>3. at[i] \in Nat
    BY <1>6
  <2>4. at[i] + Len(x) = at[i] + Len(y)
    BY <2>1, <2>2, <1>8, <1>9
  <2>5. Len(x) = Len(y)
    BY <2>3, <2>4
  <2>6. /\ \A j \in 1 .. Len(x) : x[j] = s[at[i] + j]
        /\ \A j \in 1 .. Len(y) : y[j] = s[at[i] + j]
    BY <2>1, <2>2, <1>8, <1>9
  <2>7. x = y
    <3>1. PICK l \in Nat : l = Len(x) /\ l = Len(y)
      BY <2>5
    <3>2. \A j \in 1 .. l : x[j] = y[j]
      BY <3>1, <2>6
    <3>3. IsList(x) /\ IsList(y)
      BY ListFacts
    <3> QED BY ONLY <3>1, <3>2, <3>3, SameList
  <2> QED BY <2>1, <2>2, <2>7
<1>11. b = ss
  <2>1. b = [i \in 1 .. K |-> b[i]] /\ ss = [i \in 1 .. K |-> ss[i]]
    BY <1>1, <1>7
  <2> QED BY ONLY <2>1, <1>10
<1> QED BY <1>2, <1>4, <1>7, <1>11

\* What is made of each element of the lists end to end, cut back, is what is made of each
\* list's.
LEMMA RegroupedEach ==
  ASSUME NEW S, NEW ss \in Seq(Seq(S)), NEW h
  PROVE  Regrouped(Each(h, FlattenSeq(ss)), Lens(ss)) = EachOf(h, ss)
<1>1. PICK T : T = ValuesOn(h, S)
  OBVIOUS
<1>2. PICK tt \in Seq(Seq(T)) : tt = EachOf(h, ss) /\ Lens(tt) = Lens(ss)
  BY <1>1, EachOfFacts
<1>3. Regrouped(FlattenSeq(tt), Lens(tt)) = tt
  BY <1>2, RegroupedEndToEnd
<1> QED BY <1>2, <1>3, EachEndToEnd

\* _contiguous_chunks: as many to every replica, and one more to the first ones.
LEMMA ShardsEndToEnd ==
  ASSUME NEW S, NEW s \in Seq(S), NEW n \in Nat \ {0}
  PROVE  Shards(s, n) \in Seq(Seq(S)) /\ FlattenSeq(Shards(s, n)) = s
<1>1. PICK L \in Nat : L = Len(s)
  OBVIOUS
<1>2. PICK q \in Nat : q = L \div n
  BY Division
<1>3. PICK r \in Nat : r = L % n /\ r < n /\ L = n * q + r
  <2>1. L % n \in Nat /\ L % n < n /\ L = n * (L \div n) + (L % n)
    OBVIOUS
  <2> QED BY <2>1, <1>2
<1>4. PICK len : len = [i \in 1 .. n |-> q + (IF i <= r THEN 1 ELSE 0)]
  OBVIOUS
<1>5. PICK at : at = [i \in 1 .. n + 1 |-> q * (i - 1) + (IF i - 1 <= r THEN i - 1 ELSE r)]
  OBVIOUS
<1>6. len \in [1 .. n -> Nat] /\ at \in [1 .. n + 1 -> Nat]
  <2>1. ASSUME NEW i \in 1 .. n + 1
        PROVE  q * (i - 1) + (IF i - 1 <= r THEN i - 1 ELSE r) \in Nat
    <3>1. PICK m \in Nat : m = i - 1
      OBVIOUS
    <3>2. q * m \in Nat
      OBVIOUS
    <3> QED BY <3>1, <3>2
  <2>2. at \in [1 .. n + 1 -> Nat]
    BY <2>1, <1>5
  <2>3. len \in [1 .. n -> Nat]
    BY <1>4
  <2> QED BY <2>2, <2>3
<1>7. at[1] = 0
  <2>1. q * 0 = 0 /\ 1 \in 1 .. n + 1
    OBVIOUS
  <2> QED BY <2>1, <1>5
<1>8. ASSUME NEW i \in 1 .. n PROVE at[i + 1] = at[i] + len[i]
  <2>1. /\ i \in 1 .. n + 1 /\ i + 1 \in 1 .. n + 1 /\ (i + 1) - 1 = i
        /\ q * i = q * (i - 1) + q /\ q * (i - 1) \in Nat
    OBVIOUS
  <2>2. PICK a \in Nat : a = q * (i - 1)
    BY <2>1
  <2>3. at[i] = a + (IF i - 1 <= r THEN i - 1 ELSE r)
    BY <2>1, <2>2, <1>5
  <2>4. at[i + 1] = a + q + (IF i <= r THEN i ELSE r)
    BY <2>1, <2>2, <1>5
  <2>5. len[i] = q + (IF i <= r THEN 1 ELSE 0)
    BY <1>4
  <2>6. i <= r => i - 1 <= r
    OBVIOUS
  <2>7. (IF i <= r THEN i ELSE r) = (IF i - 1 <= r THEN i - 1 ELSE r) + (IF i <= r THEN 1 ELSE 0)
    OBVIOUS
  <2> QED BY <2>3, <2>4, <2>5, <2>7
<1>9. at[n + 1] = L
  <2>1. n + 1 \in 1 .. n + 1 /\ (n + 1) - 1 = n /\ q * n = n * q
    OBVIOUS
  <2>2. at[n + 1] = q * n + (IF n <= r THEN n ELSE r)
    BY <2>1, <1>5
  <2> QED BY <2>1, <2>2, <1>3
<1>10. PICK b \in Seq(Seq(S)) : b = Regrouped(s, len) /\ Cuts(b, s, at)
  <2>1. Adds(n, at, len)
    BY <1>7, <1>8 DEF Adds
  <2>2. n \in Nat /\ at[n + 1] = Len(s)
    BY <1>1, <1>9
  <2> QED BY ONLY s \in Seq(S), <1>6, <2>1, <2>2, CutsOfRegrouped
<1>11. FlattenSeq(b) = s
  BY <1>10, FlattenOfCuts
<1>12. Shards(s, n) = b
  BY <1>1, <1>2, <1>3, <1>4, <1>10 DEF Shards
<1> QED BY <1>10, <1>11, <1>12

\* run_data_parallel loses and repeats nothing: the replicas' shards, end to end, are the
\* list.
LEMMA ReplicasEndToEnd ==
  ASSUME NodesOk, NEW S, NEW s \in Seq(S)
  PROVE  OnReplicas(s) \in Seq(Seq(S)) /\ FlattenSeq(OnReplicas(s)) = s
<1>1. CASE OnReplicas(s) = <<s>>
  <2>1. PICK ss \in Seq(Seq(S)) : ss = <<s>>
    <3>1. \A Q : \A x \in Q : <<x>> \in Seq(Q)
      OBVIOUS
    <3>2. <<s>> \in Seq(Seq(S))
      BY ONLY s \in Seq(S), <3>1
    <3> QED BY <3>2
  <2> DEFINE at == [i \in 1 .. 2 |-> IF i = 1 THEN 0 ELSE Len(s)]
  <2>2. Len(ss) = 1 /\ ss[1] = s
    BY <2>1
  <2>3. Cuts(ss, s, at)
    BY <2>2 DEF Cuts
  <2>4. FlattenSeq(ss) = s
    BY <2>3, FlattenOfCuts
  <2> QED BY <1>1, <2>1, <2>4
<1>2. CASE OnReplicas(s) = Shards(s, Replicas)
  <2>1. Replicas \in Nat \ {0}
    BY DEF NodesOk
  <2>2. Shards(s, Replicas) \in Seq(Seq(S)) /\ FlattenSeq(Shards(s, Replicas)) = s
    BY <2>1, ShardsEndToEnd
  <2> QED BY <1>2, <2>2
<1> QED BY <1>1, <1>2 DEF OnReplicas

\* What a ranking model gives the pairs.
Given(P) == [p \in P |-> Relevance[p[1]][p[2]]]

\* A ranking model gives each pair a score of its own; so does tart, with queries and
\* contents in lists apart.
LEMMA ScoresAreGiven ==
  ASSUME NEW P, NEW s \in Seq(P)
  PROVE  ModelScores(s) = Each(Given(P), s) /\ TartScores(s) = Each(Given(P), s)
<1>1. \A i \in DOMAIN s : s[i] \in P
  OBVIOUS
<1>2. \A i \in DOMAIN s : Given(P)[s[i]] = Relevance[s[i][1]][s[i][2]]
  BY <1>1 DEF Given
<1>3. ModelScores(s) = [i \in DOMAIN s |-> Relevance[s[i][1]][s[i][2]]]
  BY DEF ModelScores, Mapped
<1>4. TartScores(s) = [i \in DOMAIN s |-> Relevance[s[i][1]][s[i][2]]]
  BY DEF TartScores, Mapped
<1>5. Each(Given(P), s) = [i \in DOMAIN s |-> Given(P)[s[i]]]
  BY DEF Each
<1> QED BY ONLY <1>2, <1>3, <1>4, <1>5

\* So it does list by list.
LEMMA ScoresOfLists ==
  ASSUME NEW P, NEW ss \in Seq(Seq(P))
  PROVE  /\ [i \in DOMAIN ss |-> ModelScores(ss[i])] = EachOf(Given(P), ss)
         /\ [i \in DOMAIN ss |-> TartScores(ss[i])] = EachOf(Given(P), ss)
<1>1. \A i \in DOMAIN ss : /\ ModelScores(ss[i]) = Each(Given(P), ss[i])
                           /\ TartScores(ss[i]) = Each(Given(P), ss[i])
  <2> TAKE i \in DOMAIN ss
  <2>1. ss[i] \in Seq(P)
    OBVIOUS
  <2> QED BY ONLY <2>1, ScoresAreGiven
<1>2. EachOf(Given(P), ss) = [i \in DOMAIN ss |-> Each(Given(P), ss[i])]
  BY DEF EachOf
<1> QED BY ONLY <1>1, <1>2

\* However the pairs are cut into batches, the scores are those of the pairs.
LEMMA BatchedScores ==
  ASSUME NodesOk, NEW P, NEW s \in Seq(P)
  PROVE  /\ InBatches(ModelScores, s) = ModelScores(s)
         /\ \A model : BatchScores(model, s) = ModelScores(s)
<1>1. PICK b \in Seq(Seq(P)) : b = MakeBatch(s, Chunk) /\ FlattenSeq(b) = s
  <2>1. Chunk \in Nat \ {0}
    BY DEF NodesOk
  <2> QED BY <2>1, BatchesEndToEnd
<1>2. FlattenSeq(EachOf(Given(P), b)) = Each(Given(P), s)
  BY <1>1, EachEndToEnd
<1>3. FlattenSeq([i \in DOMAIN b |-> ModelScores(b[i])]) = ModelScores(s)
  BY <1>2, ScoresOfLists, ScoresAreGiven
<1>4. FlattenSeq([i \in DOMAIN b |-> TartScores(b[i])]) = ModelScores(s)
  BY <1>2, ScoresOfLists, ScoresAreGiven
<1> QED BY <1>1, <1>3, <1>4 DEF InBatches, Mapped, BatchScores

\* On however many replicas and in whatever batches, the scores are those of the pairs.
LEMMA ReplicaScores ==
  ASSUME NodesOk, NEW P, NEW s \in Seq(P), NEW model
  PROVE  FlattenSeq(Mapped(LAMBDA t : BatchScores(model, t), OnReplicas(s))) = ModelScores(s)
<1>1. PICK ss \in Seq(Seq(P)) : ss = OnReplicas(s) /\ FlattenSeq(ss) = s
  BY ReplicasEndToEnd
<1>2. \A i \in DOMAIN ss : BatchScores(model, ss[i]) = ModelScores(ss[i])
  <2> TAKE i \in DOMAIN ss
  <2>1. ss[i] \in Seq(P)
    OBVIOUS
  <2> QED BY <2>1, BatchedScores
<1>3. FlattenSeq(EachOf(Given(P), ss)) = Each(Given(P), s)
  BY <1>1, EachEndToEnd
<1>4. FlattenSeq([i \in DOMAIN ss |-> ModelScores(ss[i])]) = ModelScores(s)
  BY <1>3, ScoresOfLists, ScoresAreGiven
<1>5. [i \in DOMAIN ss |-> BatchScores(model, ss[i])] = [i \in DOMAIN ss |-> ModelScores(ss[i])]
  BY <1>2
<1> QED BY <1>1, <1>4, <1>5 DEF Mapped

\* Rows whose passages are a list.
HitsReady(f) == IsList(f) /\ \A i \in DOMAIN f : IsList(Hits(f[i]))
\* A row's pairs of query and passage, and its passages' scores.
PairsOf(r) == [j \in DOMAIN Hits(r) |-> <<r.query, TextOf(Hits(r)[j].id)>>]
ScoresIn(r) == [j \in DOMAIN Hits(r) |-> Relevance[r.query][TextOf(Hits(r)[j].id)]]

\* embedding_query_content's list of pairs is the rows' pairs end to end.
LEMMA PairLists ==
  ASSUME NEW f, HitsReady(f)
  PROVE  \E P : \E pp \in Seq(Seq(P)) :
           /\ pp = [i \in DOMAIN f |-> PairsOf(f[i])] /\ Flat(f) = FlattenSeq(pp)
           /\ Lengths(f) = Lens(pp)
           /\ EachOf(Given(P), pp) = [i \in DOMAIN f |-> ScoresIn(f[i])]
<1>1. PICK n \in Nat : DOMAIN f = 1 .. n /\ Len(f) = n
  BY ListFacts DEF HitsReady
<1>2. PICK pp : pp = [i \in 1 .. n |-> PairsOf(f[i])]
  OBVIOUS
<1>3. ASSUME NEW i \in 1 .. n
      PROVE  /\ IsList(pp[i]) /\ Len(pp[i]) = Len(Hits(f[i])) /\ DOMAIN pp[i] = DOMAIN Hits(f[i])
             /\ \A j \in DOMAIN pp[i] : pp[i][j] = <<f[i].query, TextOf(Hits(f[i])[j].id)>>
  <2>1. PICK m \in Nat : m = Len(Hits(f[i])) /\ DOMAIN Hits(f[i]) = 1 .. m
    BY <1>1, ListFacts DEF HitsReady
  <2>2. pp[i] = [j \in 1 .. m |-> <<f[i].query, TextOf(Hits(f[i])[j].id)>>]
    BY <1>2, <2>1 DEF PairsOf
  <2>3. pp[i] = [j \in 1 .. m |-> pp[i][j]]
    BY <2>2
  <2>4. IsList(pp[i]) /\ Len(pp[i]) = m /\ DOMAIN pp[i] = 1 .. m
    BY <2>3, ListFacts
  <2> QED BY <2>1, <2>2, <2>4
<1>4. IsList(pp) /\ Len(pp) = n /\ DOMAIN pp = 1 .. n
  <2>1. pp = [i \in 1 .. n |-> pp[i]]
    BY <1>2
  <2> QED BY <2>1, ListFacts
<1>5. PICK P : pp \in Seq(Seq(P))
  BY <1>3, <1>4, NestedLists
<1>6. Flat(f) = FlattenSeq(pp)
  BY <1>1, <1>2 DEF Flat, Mapped, PairsOf
<1>7. Lengths(f) = Lens(pp)
  BY <1>1, <1>3, <1>4 DEF Lengths, Mapped, Lens
<1>8. ASSUME NEW i \in 1 .. n PROVE Each(Given(P), pp[i]) = ScoresIn(f[i])
  <2>1. \A j \in DOMAIN pp[i] : pp[i][j] \in P
    BY <1>4, <1>5
  <2>2. \A j \in DOMAIN pp[i] : Given(P)[pp[i][j]] = Relevance[f[i].query][TextOf(Hits(f[i])[j].id)]
    BY <2>1, <1>3 DEF Given
  <2> QED BY <2>2, <1>3 DEF Each, ScoresIn
<1>9. EachOf(Given(P), pp) = [i \in DOMAIN f |-> ScoresIn(f[i])]
  BY <1>1, <1>4, <1>8 DEF EachOf
<1> QED BY <1>1, <1>2, <1>5, <1>6, <1>7, <1>9

\* The scores of all rows' pairs in one list, on whatever replicas and in whatever
\* batches, cut back: each row's scores of its own passages.
LEMMA ScoresByRow ==
  ASSUME NodesOk, NEW f, HitsReady(f)
  PROVE  LET byRow == [i \in DOMAIN f |-> ScoresIn(f[i])] IN
         /\ Similarities(f) = byRow /\ \A model : PairScores(f, model) = byRow
         /\ Regrouped(ModelScores(Flat(f)), Lengths(f)) = byRow
<1>0. PICK P : \E pp \in Seq(Seq(P)) :
        /\ Flat(f) = FlattenSeq(pp) /\ Lengths(f) = Lens(pp)
        /\ EachOf(Given(P), pp) = [i \in DOMAIN f |-> ScoresIn(f[i])]
  BY PairLists
<1>1. PICK pp \in Seq(Seq(P)) :
        /\ Flat(f) = FlattenSeq(pp) /\ Lengths(f) = Lens(pp)
        /\ EachOf(Given(P), pp) = [i \in DOMAIN f |-> ScoresIn(f[i])]
  BY <1>0
<1>2. PICK s \in Seq(P) : s = FlattenSeq(pp)
  BY FlattenFacts
<1>3. Regrouped(Each(Given(P), s), Lens(pp)) = EachOf(Given(P), pp)
  BY <1>2, RegroupedEach
<1>4. ModelScores(s) = Each(Given(P), s)
  BY ScoresAreGiven
<1>5. Regrouped(ModelScores(Flat(f)), Lengths(f)) = [i \in DOMAIN f |-> ScoresIn(f[i])]
  BY <1>1, <1>2, <1>3, <1>4
<1>6. InBatches(ModelScores, s) = ModelScores(s)
  BY BatchedScores
<1>7. \A model : FlattenSeq(Mapped(LAMBDA t : BatchScores(model, t), OnReplicas(s))) = ModelScores(s)
  BY ReplicaScores
<1>8. s = Flat(f)
  BY <1>1, <1>2
<1>9. Similarities(f) = Regrouped(ModelScores(Flat(f)), Lengths(f))
  BY ONLY <1>6, <1>8 DEF Similarities
<1>10. ASSUME NEW model PROVE PairScores(f, model) = Regrouped(ModelScores(Flat(f)), Lengths(f))
  BY ONLY <1>7, <1>8 DEF PairScores, Mapped
<1> QED BY ONLY <1>5, <1>9, <1>10

\* What monot5's model gives the pairs, and a row's passages, at a step of its own.
AtStep(P, n) == [p \in P |-> StepScore[n][p[1]][p[2]]]
StepIn(r, n) == [j \in DOMAIN Hits(r) |-> StepScore[n][r.query][TextOf(Hits(r)[j].id)]]

\* The largest of one number is that number.
LEMMA LargestOfOne ==
  ASSUME NEW n \in Nat
  PROVE  Max({n}) = n
<1>1. IsFiniteSet({n})
  BY FS_Singleton
<1>2. {n} # {} /\ {n} \subseteq Int
  OBVIOUS
<1>3. Max({n}) \in {n}
  BY ONLY <1>1, <1>2, LargestOf
<1> QED BY <1>3

\* A forward pass on pairs that all take as many steps scores each at its own last one.
LEMMA EvenSteps ==
  ASSUME NEW P, NEW s \in Seq(P), NEW n \in Nat, \A p \in P : AnswerSteps[p[1]][p[2]] = n
  PROVE  StepScores(s) = Each(AtStep(P, n), s)
<1>1. PICK last : last = Max({AnswerSteps[p[1]][p[2]] : p \in ToSet(s)})
  OBVIOUS
<1>2. StepScores(s) = [i \in DOMAIN s |-> StepScore[last][s[i][1]][s[i][2]]]
  BY <1>1 DEF StepScores, Mapped
<1>3. \A i \in DOMAIN s : s[i] \in P
  OBVIOUS
<1>4. ASSUME NEW i \in DOMAIN s PROVE last = n
  <2>1. {AnswerSteps[p[1]][p[2]] : p \in ToSet(s)} = {n}
    BY <1>3, <1>4 DEF ToSet
  <2> QED BY <1>1, <2>1, LargestOfOne
<1>5. \A i \in DOMAIN s : StepScore[last][s[i][1]][s[i][2]] = AtStep(P, n)[s[i]]
  BY <1>3, <1>4 DEF AtStep
<1> QED BY ONLY <1>2, <1>5 DEF Each

\* monot5_run_model comes back from running out of memory with the same scores, when all
\* its pairs take as many steps.
LEMMA MicroBatchScores ==
  ASSUME NodesOk, NEW P, NEW s \in Seq(P), NEW fits \in 1 .. Chunk,
         NEW n \in Nat, \A p \in P : AnswerSteps[p[1]][p[2]] = n
  PROVE  MicroBatches(s, fits) = Each(AtStep(P, n), s)
<1>1. Chunk \in Nat \ {0}
  BY DEF NodesOk
<1>2. \A m \in Nat : Fitting(m, fits) \in Nat \ {0}
  <2> TAKE m \in Nat
  <2>1. PICK c : c = {m, m \div 2, m \div 4, 1} \cap 1 .. fits
    OBVIOUS
  <2>2. IsFiniteSet(c) /\ c # {} /\ c \subseteq Int /\ c \subseteq 1 .. fits
    <3>1. fits \in Nat /\ 1 \in 1 .. fits
      BY <1>1
    <3>2. IsFiniteSet(1 .. fits)
      BY ONLY <3>1, FS_Interval
    <3>3. c \in SUBSET (1 .. fits) /\ 1 \in c
      BY <2>1, <3>1
    <3>4. IsFiniteSet(c)
      BY <3>2, <3>3, FS_Subset
    <3> QED BY <3>3, <3>4
  <2>3. Max(c) \in c
    BY ONLY <2>2, LargestOf
  <2> QED BY <2>1, <2>2, <2>3 DEF Fitting
<1>3. PICK h : h = AtStep(P, n)
  OBVIOUS
<1>4. \A b \in Seq(P) : StepScores(b) = Each(h, b)
  BY ONLY <1>3, n \in Nat, \A p \in P : AnswerSteps[p[1]][p[2]] = n, EvenSteps
<1>5. ASSUME NEW bb \in Seq(Seq(P)) PROVE [i \in DOMAIN bb |-> StepScores(bb[i])] = EachOf(h, bb)
  <2>1. \A i \in DOMAIN bb : bb[i] \in Seq(P)
    OBVIOUS
  <2> QED BY ONLY <1>4, <2>1 DEF EachOf
<1>6. \A b \in Seq(P) :
        FlattenSeq(Mapped(StepScores, MakeBatch(b, Fitting(Len(b), fits)))) = Each(h, b)
  <2> TAKE b \in Seq(P)
  <2>1. PICK m \in Nat \ {0} : m = Fitting(Len(b), fits)
    BY <1>2
  <2>2. PICK bb \in Seq(Seq(P)) : bb = MakeBatch(b, m) /\ FlattenSeq(bb) = b
    BY BatchesEndToEnd
  <2>3. FlattenSeq(EachOf(h, bb)) = Each(h, b)
    BY <2>2, EachEndToEnd
  <2>4. [i \in DOMAIN bb |-> StepScores(bb[i])] = EachOf(h, bb)
    BY <1>5
  <2> QED BY ONLY <2>1, <2>2, <2>3, <2>4 DEF Mapped
<1>7. PICK ss \in Seq(Seq(P)) : ss = MakeBatch(s, Chunk) /\ FlattenSeq(ss) = s
  BY <1>1, BatchesEndToEnd
<1>8. FlattenSeq(EachOf(h, ss)) = Each(h, s)
  BY <1>7, EachEndToEnd
<1>9. \A i \in DOMAIN ss :
        FlattenSeq(Mapped(StepScores, MakeBatch(ss[i], Fitting(Len(ss[i]), fits)))) = EachOf(h, ss)[i]
  <2>1. \A i \in DOMAIN ss : ss[i] \in Seq(P)
    OBVIOUS
  <2> QED BY ONLY <1>6, <2>1 DEF Mapped, EachOf
<1>10. DOMAIN EachOf(h, ss) = DOMAIN ss /\ EachOf(h, ss) = [i \in DOMAIN ss |-> EachOf(h, ss)[i]]
  BY DEF EachOf
<1> QED BY ONLY <1>3, <1>7, <1>8, <1>9, <1>10 DEF MicroBatches, Mapped

\* Of pairs that all take as many steps, monot5, on replicas and out of memory, gives each
\* row the scores of its own passages.
LEMMA MonoT5ByRow ==
  ASSUME NodesOk, NEW f, HitsReady(f), NEW fits \in 1 .. Chunk, NEW n \in Nat,
         \A i \in DOMAIN f : \A j \in DOMAIN Hits(f[i]) :
           AnswerSteps[f[i].query][TextOf(Hits(f[i])[j].id)] = n
  PROVE  Regrouped(FlattenSeq(Mapped(LAMBDA s : MicroBatches(s, fits), OnReplicas(Flat(f)))),
                   Lengths(f)) = [i \in DOMAIN f |-> StepIn(f[i], n)]
<1>1. PICK pp : /\ pp = [i \in DOMAIN f |-> PairsOf(f[i])] /\ \E P : pp \in Seq(Seq(P))
                /\ Flat(f) = FlattenSeq(pp) /\ Lengths(f) = Lens(pp)
  BY PairLists
<1>2. PICK P : P = {p \in UNION {ToSet(pp[i]) : i \in DOMAIN pp} : AnswerSteps[p[1]][p[2]] = n}
  OBVIOUS
<1>3. pp \in Seq(Seq(P))
  <2>1. PICK K \in Nat : DOMAIN pp = 1 .. K /\ DOMAIN pp = DOMAIN f /\ pp = [i \in 1 .. K |-> pp[i]]
    <3>1. IsList(f)
      BY DEF HitsReady
    <3>2. PICK K \in Nat : DOMAIN f = 1 .. K
      BY <3>1, ListFacts
    <3>3. pp = [i \in 1 .. K |-> PairsOf(f[i])]
      BY <1>1, <3>2
    <3> QED BY ONLY K \in Nat, <3>2, <3>3
  <2>2. ASSUME NEW i \in 1 .. K PROVE pp[i] \in Seq(P)
    <3>1. IsList(Hits(f[i])) /\ i \in DOMAIN f /\ i \in DOMAIN pp
      BY <2>1 DEF HitsReady
    <3>2. PICK l \in Nat : DOMAIN Hits(f[i]) = 1 .. l
      BY <3>1, ListFacts
    <3>3. pp[i] = [j \in 1 .. l |-> <<f[i].query, TextOf(Hits(f[i])[j].id)>>]
      BY <1>1, <3>1, <3>2 DEF PairsOf
    <3>4. pp[i] = [j \in 1 .. l |-> pp[i][j]] /\ DOMAIN pp[i] = 1 .. l
      BY ONLY <3>3
    <3>5. ASSUME NEW j \in 1 .. l PROVE pp[i][j] \in P
      <4>1. pp[i][j] \in ToSet(pp[i])
        BY ONLY <3>4, <3>5 DEF ToSet
      <4>2. pp[i][j] \in UNION {ToSet(pp[k]) : k \in DOMAIN pp}
        BY ONLY <4>1, <3>1
      <4>3. AnswerSteps[pp[i][j][1]][pp[i][j][2]] = n
        <5>1. PICK t : t = TextOf(Hits(f[i])[j].id)
          OBVIOUS
        <5>2. AnswerSteps[f[i].query][t] = n
          BY <3>1, <3>2, <3>5, <5>1
        <5>3. pp[i][j] = <<f[i].query, t>>
          BY ONLY <3>3, <3>5, <5>1
        <5> QED BY ONLY <5>2, <5>3
      <4> QED BY ONLY <1>2, <4>2, <4>3
    <3> QED BY ONLY l \in Nat, <3>4, <3>5, ListOf
  <2>3. PICK Q : Q = Seq(P)
    OBVIOUS
  <2>4. pp \in Seq(Q)
    BY ONLY K \in Nat, <2>1, <2>2, <2>3, ListOf
  <2> QED BY <2>3, <2>4
<1>4. PICK s \in Seq(P) : s = Flat(f) /\ s = FlattenSeq(pp)
  BY <1>1, <1>3, FlattenFacts
<1>5. PICK ss \in Seq(Seq(P)) : ss = OnReplicas(s) /\ FlattenSeq(ss) = s
  BY ReplicasEndToEnd
<1>6. PICK h : h = AtStep(P, n)
  OBVIOUS
<1>7. \A i \in DOMAIN ss : MicroBatches(ss[i], fits) = EachOf(h, ss)[i]
  <2> TAKE i \in DOMAIN ss
  <2>1. ss[i] \in Seq(P)
    OBVIOUS
  <2>2. MicroBatches(ss[i], fits) = Each(h, ss[i])
    BY <1>2, <1>6, <2>1, MicroBatchScores
  <2> QED BY <2>2 DEF EachOf
<1>8. FlattenSeq(EachOf(h, ss)) = Each(h, s) /\ EachOf(h, ss) = [i \in DOMAIN ss |-> EachOf(h, ss)[i]]
  BY <1>5, EachEndToEnd DEF EachOf
<1>9. FlattenSeq(Mapped(LAMBDA t : MicroBatches(t, fits), OnReplicas(Flat(f)))) = Each(h, s)
  BY ONLY <1>4, <1>5, <1>7, <1>8 DEF Mapped, EachOf
<1>10. Regrouped(Each(h, s), Lengths(f)) = EachOf(h, pp)
  BY <1>1, <1>3, <1>4, RegroupedEach
<1>11. ASSUME NEW i \in DOMAIN f PROVE Each(h, pp[i]) = StepIn(f[i], n)
  <2>1. pp[i] = [j \in DOMAIN Hits(f[i]) |-> <<f[i].query, TextOf(Hits(f[i])[j].id)>>]
    BY <1>1 DEF PairsOf
  <2>2. pp[i] \in Seq(P)
    BY <1>1, <1>3
  <2>3. \A j \in DOMAIN pp[i] : pp[i][j] \in P
    BY <2>2
  <2>4. \A j \in DOMAIN pp[i] : h[pp[i][j]] = StepScore[n][f[i].query][TextOf(Hits(f[i])[j].id)]
    BY <1>6, <2>1, <2>3 DEF AtStep
  <2> QED BY ONLY <2>1, <2>4 DEF Each, StepIn
<1>12. EachOf(h, pp) = [i \in DOMAIN f |-> StepIn(f[i], n)]
  BY <1>1, <1>11 DEF EachOf
<1> QED BY ONLY <1>9, <1>10, <1>12 DEF Mapped

\* Rows whose texts are a list.
TextsReady(f) == IsList(f) /\ \A i \in DOMAIN f : IsList(Texts(f[i]))

TextsOf(f) == [i \in DOMAIN f |-> Texts(f[i])]

\* The rows' texts are a list of lists.
LEMMA TextLists ==
  ASSUME NEW f, TextsReady(f)
  PROVE  /\ IsList(TextsOf(f)) /\ DOMAIN TextsOf(f) = DOMAIN f
         /\ \E P : TextsOf(f) \in Seq(Seq(P))
<1>1. PICK n \in Nat : DOMAIN f = 1 .. n /\ Len(f) = n
  BY ListFacts DEF TextsReady
<1>2. PICK tt : tt = [i \in DOMAIN f |-> Texts(f[i])]
  OBVIOUS
<1>3. IsList(tt) /\ DOMAIN tt = DOMAIN f
  <2>1. tt = [i \in 1 .. n |-> tt[i]]
    BY <1>1, <1>2
  <2> QED BY <1>1, <2>1, ListFacts
<1>4. \A i \in DOMAIN tt : IsList(tt[i])
  BY <1>2 DEF TextsReady
<1>5. \E P : tt \in Seq(Seq(P))
  BY <1>3, <1>4, NestedLists
<1> QED BY <1>2, <1>3, <1>5 DEF TextsOf

\* _compress_query_batch: together or row by row, the texts are squeezed alike.
LEMMA LLMLingua2ByRow ==
  ASSUME NEW f, TextsReady(f), NEW ragged
  PROVE  LLMLingua2(f, ragged) = [i \in DOMAIN f |-> Compressed(f[i], Squeezed(Texts(f[i])))]
<1>1. PICK tt : tt = [i \in DOMAIN f |-> Texts(f[i])] /\ tt = TextsOf(f)
  BY DEF TextsOf
<1>2. PICK P : tt \in Seq(Seq(P))
  BY <1>1, TextLists
<1>3. PICK h : h = [t \in P |-> <<"short", t>>]
  OBVIOUS
<1>4. \A s \in Seq(P) : Squeezed(s) = Each(h, s)
  <2> TAKE s \in Seq(P)
  <2>1. \A i \in DOMAIN s : h[s[i]] = <<"short", s[i]>>
    BY <1>3
  <2> QED BY <2>1 DEF Squeezed, Mapped, Each
<1>5. PICK flat \in Seq(P) : flat = FlattenSeq(tt)
  BY <1>2, FlattenFacts
<1>6. Regrouped(Each(h, flat), Lens(tt)) = EachOf(h, tt)
  BY <1>2, <1>5, RegroupedEach
<1>7. Lens(tt) = Mapped(LAMBDA r : Len(Texts(r)), f)
  BY <1>1 DEF Lens, Mapped
<1>8. \A i \in DOMAIN f : Squeezed(Texts(f[i])) = EachOf(h, tt)[i]
  <2> TAKE i \in DOMAIN f
  <2>1. tt[i] \in Seq(P) /\ tt[i] = Texts(f[i]) /\ i \in DOMAIN tt
    BY <1>1, <1>2
  <2>2. Squeezed(tt[i]) = Each(h, tt[i])
    BY <1>4, <2>1
  <2> QED BY <2>1, <2>2 DEF EachOf
<1>9. \A i \in DOMAIN f :
        Regrouped(Squeezed(FlattenSeq(Mapped(Texts, f))), Mapped(LAMBDA r : Len(Texts(r)), f))[i]
          = Squeezed(Texts(f[i]))
  BY ONLY flat \in Seq(P), <1>1, <1>4, <1>5, <1>6, <1>7, <1>8 DEF Mapped
<1> QED BY ONLY <1>9 DEF LLMLingua2, Mapped

\* Padded to so many tokens, and a row's passages scored so.
PaddedTo(S, m) == [t \in S |-> [of |-> t, width |-> m]]
LateIn(r, m, n) == [j \in DOMAIN Hits(r) |-> LateScore[r.query][TextOf(Hits(r)[j].id)][m][n]]

\* Strings that are as long are padded to their own length, on whatever replica.
LEMMA EvenPadding ==
  ASSUME NodesOk, NEW S, NEW s \in Seq(S), NEW m \in Nat, \A t \in S : Tokens[t] = m
  PROVE  Embedded(s) = Each(PaddedTo(S, m), s)
<1>1. PICK h : h = PaddedTo(S, m)
  OBVIOUS
<1>2. ASSUME NEW b \in Seq(S) PROVE Padded(b) = Each(h, b)
  <2>1. PICK width : width = Max({Tokens[t] : t \in ToSet(b)})
    OBVIOUS
  <2>2. Padded(b) = [i \in DOMAIN b |-> [of |-> b[i], width |-> width]]
    BY <2>1 DEF Padded, Mapped
  <2>3. \A i \in DOMAIN b : b[i] \in S
    OBVIOUS
  <2>4. ASSUME NEW i \in DOMAIN b PROVE width = m
    <3>1. \A t \in ToSet(b) : Tokens[t] = m
      BY <2>3 DEF ToSet
    <3>2. b[i] \in ToSet(b)
      BY <2>4 DEF ToSet
    <3>3. {Tokens[t] : t \in ToSet(b)} = {m}
      BY ONLY <3>1, <3>2
    <3> QED BY <2>1, <3>3, LargestOfOne
  <2>5. \A i \in DOMAIN b : [of |-> b[i], width |-> width] = h[b[i]]
    BY <1>1, <2>3, <2>4 DEF PaddedTo
  <2> QED BY ONLY <2>2, <2>5 DEF Each
<1>3. PICK ss \in Seq(Seq(S)) : ss = OnReplicas(s) /\ FlattenSeq(ss) = s
  BY ReplicasEndToEnd
<1>4. FlattenSeq(EachOf(h, ss)) = Each(h, s)
  BY <1>3, EachEndToEnd
<1>5. [i \in DOMAIN ss |-> Padded(ss[i])] = EachOf(h, ss)
  <2>1. \A i \in DOMAIN ss : ss[i] \in Seq(S)
    OBVIOUS
  <2> QED BY ONLY <1>2, <2>1 DEF EachOf
<1> QED BY ONLY <1>1, <1>3, <1>4, <1>5 DEF Embedded, Mapped

\* Of queries and texts that are as long, colbert, with both embedded apart, scores each
\* row's own passages.
LEMMA ColbertByRow ==
  ASSUME NodesOk, NEW f, IsList(f), NEW m \in Nat, NEW n \in Nat,
         \A i \in DOMAIN f : IsList(Hits(f[i])) /\ f[i].texts = NoHits /\ Tokens[f[i].query] = m,
         \A i \in DOMAIN f : \A j \in DOMAIN Hits(f[i]) : Tokens[TextOf(Hits(f[i])[j].id)] = n
  PROVE  Colbert(f) = Ranked(f, [i \in DOMAIN f |-> LateIn(f[i], m, n)])
<1>1. PICK K \in Nat : DOMAIN f = 1 .. K /\ Len(f) = K
  BY ListFacts
<1>2. PICK P : P = {t \in UNION {ToSet(Texts(f[i])) : i \in DOMAIN f} : Tokens[t] = n}
  OBVIOUS
<1>3. ASSUME NEW i \in DOMAIN f
      PROVE  /\ Texts(f[i]) = [j \in DOMAIN Hits(f[i]) |-> TextOf(Hits(f[i])[j].id)]
             /\ Texts(f[i]) \in Seq(P) /\ Len(Texts(f[i])) = Len(Hits(f[i]))
  <2>1. PICK l \in Nat : l = Len(Hits(f[i])) /\ DOMAIN Hits(f[i]) = 1 .. l
    BY ListFacts
  <2>2. PICK t : t = [j \in 1 .. l |-> TextOf(Hits(f[i])[j].id)]
    OBVIOUS
  <2>3. Texts(f[i]) = t
    BY <2>1, <2>2 DEF Texts, Contents
  <2>4. ASSUME NEW j \in 1 .. l PROVE t[j] \in P
    <3>1. t[j] \in ToSet(t)
      BY <2>2 DEF ToSet
    <3>2. t[j] \in UNION {ToSet(Texts(f[k])) : k \in DOMAIN f}
      BY <2>3, <3>1
    <3>3. Tokens[t[j]] = n
      BY <2>1, <2>2
    <3> QED BY ONLY <1>2, <3>2, <3>3
  <2>6. t \in Seq(P) /\ Len(t) = l
    BY ONLY l \in Nat, <2>2, <2>4, ListOf
  <2> QED BY <2>1, <2>2, <2>3, <2>6
<1>4. PICK tt : tt = [i \in DOMAIN f |-> Texts(f[i])]
  OBVIOUS
<1>5. tt \in Seq(Seq(P)) /\ DOMAIN tt = DOMAIN f
  <2>1. PICK Q : Q = Seq(P)
    OBVIOUS
  <2>2. tt = [i \in 1 .. K |-> tt[i]] /\ \A i \in 1 .. K : tt[i] \in Q
    BY <1>1, <1>3, <1>4, <2>1
  <2>3. tt \in Seq(Q) /\ DOMAIN tt = 1 .. K
    BY ONLY K \in Nat, <2>2, ListOf
  <2> QED BY <1>1, <2>1, <2>3
<1>6. PICK flat \in Seq(P) : flat = FlattenSeq(tt)
  BY <1>5, FlattenFacts
<1>7. PICK h : h = PaddedTo(P, n)
  OBVIOUS
<1>8. Embedded(flat) = Each(h, flat)
  BY <1>2, <1>7, EvenPadding
<1>9. Regrouped(Each(h, flat), Lens(tt)) = EachOf(h, tt)
  BY <1>5, <1>6, RegroupedEach
<1>10. Lens(tt) = Lengths(f)
  BY <1>3, <1>4 DEF Lens, Lengths, Mapped
<1>11. Regrouped(Embedded(FlattenSeq(Mapped(Texts, f))), Lengths(f)) = EachOf(h, tt)
  BY ONLY <1>4, <1>6, <1>8, <1>9, <1>10 DEF Mapped
<1>12. PICK qs : qs = [i \in DOMAIN f |-> f[i].query]
  OBVIOUS
<1>13. PICK Q : Q = {q \in ToSet(qs) : Tokens[q] = m}
  OBVIOUS
<1>14. qs \in Seq(Q)
  <2>1. qs = [i \in 1 .. K |-> qs[i]] /\ \A i \in 1 .. K : qs[i] \in Q
    BY <1>1, <1>12, <1>13 DEF ToSet
  <2> QED BY ONLY K \in Nat, <2>1, ListOf
<1>15. Embedded(qs) = Each(PaddedTo(Q, m), qs)
  BY <1>13, <1>14, EvenPadding
<1>16. Embedded(Mapped(LAMBDA r : r.query, f)) = Each(PaddedTo(Q, m), qs)
  BY ONLY <1>12, <1>15 DEF Mapped
<1>17. ASSUME NEW i \in DOMAIN f
       PROVE  [j \in DOMAIN EachOf(h, tt)[i] |->
                 ColbertScore(Each(PaddedTo(Q, m), qs)[i], EachOf(h, tt)[i][j])] = LateIn(f[i], m, n)
  <2>1. Each(PaddedTo(Q, m), qs)[i] = [of |-> f[i].query, width |-> m]
    <3>1. qs[i] \in Q /\ qs[i] = f[i].query /\ i \in DOMAIN qs
      BY <1>12, <1>14
    <3> QED BY <3>1 DEF Each, PaddedTo
  <2>2. EachOf(h, tt)[i] = Each(h, tt[i]) /\ tt[i] \in Seq(P) /\ tt[i] = Texts(f[i])
    BY <1>4, <1>5 DEF EachOf
  <2>3. DOMAIN tt[i] = DOMAIN Hits(f[i]) /\ \A j \in DOMAIN tt[i] : tt[i][j] = TextOf(Hits(f[i])[j].id)
    BY <1>3, <2>2
  <2>4. \A j \in DOMAIN tt[i] : tt[i][j] \in P
    BY <2>2
  <2>5. /\ DOMAIN EachOf(h, tt)[i] = DOMAIN Hits(f[i])
        /\ \A j \in DOMAIN Hits(f[i]) :
             EachOf(h, tt)[i][j] = [of |-> TextOf(Hits(f[i])[j].id), width |-> n]
    BY ONLY <1>7, <2>2, <2>3, <2>4 DEF Each, PaddedTo
  <2>6. \A j \in DOMAIN Hits(f[i]) :
          ColbertScore(Each(PaddedTo(Q, m), qs)[i], EachOf(h, tt)[i][j])
            = LateScore[f[i].query][TextOf(Hits(f[i])[j].id)][m][n]
    <3> TAKE j \in DOMAIN Hits(f[i])
    <3>1. PICK q : q = Each(PaddedTo(Q, m), qs)[i]
      OBVIOUS
    <3>2. PICK t : t = EachOf(h, tt)[i][j]
      OBVIOUS
    <3>3. q = [of |-> f[i].query, width |-> m]
      BY ONLY <2>1, <3>1
    <3>4. t = [of |-> TextOf(Hits(f[i])[j].id), width |-> n]
      BY ONLY j \in DOMAIN Hits(f[i]), <2>5, <3>2
    <3>5. /\ q.of = f[i].query /\ q.width = m
          /\ t.of = TextOf(Hits(f[i])[j].id) /\ t.width = n
      BY ONLY <3>3, <3>4
    <3>6. ColbertScore(q, t) = LateScore[f[i].query][TextOf(Hits(f[i])[j].id)][m][n]
      BY ONLY <3>5 DEF ColbertScore
    <3> QED BY ONLY <3>1, <3>2, <3>6
  <2> QED BY ONLY <2>5, <2>6 DEF LateIn
<1>18. Colbert(f) = Ranked(f, [i \in DOMAIN f |-> [j \in DOMAIN EachOf(h, tt)[i] |->
                      ColbertScore(Each(PaddedTo(Q, m), qs)[i], EachOf(h, tt)[i][j])]])
  BY ONLY <1>11, <1>16 DEF Colbert, Mapped
<1> QED BY ONLY <1>17, <1>18

\* What the vector store finds a query.
Found(index) == [q \in Queries |-> IF index = "ivf" THEN FaissIvf(q) ELSE FaissHnsw(q)]
\* For each of a row's queries.
FoundOf(index, queries) == [j \in DOMAIN queries |-> Found(index)[queries[j]]]

\* VectorDB._pure: searched at once or in chunks, each row's queries get their own hits.
LEMMA VectorSearchByRow ==
  ASSUME NodesOk, NEW f, IsList(f), \A i \in DOMAIN f : f[i].queries \in Seq(Queries),
         NEW index
  PROVE  VectorSearch(f, index) =
           [i \in DOMAIN f |-> [f[i] EXCEPT !.semantic = Fused(FoundOf(index, f[i].queries))]]
<1>1. PICK n \in Nat : DOMAIN f = 1 .. n /\ Len(f) = n
  BY ListFacts
<1>2. PICK qq : qq = [i \in DOMAIN f |-> f[i].queries]
  OBVIOUS
<1>3. qq \in Seq(Seq(Queries)) /\ DOMAIN qq = DOMAIN f
  <2>1. qq = [i \in 1 .. n |-> qq[i]] /\ \A i \in 1 .. n : qq[i] \in Seq(Queries)
    BY <1>1, <1>2
  <2>2. PICK Q : Q = Seq(Queries)
    OBVIOUS
  <2>3. qq \in Seq(Q) /\ DOMAIN qq = 1 .. n
    BY <2>1, <2>2, ListOf
  <2> QED BY <2>2, <2>3, <1>1
<1>4. PICK flat \in Seq(Queries) : flat = FlattenSeq(qq)
  BY <1>3, FlattenFacts
<1>5. PICK h : h = Found(index)
  OBVIOUS
<1>6. \A s \in Seq(Queries) : StoreHits(index, s) = Each(h, s)
  <2> TAKE s \in Seq(Queries)
  <2>1. \A i \in DOMAIN s : s[i] \in Queries
    OBVIOUS
  <2>2. \A i \in DOMAIN s : h[s[i]] = IF index = "ivf" THEN FaissIvf(s[i]) ELSE FaissHnsw(s[i])
    BY <2>1, <1>5 DEF Found
  <2> QED BY ONLY <2>2 DEF StoreHits, Mapped, Each
<1>7. InBatches(LAMBDA s : StoreHits(index, s), flat) = Each(h, flat)
  <2>1. Chunk \in Nat \ {0}
    BY DEF NodesOk
  <2>2. PICK b \in Seq(Seq(Queries)) : b = MakeBatch(flat, Chunk) /\ FlattenSeq(b) = flat
    BY <2>1, BatchesEndToEnd
  <2>3. FlattenSeq(EachOf(h, b)) = Each(h, flat)
    BY <2>2, EachEndToEnd
  <2>4. \A i \in DOMAIN b : StoreHits(index, b[i]) = Each(h, b[i])
    <3>1. \A i \in DOMAIN b : b[i] \in Seq(Queries)
      OBVIOUS
    <3> QED BY <3>1, <1>6
  <2>5. [i \in DOMAIN b |-> StoreHits(index, b[i])] = EachOf(h, b)
    BY ONLY <2>4 DEF EachOf
  <2> QED BY ONLY <2>2, <2>3, <2>5 DEF InBatches, Mapped
<1>8. PICK found : found = IF Replicas > 1 THEN StoreHits(index, flat)
                           ELSE InBatches(LAMBDA s : StoreHits(index, s), flat)
  OBVIOUS
<1>9. found = Each(h, flat)
  BY <1>6, <1>7, <1>8 DEF InBatches, Mapped
<1>10. Regrouped(found, Lens(qq)) = EachOf(h, qq)
  BY <1>3, <1>4, <1>9, RegroupedEach
<1>11. Lens(qq) = Mapped(LAMBDA r : Len(r.queries), f)
  BY <1>2 DEF Lens, Mapped
<1>12. \A i \in DOMAIN f : EachOf(h, qq)[i] = FoundOf(index, f[i].queries)
  BY <1>2, <1>5 DEF EachOf, Each, FoundOf
<1>13. VectorSearch(f, index) =
         [i \in DOMAIN f |-> [f[i] EXCEPT !.semantic = Fused(Regrouped(found, Lens(qq))[i])]]
  BY ONLY <1>2, <1>4, <1>8, <1>11 DEF VectorSearch, Mapped
<1> QED BY ONLY <1>10, <1>12, <1>13

-----------------------------------------------------------------------------
(***************************************************************************)
(* What the nodes make of hits and queries are hits and queries, and lists. *)
(***************************************************************************)

\* The first of a list are a list, and no fewer than one of one that has any.
LEMMA FirstKFacts ==
  ASSUME NEW S, NEW s \in Seq(S), NEW k \in Nat \ {0}
  PROVE  FirstK(s, k) \in Seq(S) /\ (s # <<>> => FirstK(s, k) # <<>>)
<1>1. PICK l \in Nat : l = IF k < Len(s) THEN k ELSE Len(s)
  OBVIOUS
<1>2. 0 \in Nat /\ 0 + l <= Len(s) /\ 0 + l = l /\ 0 + 1 = 1
  BY <1>1
<1>3. PICK z \in Nat : z = 0
  OBVIOUS
<1>4. z + l <= Len(s) /\ z + 1 = 1 /\ z + l = l
  BY <1>1, <1>3
<1>5. SubSeq(s, z + 1, z + l) \in Seq(S) /\ Len(SubSeq(s, z + 1, z + l)) = l
  BY <1>4, SubSeqPiece
<1>6. FirstK(s, k) = SubSeq(s, z + 1, z + l)
  BY <1>1, <1>4 DEF FirstK
<1>7. s # <<>> => l # 0
  BY <1>1
<1> QED BY <1>5, <1>6, <1>7

\* sort_by_scores rearranges.
LEMMA ByScoreFacts ==
  ASSUME NEW S \in SUBSET Passages, NEW s \in Seq(S)
  PROVE  ByScore(s) \in Seq(S) /\ Len(ByScore(s)) = Len(s)
<1>1. PICK n \in Nat : n = Len(s) /\ DOMAIN s = 1 .. n
  OBVIOUS
<1>2. \A i \in 1 .. n : s[i] \in S /\ s[i] \in Passages
  BY <1>1
<1>3. PICK key : key = [i \in 1 .. n |-> s[i].score]
  OBVIOUS
<1>4. key \in [1 .. n -> Int]
  BY <1>2, <1>3 DEF Passages
<1> DEFINE keyed(i) == {j \in 1 .. n : key[j] > key[i] \/ (j <= i /\ ~(key[i] > key[j]))}
           first(i) == {j \in DOMAIN s : \/ s[j].score > s[i].score
                                         \/ j <= i /\ ~(s[i].score > s[j].score)}
           at(k) == CHOOSE i \in DOMAIN s : Cardinality(first(i)) = k
<1>5. \A k \in 1 .. n : \E i \in 1 .. n : Cardinality(keyed(i)) = k
  BY <1>4, Ranks
<1>6. \A i \in 1 .. n : keyed(i) = first(i)
  BY <1>1, <1>3
<1>7. \A k \in 1 .. n : \E i \in DOMAIN s : Cardinality(first(i)) = k
  <2> HIDE DEF keyed, first
  <2> QED BY ONLY <1>1, <1>5, <1>6
<1>8. \A k \in 1 .. n : at(k) \in DOMAIN s
  <2> HIDE DEF first
  <2> QED BY ONLY <1>7
<1>9. ByScore(s) = [k \in DOMAIN s |-> s[at(k)]]
  BY DEF ByScore, Ordered
<1> HIDE DEF at
<1>10. PICK t : t = [k \in 1 .. n |-> s[at(k)]]
  OBVIOUS
<1>11. t = [k \in 1 .. n |-> t[k]] /\ \A k \in 1 .. n : t[k] \in S
  BY <1>1, <1>2, <1>8, <1>10
<1>12. t \in Seq(S) /\ Len(t) = n
  BY ONLY n \in Nat, <1>11, ListOf
<1> QED BY <1>1, <1>9, <1>10, <1>12

\* The best hits are hits, and no fewer than one of those that are.
LEMMA BestFacts ==
  ASSUME NEW s \in HitLists, NEW k \in Nat \ {0}
  PROVE  Best(s, k) \in HitLists /\ (s # <<>> => Best(s, k) # <<>>)
<1>1. PICK t \in Seq(Passages) : t = ByScore(s) /\ Len(t) = Len(s)
  <2>1. Passages \in SUBSET Passages /\ s \in Seq(Passages)
    BY DEF HitLists
  <2> QED BY <2>1, ByScoreFacts
<1>2. FirstK(t, k) \in Seq(Passages) /\ (t # <<>> => FirstK(t, k) # <<>>)
  BY FirstKFacts
<1>3. s # <<>> => t # <<>>
  <2>1. s \in Seq(Passages)
    BY DEF HitLists
  <2> QED BY <2>1, <1>1
<1> QED BY <1>1, <1>2, <1>3 DEF Best, HitLists

\* Sorted by date, hits stay hits.
LEMMA NewestFacts ==
  ASSUME NodesOk, NEW s \in HitLists
  PROVE  Newest(s) \in HitLists /\ Len(Newest(s)) = Len(s)
<1>1. PICK n \in Nat : n = Len(s) /\ DOMAIN s = 1 .. n
  BY ONLY s \in HitLists DEF HitLists
<1>2. \A i \in 1 .. n : s[i] \in Passages
  BY <1>1 DEF HitLists
<1>3. PICK key : key = [i \in 1 .. n |-> Modified[s[i].id]]
  OBVIOUS
<1>4. key \in [1 .. n -> Int]
  BY <1>2, <1>3 DEF Passages, NodesOk
<1> DEFINE keyed(i) == {j \in 1 .. n : key[j] > key[i] \/ (j <= i /\ ~(key[i] > key[j]))}
           first(i) == {j \in DOMAIN s : \/ Modified[s[j].id] > Modified[s[i].id]
                                         \/ j <= i /\ ~(Modified[s[i].id] > Modified[s[j].id])}
           at(k) == CHOOSE i \in DOMAIN s : Cardinality(first(i)) = k
<1>5. \A k \in 1 .. n : \E i \in 1 .. n : Cardinality(keyed(i)) = k
  BY <1>4, Ranks
<1>6. \A i \in 1 .. n : keyed(i) = first(i)
  BY <1>1, <1>3
<1>7. \A k \in 1 .. n : \E i \in DOMAIN s : Cardinality(first(i)) = k
  <2> HIDE DEF keyed, first
  <2> QED BY ONLY <1>1, <1>5, <1>6
<1>8. \A k \in 1 .. n : at(k) \in DOMAIN s
  <2> HIDE DEF first
  <2> QED BY ONLY <1>7
<1>9. Newest(s) = [k \in DOMAIN s |-> s[at(k)]]
  BY DEF Newest, Ordered
<1> HIDE DEF at
<1>10. PICK t : t = [k \in 1 .. n |-> s[at(k)]]
  OBVIOUS
<1>11. t = [k \in 1 .. n |-> t[k]] /\ \A k \in 1 .. n : t[k] \in Passages
  BY <1>1, <1>2, <1>8, <1>10
<1>12. t \in Seq(Passages) /\ Len(t) = n
  BY ONLY n \in Nat, <1>11, ListOf
<1> QED BY <1>1, <1>9, <1>10, <1>12 DEF HitLists

\* Every passage that was found is found by its id.
LEMMA HitOfFacts ==
  ASSUME NEW s \in HitLists, NEW id \in IdsOf(s)
  PROVE  HitOf(s, id) \in Passages
<1>1. \E i \in DOMAIN s : s[i].id = id
  BY DEF IdsOf
<1>2. (CHOOSE i \in DOMAIN s : s[i].id = id) \in DOMAIN s
  BY <1>1
<1>3. \A i \in DOMAIN s : s[i] \in Passages
  BY DEF HitLists
<1> QED BY <1>2, <1>3 DEF HitOf

\* dict.fromkeys, and the elements a condition leaves, are of the list.
LEMMA DistinctFacts ==
  ASSUME NEW S, NEW s \in Seq(S)
  PROVE  Distinct(s) \in Seq(S)
<1> DEFINE at == {i \in DOMAIN s : \A j \in 1 .. i - 1 : s[j] # s[i]}
<1>1. at \in SUBSET DOMAIN s
  OBVIOUS
<1>2. Distinct(s) = Picked(s, at)
  BY DEF Distinct
<1> HIDE DEF at
<1> QED BY <1>1, <1>2, PickedFacts

\* The ids of several lists of hits, each once, are ids of the corpus.
LEMMA MergedFacts ==
  ASSUME NEW lists \in Seq(HitLists)
  PROVE  Merged(lists) \in Seq(ToSet(DocOrder))
<1>1. PICK s \in Seq(Passages) : s = FlattenSeq(lists)
  <2>1. lists \in Seq(Seq(Passages))
    BY DEF HitLists
  <2> QED BY <2>1, FlattenFacts
<1>2. PICK n \in Nat : n = Len(s) /\ DOMAIN s = 1 .. n
  OBVIOUS
<1>3. PICK ids : ids = [i \in 1 .. n |-> s[i].id]
  OBVIOUS
<1>4. ids = [i \in 1 .. n |-> ids[i]] /\ \A i \in 1 .. n : ids[i] \in ToSet(DocOrder)
  <2>1. \A i \in 1 .. n : s[i] \in Passages
    BY <1>2
  <2> QED BY <2>1, <1>3 DEF Passages
<1>5. PICK D : D = ToSet(DocOrder)
  OBVIOUS
<1>6. ids \in Seq(D)
  <2>1. n \in Nat /\ \A i \in 1 .. n : ids[i] \in D
    BY <1>4, <1>5
  <2> QED BY ONLY <2>1, <1>4, ListOf
<1>7. Distinct(ids) \in Seq(D)
  BY <1>6, DistinctFacts
<1>8. Merged(lists) = Distinct(ids)
  BY <1>1, <1>2, <1>3 DEF Merged, Mapped
<1> QED BY <1>5, <1>7, <1>8

\* A hit's score by reciprocal ranks.
LEMMA RrfScoreFacts ==
  ASSUME NEW lists \in Seq(HitLists), NEW id
  PROVE  RrfScore(lists, id) \in Nat
<1>1. PICK n \in Nat : n = Len(lists) /\ DOMAIN lists = 1 .. n
  OBVIOUS
<1> DEFINE g == [l \in 1 .. n |-> IF id \in IdsOf(lists[l])
                                THEN 100000 \div (60 + RankIn(lists[l], id)) ELSE 0]
<1>2. PICK f : f = g
  <2> HIDE DEF g
  <2> QED OBVIOUS
<1>3. ASSUME NEW l \in 1 .. n PROVE RankIn(lists[l], id) \in Nat
  <2> DEFINE above == {i \in DOMAIN lists[l] : lists[l][i].score > HitOf(lists[l], id).score}
  <2>1. PICK m \in Nat : DOMAIN lists[l] = 1 .. m
    BY <1>1 DEF HitLists
  <2>2. IsFiniteSet(above)
    <3>1. IsFiniteSet(1 .. m) /\ above \in SUBSET (1 .. m)
      BY <2>1, FS_Interval
    <3> QED BY <3>1, FS_Subset
  <2>3. Cardinality(above) \in Nat
    BY <2>2, FS_CardinalityType
  <2> QED BY <2>3 DEF RankIn
<1>4. \A l \in 1 .. n : f[l] \in Nat
  <2>1. \A r \in Nat : 100000 \div (60 + r) \in Nat
    OBVIOUS
  <2> QED BY <2>1, <1>2, <1>3
<1>5. f \in [1 .. n -> Nat] /\ IsFiniteSet(1 .. n)
  BY <1>2, <1>4, FS_Interval
<1>6. SumOver(f, 1 .. n) \in Nat
  BY <1>5, SumOfNaturals
<1> QED BY <1>1, <1>2, <1>6 DEF RrfScore

\* What reciprocal rank fusion leaves are hits.
LEMMA FusedFacts ==
  ASSUME NodesOk, NEW lists \in Seq(HitLists)
  PROVE  Fused(lists) \in HitLists
<1>1. PICK ids \in Seq(ToSet(DocOrder)) : ids = Merged(lists)
  BY MergedFacts
<1>2. PICK n \in Nat : n = Len(ids) /\ DOMAIN ids = 1 .. n
  BY ONLY ids \in Seq(ToSet(DocOrder))
<1>3. PICK s : s = [i \in 1 .. n |-> [id |-> ids[i], score |-> RrfScore(lists, ids[i])]]
  OBVIOUS
<1>4. s = [i \in 1 .. n |-> s[i]] /\ \A i \in 1 .. n : s[i] \in Passages
  <2>1. \A i \in 1 .. n : ids[i] \in ToSet(DocOrder) /\ RrfScore(lists, ids[i]) \in Nat
    BY <1>2, RrfScoreFacts
  <2> QED BY <2>1, <1>3 DEF Passages
<1>5. s \in HitLists
  BY ONLY n \in Nat, <1>4, ListOf DEF HitLists
<1>6. Best(s, TopK) \in HitLists
  BY <1>5, BestFacts DEF NodesOk
<1> QED BY <1>1, <1>2, <1>3, <1>6 DEF Fused

\* What the vector store and BM25 find for a query are hits.
LEMMA StoreFacts ==
  ASSUME NodesOk, NEW q \in Queries
  PROVE  /\ FaissIvf(q) \in HitLists /\ FaissHnsw(q) \in HitLists
         /\ FirstK(SparseHits[q], TopK) \in HitLists
<1>1. TopK \in Nat \ {0} /\ DenseHits[q] \in Seq(Passages) /\ SparseHits[q] \in Seq(Passages)
  BY DEF NodesOk, HitLists
<1>2. FaissIvf(q) \in HitLists /\ FirstK(SparseHits[q], TopK) \in HitLists
  BY <1>1, FirstKFacts DEF FaissIvf, HitLists
<1>3. PICK D : D = ToSet(DocOrder) /\ DocOrder \in Seq(D)
  BY DEF NodesOk
<1> DEFINE left == {i \in DOMAIN DocOrder : DocOrder[i] \notin IdsOf(DenseHits[q])}
<1>4. PICK ids \in Seq(D) : ids = Picked(DocOrder, left)
  <2>1. left \in SUBSET DOMAIN DocOrder
    OBVIOUS
  <2> HIDE DEF left
  <2> QED BY <2>1, <1>3, PickedFacts
<1>5. PICK n \in Nat : n = Len(ids) /\ DOMAIN ids = 1 .. n
  BY ONLY ids \in Seq(D)
<1>6. PICK more : more = [i \in 1 .. n |-> [id |-> ids[i], score |-> 0]]
  OBVIOUS
<1>7. more = [i \in 1 .. n |-> more[i]] /\ \A i \in 1 .. n : more[i] \in Passages
  <2>1. \A i \in 1 .. n : ids[i] \in ToSet(DocOrder)
    BY <1>3, <1>5
  <2> QED BY <2>1, <1>6 DEF Passages
<1>8. more \in Seq(Passages)
  BY ONLY n \in Nat, <1>7, ListOf
<1>9. DenseHits[q] \o more \in Seq(Passages)
  BY ONLY <1>1, <1>8, Appending
<1>10. FirstK(DenseHits[q] \o more, TopK) \in HitLists
  BY <1>1, <1>9, FirstKFacts DEF HitLists
<1>11. FaissHnsw(q) = FirstK(DenseHits[q] \o more, TopK)
  BY ONLY <1>4, <1>5, <1>6 DEF FaissHnsw, Mapped, Those
<1> QED BY <1>2, <1>10, <1>11

\* check_expanded_query leaves queries.
LEMMA CheckedFacts ==
  ASSUME NEW q \in Queries, NEW lines \in Seq(Queries \cup {Blank})
  PROVE  CheckedQueries(q, lines) \in Seq(Queries)
<1> DEFINE at == {i \in DOMAIN lines : lines[i] # Blank}
<1>1. PICK kept : kept = Picked(lines, at)
  OBVIOUS
<1>2. kept \in Seq(Queries \cup {Blank}) /\ ToSet(kept) = {lines[i] : i \in at}
  <2>1. at \in SUBSET DOMAIN lines
    OBVIOUS
  <2> HIDE DEF at
  <2> QED BY <2>1, <1>1, PickedFacts
<1>3. PICK n \in Nat : n = Len(kept) /\ DOMAIN kept = 1 .. n
  BY <1>2
<1>4. \A i \in 1 .. n : kept[i] \in Queries
  <2> TAKE i \in 1 .. n
  <2>1. kept[i] \in {lines[j] : j \in at}
    BY <1>2, <1>3 DEF ToSet
  <2>2. \A j \in at : lines[j] \in Queries
    OBVIOUS
  <2> QED BY <2>1, <2>2
<1>5. kept = [i \in 1 .. n |-> kept[i]]
  BY <1>2, <1>3
<1>6. kept \in Seq(Queries)
  BY ONLY n \in Nat, <1>4, <1>5, ListOf
<1>7. Distinct(kept) \in Seq(Queries)
  BY <1>6, DistinctFacts
<1>8. Those(lines, LAMBDA l : l # Blank) = kept
  BY <1>1 DEF Those
<1> QED BY <1>7, <1>8 DEF CheckedQueries, Those

\* What the three expansions ask are queries.
LEMMA ExpandFacts ==
  ASSUME NodesOk, NEW q \in Queries
  PROVE  /\ CheckedQueries(q, HyDE(q)) \in Seq(Queries)
         /\ CheckedQueries(q, MultiQuery(q)) \in Seq(Queries)
         /\ CheckedQueries(q, Decomposed(q)) \in Seq(Queries)
<1>1. PICK L : L = Queries \cup {Blank}
  OBVIOUS
<1>2. LlmLines[q] \in Seq(L) /\ LlmLines[q] # <<>> /\ q \in L
  BY <1>1 DEF NodesOk
<1>3. HyDE(q) \in Seq(L)
  <2>1. PICK s \in Seq(L) : s = LlmLines[q]
    BY ONLY <1>2
  <2>2. FirstK(s, 1) \in Seq(L)
    BY ONLY s \in Seq(L), FirstKFacts
  <2> QED BY ONLY <2>1, <2>2 DEF HyDE
<1>4. <<q>> \in Seq(L)
  BY <1>2
<1>5. MultiQuery(q) \in Seq(L)
  BY ONLY <1>2, <1>4, Appending DEF MultiQuery
<1>6. Tail(LlmLines[q]) \in Seq(L)
  BY <1>2
<1>7. Decomposed(q) \in Seq(L)
  BY <1>4, <1>6 DEF Decomposed
<1> QED BY <1>1, <1>3, <1>5, <1>7, CheckedFacts

\* The scores of hits are numbers of which there are finitely many.
LEMMA ScoreBounds ==
  ASSUME NEW s \in HitLists, s # <<>>
  PROVE  /\ \A i \in DOMAIN s : s[i].score \in Nat
         /\ Max(ScoresOf(s)) \in Nat /\ \A x \in ScoresOf(s) : x <= Max(ScoresOf(s))
         /\ Min(ScoresOf(s)) \in Nat /\ \A x \in ScoresOf(s) : Min(ScoresOf(s)) <= x
<1>1. PICK n \in Nat : n = Len(s) /\ DOMAIN s = 1 .. n /\ n # 0
  BY DEF HitLists
<1>2. \A i \in DOMAIN s : s[i].score \in Nat
  <2>1. \A i \in DOMAIN s : s[i] \in Passages
    BY DEF HitLists
  <2> QED BY ONLY <2>1 DEF Passages
<1>3. PICK f : f = [i \in 1 .. n |-> s[i].score]
  OBVIOUS
<1>4. ScoresOf(s) = {f[i] : i \in 1 .. n}
  BY <1>1, <1>3 DEF ScoresOf
<1>5. IsFiniteSet(ScoresOf(s))
  <2>1. IsFiniteSet(1 .. n) /\ f = [i \in 1 .. n |-> f[i]]
    BY <1>3, FS_Interval
  <2> QED BY <2>1, <1>4, FiniteValues
<1>6. ScoresOf(s) \subseteq Nat /\ ScoresOf(s) # {}
  <2>1. 1 \in DOMAIN s
    BY <1>1
  <2> QED BY <2>1, <1>2 DEF ScoresOf
<1>7. ScoresOf(s) \subseteq Int
  BY <1>6
<1> QED BY <1>2, <1>5, <1>6, <1>7, LargestOf

\* Scaled between two scores, a score is no less than 0.
LEMMA ScaleFacts ==
  ASSUME NEW s \in HitLists, s # <<>>, NEW score \in Nat, NEW low \in Nat,
         low <= score, score <= Max(ScoresOf(s))
  PROVE  Scale(s, score, low) \in Nat
<1>1. PICK high \in Nat : high = Max(ScoresOf(s))
  BY ScoreBounds
<1>2. CASE high = low
  BY <1>1, <1>2 DEF Scale
<1>3. CASE high # low
  <2>1. PICK d \in Nat \ {0} : d = high - low
    BY <1>1, <1>3
  <2>2. PICK a \in Nat : a = 100 * (score - low)
    <3>1. score - low \in Nat
      OBVIOUS
    <3> QED BY <3>1
  <2>3. a \div d \in Nat
    BY Division
  <2>4. Scale(s, score, low) = a \div d
    BY <1>1, <1>3, <2>1, <2>2 DEF Scale
  <2> QED BY <2>3, <2>4
<1> QED BY <1>2, <1>3

\* A hit's share of a convex combination is no less than 0.
LEMMA WeightedFacts ==
  ASSUME NEW s \in HitLists, s # <<>>, NEW id, NEW low
  PROVE  Weighted(s, id, low) \in Nat
<1>1. CASE id \notin IdsOf(s)
  BY <1>1 DEF Weighted
<1>2. CASE id \in IdsOf(s)
  <2>1. PICK i \in DOMAIN s : s[i].id = id /\ HitOf(s, id) = s[i]
    <3>1. \E i \in DOMAIN s : s[i].id = id
      BY <1>2 DEF IdsOf
    <3> QED BY <3>1 DEF HitOf
  <2>2. PICK v \in Nat : v = HitOf(s, id).score
    BY <2>1, ScoreBounds
  <2>3. v \in ScoresOf(s)
    BY <2>1, <2>2 DEF ScoresOf
  <2>4. PICK m \in Nat : m = Min(ScoresOf(s))
    BY ScoreBounds
  <2>5. m <= v /\ 0 <= v /\ v <= Max(ScoresOf(s)) /\ 0 \in Nat
    BY <2>3, <2>4, ScoreBounds
  <2>6. Scale(s, v, m) \in Nat
    BY <2>5, ScaleFacts
  <2>7. Scale(s, v, 0) \in Nat
    BY <2>5, ScaleFacts
  <2> QED BY <1>2, <2>2, <2>4, <2>6, <2>7 DEF Weighted, TheoreticalMin, MinMax
<1> QED BY <1>1, <1>2

\* What the convex combination of two arms leaves are hits.
LEMMA CombinedFacts ==
  ASSUME NodesOk, NEW r, r.semantic \in HitLists, r.lexical \in HitLists,
         r.semantic # <<>>, r.lexical # <<>>, NEW low
  PROVE  Combined(r, low) \in HitLists
<1>1. <<r.semantic, r.lexical>> \in Seq(HitLists)
  <2>1. PICK Q : Q = HitLists
    OBVIOUS
  <2> QED BY <2>1
<1>2. PICK ids \in Seq(ToSet(DocOrder)) : ids = Merged(<<r.semantic, r.lexical>>)
  BY <1>1, MergedFacts
<1>3. PICK n \in Nat : n = Len(ids) /\ DOMAIN ids = 1 .. n
  BY ONLY ids \in Seq(ToSet(DocOrder))
<1> DEFINE sum(id) == Weighted(r.semantic, id, low) + Weighted(r.lexical, id, low)
<1>4. \A id : sum(id) \in Nat
  <2> TAKE id
  <2>1. Weighted(r.semantic, id, low) \in Nat /\ Weighted(r.lexical, id, low) \in Nat
    BY WeightedFacts
  <2> QED BY <2>1
<1>5. Combined(r, low) = Best([i \in 1 .. n |-> [id |-> ids[i], score |-> sum(ids[i])]], TopK)
  BY <1>2, <1>3 DEF Combined
<1> HIDE DEF sum
<1>6. PICK s : s = [i \in 1 .. n |-> [id |-> ids[i], score |-> sum(ids[i])]]
  OBVIOUS
<1>7. s = [i \in 1 .. n |-> s[i]] /\ \A i \in 1 .. n : s[i] \in Passages
  <2>1. \A i \in 1 .. n : ids[i] \in ToSet(DocOrder)
    BY <1>3
  <2> QED BY <2>1, <1>4, <1>6 DEF Passages
<1>8. s \in HitLists
  BY ONLY n \in Nat, <1>7, ListOf DEF HitLists
<1> QED BY <1>5, <1>6, <1>8, BestFacts DEF NodesOk

\* prev_next_augmenter: every hit is among what is around it.
LEMMA AroundFacts ==
  ASSUME NodesOk, NEW id \in ToSet(DocOrder)
  PROVE  Around(id) \in Seq(ToSet(DocOrder)) /\ Around(id) # <<>>
<1>1. PICK D : D = ToSet(DocOrder) /\ DocOrder \in Seq(D)
  BY DEF NodesOk
<1>2. PICK n \in Nat : n = Len(DocOrder) /\ DOMAIN DocOrder = 1 .. n
  BY ONLY <1>1
<1>3. \E i \in DOMAIN DocOrder : DocOrder[i] = id
  BY DEF ToSet
<1>4. PICK at \in 1 .. n : at = CHOOSE i \in DOMAIN DocOrder : DocOrder[i] = id
  BY <1>2, <1>3
<1>5. PICK m \in 1 .. at : m = IF at = 1 THEN 1 ELSE at - 1
  BY ONLY n \in Nat, at \in 1 .. n
<1>6. PICK e \in at .. n : e = IF at = n THEN at ELSE at + 1
  BY ONLY n \in Nat, at \in 1 .. n
<1>7. /\ m \in Int /\ e \in Int /\ m <= e /\ e - m + 1 # 0 /\ e - m + 1 \in Nat
      /\ \A x \in m .. e : x \in 1 .. n
  BY ONLY n \in Nat, at \in 1 .. n, m \in 1 .. at, e \in at .. n
<1>8. \A x \in m .. e : DocOrder[x] \in D
  BY <1>1, <1>2, <1>7
<1>9. SubSeq(DocOrder, m, e) \in Seq(D) /\ Len(SubSeq(DocOrder, m, e)) = e - m + 1
  <2>1. Len(SubSeq(DocOrder, m, e)) = IF m <= e THEN e - m + 1 ELSE 0
    BY ONLY <1>7, <1>8, SubSeqProperties
  <2>2. SubSeq(DocOrder, m, e) \in Seq(D)
    BY ONLY <1>7, <1>8, SubSeqProperties
  <2> QED BY <1>7, <2>1, <2>2
<1>10. Around(id) = SubSeq(DocOrder, m, e)
  BY <1>2, <1>4, <1>5, <1>6 DEF Around
<1>11. PICK t \in Seq(D) : t = SubSeq(DocOrder, m, e) /\ Len(t) # 0
  BY <1>7, <1>9
<1>12. t # <<>>
  BY <1>11
<1> QED BY <1>1, <1>10, <1>11, <1>12

\* What a filter keeps, or falls back on, are hits.
LEMMA KeptFacts ==
  ASSUME NEW r, NEW keep \in HitLists, NEW default \in Passages
  PROVE  Kept(r, keep, default) \in HitLists
<1>1. <<default>> \in Seq(Passages)
  OBVIOUS
<1> QED BY <1>1 DEF Kept, HitLists

\* Hits at some places of hits are hits.
LEMMA PickedHits ==
  ASSUME NEW s \in HitLists, NEW at \in SUBSET DOMAIN s
  PROVE  Picked(s, at) \in HitLists
BY PickedFacts DEF HitLists

\* The first hit is a passage.
LEMMA FirstHit ==
  ASSUME NEW s \in HitLists, s # <<>>
  PROVE  s[1] \in Passages
<1>1. s \in Seq(Passages)
  BY DEF HitLists
<1> QED BY <1>1

\* What is in the contents' column is a text that the models know, as is every doc id.
LEMMA TextFacts ==
  ASSUME NEW id \in ToSet(DocOrder)
  PROVE  TextOf(id) \in PassageTexts /\ id \in PassageTexts
<1>1. IdText[id] \in PassageTexts /\ id \in PassageTexts
  BY DEF PassageTexts
<1>2. TextOf(id) = IdText[id] \/ TextOf(id) = id
  BY DEF TextOf
<1> QED BY <1>1, <1>2

\* The hits under a model's scores.
Rescored(r) == WithScores(Hits(r), ScoresIn(r))
KnownIn(s) == {p \in Passages : p.id \in IdsOf(s)}

\* The hits under a model's scores, sorted, are as many, and of passages that were found.
LEMMA RescoredFacts ==
  ASSUME NodesOk, NEW r, r.query \in Asked, Hits(r) \in HitLists
  PROVE  /\ ByScore(Rescored(r)) \in Seq(KnownIn(Hits(r)))
         /\ Len(ByScore(Rescored(r))) = Len(Hits(r))
<1>1. PICK s \in HitLists : s = Hits(r)
  OBVIOUS
<1>2. PICK n \in Nat : n = Len(s) /\ DOMAIN s = 1 .. n
  BY ONLY s \in HitLists DEF HitLists
<1>3. PICK t : t = [i \in 1 .. n |-> [id |-> s[i].id, score |-> Relevance[r.query][TextOf(s[i].id)]]]
  OBVIOUS
<1>4. t = Rescored(r)
  BY <1>1, <1>2, <1>3 DEF Rescored, WithScores, ScoresIn
<1>5. \A i \in 1 .. n : t[i] \in KnownIn(s)
  <2>1. \A i \in 1 .. n : s[i] \in Passages
    BY <1>2 DEF HitLists
  <2>2. \A id \in ToSet(DocOrder) : Relevance[r.query][TextOf(id)] \in Nat
    BY TextFacts DEF NodesOk
  <2>3. \A i \in 1 .. n : s[i].id \in ToSet(DocOrder) /\ s[i].id \in IdsOf(s)
    BY <2>1, <1>2 DEF Passages, IdsOf
  <2> QED BY <2>2, <2>3, <1>3 DEF Passages, KnownIn
<1>6. t \in Seq(KnownIn(s)) /\ Len(t) = n
  <2>1. t = [i \in 1 .. n |-> t[i]]
    BY <1>3
  <2> QED BY ONLY n \in Nat, <2>1, <1>5, ListOf
<1>7. KnownIn(s) \in SUBSET Passages
  BY DEF KnownIn
<1> QED BY <1>1, <1>2, <1>4, <1>6, <1>7, ByScoreFacts

\* What each filter leaves of a row's hits are hits.
LEMMA FilterFacts ==
  ASSUME NodesOk, NEW r, r.query \in Asked, Hits(r) \in HitLists, Hits(r) # <<>>, NEW t
  PROVE  /\ ThresholdCutoff(r, t) \in HitLists /\ RecencyFilter(r, t) \in HitLists
         /\ Kept(r, Those(Hits(r), LAMBDA h : Relevance[r.query][h.id] >= t),
                 HitOf(Hits(r), ByScore(Rescored(r))[1].id)) \in HitLists
         /\ \A k \in Nat \ {0} :
              Mapped(LAMBDA h : HitOf(Hits(r), h.id), FirstK(ByScore(Rescored(r)), k)) \in HitLists
<1>1. PICK s \in HitLists : s = Hits(r) /\ s # <<>>
  OBVIOUS
<1>2. \A at \in SUBSET DOMAIN s : Picked(s, at) \in HitLists
  BY PickedHits
<1>3. ThresholdCutoff(r, t) \in HitLists
  <2>1. PICK b \in HitLists : b = ByScore(s) /\ Len(b) = Len(s)
    <3>1. Passages \in SUBSET Passages /\ s \in Seq(Passages)
      BY DEF HitLists
    <3>2. ByScore(s) \in Seq(Passages) /\ Len(ByScore(s)) = Len(s)
      BY <3>1, ByScoreFacts
    <3> QED BY <3>2 DEF HitLists
  <2>2. b[1] \in Passages
    <3>1. b # <<>>
      <4>1. b \in Seq(Passages) /\ s \in Seq(Passages)
        BY DEF HitLists
      <4> QED BY <4>1, <2>1, <1>1
    <3> QED BY <3>1, FirstHit
  <2>3. PICK keep \in HitLists : keep = Picked(s, {i \in DOMAIN s : s[i].score >= t})
    <3>1. {i \in DOMAIN s : s[i].score >= t} \in SUBSET DOMAIN s
      OBVIOUS
    <3> QED BY <3>1, <1>2
  <2>4. Kept(r, keep, b[1]) \in HitLists
    BY <2>2, KeptFacts
  <2> QED BY ONLY <1>1, <2>1, <2>3, <2>4 DEF ThresholdCutoff, Those
<1>4. RecencyFilter(r, t) \in HitLists
  <2>1. PICK b \in HitLists : b = Newest(s) /\ Len(b) = Len(s)
    BY NewestFacts
  <2>2. b[1] \in Passages
    <3>1. b # <<>>
      <4>1. b \in Seq(Passages) /\ s \in Seq(Passages)
        BY DEF HitLists
      <4> QED BY <4>1, <2>1, <1>1
    <3> QED BY <3>1, FirstHit
  <2>3. PICK keep \in HitLists : keep = Picked(s, {i \in DOMAIN s : Modified[s[i].id] >= t})
    <3>1. {i \in DOMAIN s : Modified[s[i].id] >= t} \in SUBSET DOMAIN s
      OBVIOUS
    <3> QED BY <3>1, <1>2
  <2>4. Kept(r, keep, b[1]) \in HitLists
    BY <2>2, KeptFacts
  <2> QED BY ONLY <1>1, <2>1, <2>3, <2>4 DEF RecencyFilter, Those
<1>5. PICK b \in Seq(KnownIn(s)) : b = ByScore(Rescored(r)) /\ Len(b) = Len(s)
  BY <1>1, RescoredFacts
<1>6. \A p \in KnownIn(s) : HitOf(s, p.id) \in Passages
  <2> TAKE p \in KnownIn(s)
  <2>1. p.id \in IdsOf(s)
    BY DEF KnownIn
  <2> QED BY <2>1, HitOfFacts
<1>7. b # <<>>
  <2>1. s \in Seq(Passages)
    BY DEF HitLists
  <2> QED BY <2>1, <1>1, <1>5
<1>8. Kept(r, Those(Hits(r), LAMBDA h : Relevance[r.query][h.id] >= t),
           HitOf(Hits(r), ByScore(Rescored(r))[1].id)) \in HitLists
  <2>1. HitOf(s, b[1].id) \in Passages
    <3>1. b[1] \in KnownIn(s)
      BY <1>7
    <3> QED BY <3>1, <1>6
  <2>2. PICK keep \in HitLists : keep = Picked(s, {i \in DOMAIN s : Relevance[r.query][s[i].id] >= t})
    <3>1. {i \in DOMAIN s : Relevance[r.query][s[i].id] >= t} \in SUBSET DOMAIN s
      OBVIOUS
    <3> QED BY <3>1, <1>2
  <2>3. Kept(r, keep, HitOf(s, b[1].id)) \in HitLists
    BY <2>1, KeptFacts
  <2> QED BY ONLY <1>1, <1>5, <2>2, <2>3 DEF Those
<1>9. ASSUME NEW k \in Nat \ {0}
      PROVE  Mapped(LAMBDA h : HitOf(Hits(r), h.id), FirstK(ByScore(Rescored(r)), k)) \in HitLists
  <2>1. PICK x \in Seq(KnownIn(s)) : x = FirstK(b, k)
    BY FirstKFacts
  <2>2. PICK n \in Nat : n = Len(x) /\ DOMAIN x = 1 .. n
    BY ONLY x \in Seq(KnownIn(s))
  <2>3. PICK y : y = [i \in 1 .. n |-> HitOf(s, x[i].id)]
    OBVIOUS
  <2>4. y = [i \in 1 .. n |-> y[i]] /\ \A i \in 1 .. n : y[i] \in Passages
    <3>1. \A i \in 1 .. n : x[i] \in KnownIn(s)
      BY <2>2
    <3> QED BY ONLY <3>1, <2>3, <1>6
  <2>5. y \in HitLists
    BY ONLY n \in Nat, <2>4, ListOf DEF HitLists
  <2> QED BY ONLY <1>1, <1>5, <2>1, <2>2, <2>3, <2>5 DEF Mapped
<1> QED BY ONLY <1>3, <1>4, <1>8, <1>9 DEF Those, Mapped

\* What the augmenter leaves of a row's hits are hits, and there are some.
LEMMA AugmentedFacts ==
  ASSUME NodesOk, NEW r, r.query \in Asked, Hits(r) \in HitLists, Hits(r) # <<>>
  PROVE  Augmented(r) \in HitLists /\ Augmented(r) # <<>>
<1>1. PICK s \in Seq(Passages) : s = Hits(r) /\ s # <<>>
  BY DEF HitLists
<1>2. PICK n \in Nat : n = Len(s) /\ DOMAIN s = 1 .. n /\ n # 0
  BY ONLY s \in Seq(Passages), <1>1
<1>3. PICK D : D = ToSet(DocOrder)
  OBVIOUS
<1>4. \A i \in 1 .. n : s[i].id \in D
  <2>1. \A i \in 1 .. n : s[i] \in Passages
    BY <1>2
  <2> QED BY <2>1, <1>3 DEF Passages
<1>5. PICK around : around = [i \in 1 .. n |-> Around(s[i].id)]
  OBVIOUS
<1>6. \A i \in 1 .. n : around[i] \in Seq(D) /\ around[i] # <<>>
  BY <1>3, <1>4, <1>5, AroundFacts
<1>7. PICK Q : Q = Seq(D)
  OBVIOUS
<1>8. around \in Seq(Q) /\ Len(around) = n
  <2>1. around = [i \in 1 .. n |-> around[i]] /\ \A i \in 1 .. n : around[i] \in Q
    BY <1>5, <1>6, <1>7
  <2> QED BY ONLY n \in Nat, <2>1, ListOf
<1>9. PICK ids \in Seq(D) : ids = FlattenSeq(around) /\ \E at : Cuts(around, ids, at)
  BY <1>7, <1>8, FlattenFacts
<1>10. PICK at : Cuts(around, ids, at)
  BY <1>9
<1>11. PICK m \in Nat : m = Len(ids) /\ DOMAIN ids = 1 .. m
  BY ONLY ids \in Seq(D)
<1>12. m # 0
  <2>1. around \in Seq(Seq(D)) /\ ids \in Seq(D) /\ Cuts(around, ids, at)
    BY <1>7, <1>8, <1>10
  <2>2. \A i \in 1 .. Len(around) : \A j \in 1 .. Len(around[i]) : at[i] + j \in 1 .. Len(ids)
    BY ONLY <2>1, CutPlaces
  <2>3. 1 \in 1 .. n /\ Len(around[1]) # 0 /\ Len(around[1]) \in Nat
    <3>1. 1 \in 1 .. n
      BY <1>2
    <3>2. PICK x \in Seq(D) : x = around[1] /\ x # <<>>
      BY <3>1, <1>6
    <3> QED BY <3>1, <3>2
  <2>4. at[1] + 1 \in 1 .. m
    BY ONLY <2>2, <2>3, <1>8, <1>11
  <2> QED BY <2>4
<1>13. PICK t : t = [i \in 1 .. m |-> [id |-> ids[i], score |-> Relevance[r.query][ids[i]]]]
  OBVIOUS
<1>14. t = [i \in 1 .. m |-> t[i]] /\ \A i \in 1 .. m : t[i] \in Passages
  <2>1. \A i \in 1 .. m : ids[i] \in ToSet(DocOrder)
    BY <1>3, <1>11
  <2>2. \A id \in ToSet(DocOrder) : Relevance[r.query][id] \in Nat
    BY TextFacts DEF NodesOk
  <2> QED BY <2>1, <2>2, <1>13 DEF Passages
<1>15. t \in Seq(Passages) /\ Len(t) = m
  BY ONLY m \in Nat, <1>14, ListOf
<1>16. t \in HitLists /\ t # <<>>
  BY <1>12, <1>15 DEF HitLists
<1>17. Best(t, TopK) \in HitLists /\ Best(t, TopK) # <<>>
  BY <1>16, BestFacts DEF NodesOk
<1>18. Augmented(r) = Best(t, TopK)
  BY ONLY <1>1, <1>2, <1>5, <1>9, <1>11, <1>13 DEF Augmented, Mapped
<1> QED BY <1>17, <1>18

\* The first of any list are a list.
LEMMA FirstKList ==
  ASSUME NEW s, IsList(s), NEW k \in Nat \ {0}
  PROVE  IsList(FirstK(s, k))
<1>1. s \in Seq(ToSet(s))
  BY DEF IsList
<1>2. FirstK(s, k) \in Seq(ToSet(s))
  BY <1>1, FirstKFacts
<1> QED BY <1>2, ListFacts

\* The best of any list are a list, whatever their scores are.
LEMMA BestList ==
  ASSUME NEW s, IsList(s), NEW k \in Nat \ {0}
  PROVE  IsList(Best(s, k))
<1>1. DOMAIN ByScore(s) = DOMAIN s /\ ByScore(s) = [i \in DOMAIN s |-> ByScore(s)[i]]
  BY DEF ByScore, Ordered
<1>2. PICK n \in Nat : DOMAIN s = 1 .. n
  BY ListFacts
<1>3. IsList(ByScore(s))
  BY <1>1, <1>2, ListFacts
<1> QED BY <1>3, FirstKList DEF Best

\* A list under other scores is a list.
LEMMA ScoredList ==
  ASSUME NEW s, IsList(s), NEW scores
  PROVE  IsList(WithScores(s, scores))
<1>1. PICK n \in Nat : DOMAIN s = 1 .. n
  BY ListFacts
<1>2. PICK t : t = WithScores(s, scores)
  OBVIOUS
<1>3. t = [i \in 1 .. n |-> t[i]]
  BY <1>1, <1>2 DEF WithScores
<1> QED BY <1>2, <1>3, ListFacts

\* Whatever a reranker makes of a row's hits is a list.
LEMMA RankedLists ==
  ASSUME NodesOk, NEW r, IsList(Hits(r))
  PROVE  /\ \A k \in Nat \ {0} : \A scores : IsList(Best(WithScores(Hits(r), scores), k))
         /\ IsList(HostedRerank(r)) /\ IsList(Upr(r)) /\ IsList(RankGpt(r)) /\ IsList(TimeRerank(r))
<1>0. TopK \in Nat \ {0}
  BY DEF NodesOk
<1>1. \A k \in Nat \ {0} : \A scores : IsList(Best(WithScores(Hits(r), scores), k))
  BY ScoredList, BestList
<1>2. IsList(HostedRerank(r))
  BY <1>0, <1>1 DEF HostedRerank, Mapped
<1>3. IsList(Upr(r))
  <2> DEFINE t == WithScores(Hits(r), Mapped(LAMBDA x : 9 - Relevance[r.query][x], Texts(r)))
             u == Ordered(t, LAMBDA a, b : a.score < b.score)
  <2>1. \E n \in Nat : DOMAIN t = 1 .. n
    <3>1. IsList(t)
      BY ScoredList DEF Mapped
    <3> QED BY <3>1, ListFacts
  <2>2. PICK n \in Nat : DOMAIN t = 1 .. n
    BY <2>1
  <2> HIDE DEF t
  <2>3. \E v : v = u
    OBVIOUS
  <2>6. PICK v : v = u
    BY <2>3
  <2>7. v = [i \in DOMAIN t |-> v[i]]
    BY <2>6 DEF Ordered
  <2>4. IsList(u)
    <3> HIDE DEF u
    <3> QED BY <2>2, <2>6, <2>7, ListFacts
  <2>5. IsList(FirstK(u, TopK))
    <3> HIDE DEF u
    <3> QED BY <2>4, <1>0, FirstKList
  <2> QED BY <2>5 DEF Upr, t, Mapped, Ordered
<1>4. IsList(RankGpt(r))
  <2>1. PICK n \in Nat : n = Len(HostedRerank(r))
    BY <1>2, ListFacts
  <2>2. PICK t : t = RankGpt(r)
    OBVIOUS
  <2>3. t = [i \in 1 .. n |-> t[i]]
    BY <2>1, <2>2 DEF RankGpt
  <2> QED BY <2>2, <2>3, ListFacts
<1>5. IsList(TimeRerank(r))
  <2>1. PICK n \in Nat : DOMAIN Hits(r) = 1 .. n
    BY ListFacts
  <2>2. PICK u : u = Newest(Hits(r))
    OBVIOUS
  <2>3. u = [i \in DOMAIN Hits(r) |-> u[i]]
    BY <2>2 DEF Newest, Ordered
  <2>4. IsList(u)
    BY <2>1, <2>3, ListFacts
  <2> QED BY <2>2, <2>4, <1>0, FirstKList DEF TimeRerank
<1> QED BY <1>1, <1>2, <1>3, <1>4, <1>5

-----------------------------------------------------------------------------
(***************************************************************************)
(* The invariant, and a step of a node that takes each row by itself.      *)
(***************************************************************************)

\* A row of a frame before a stage. Scores are numbers only until a reranker gives its own.
RowFields == {"query", "queries", "semantic", "lexical", "hits", "texts", "prompt"}
MaybeHits(x) == x = NoHits \/ IsList(x)
RowOk(n, r) ==
  /\ DOMAIN r = RowFields /\ r.query \in Asked
  /\ \A x \in {r.semantic, r.lexical, r.hits} :
       MaybeHits(x) /\ (n < 7 => x = NoHits \/ x \in HitLists)
  /\ n < 8 => r.texts = NoHits
  /\ n < 7 => r.queries \in Seq(Queries)
FrameOk(n, f) == IsList(f) /\ \A i \in DOMAIN f : RowOk(n, f[i])
\* Every frame is a list of rows of the stage that was passed.
NodesTyped ==
  /\ stage \in 0 .. 9 /\ failed \subseteq DOMAIN alone /\ IsList(alone)
  /\ raised \in BOOLEAN /\ uneven \in BOOLEAN
  /\ FrameOk(stage, rows) /\ \A c \in DOMAIN alone : FrameOk(stage, alone[c])
\* A row that no later node raises on for want of hits.
Lasting(n, r) == IsList(Hits(r)) /\ (n < 7 => Hits(r) \in HitLists \ {<<>>})
\* Frames row by row of the same queries.
Alike(n, s, t) ==
  /\ Len(s) = Len(t)
  /\ \A k \in DOMAIN s : s[k].query = t[k].query /\ Lasting(n, s[k]) /\ Lasting(n, t[k])
\* BatchingIsInvisible is not inductive. Measured by the rows beside them, the batch's rows are
\* no longer the calls' own, and still fail together with them (AlikeWhenUneven); only a filter
\* and two rerankers measure so, when the retrieval is over (UnevenLate); and a batch that a
\* node raised on has no rows for a later one to raise on (NoneLeft).
AlikeWhenUneven == uneven /\ ~raised => Alike(stage, rows, FlattenSeq(alone))
UnevenLate == uneven => stage >= 5
NoneLeft == raised => rows = <<>>
NodesInv == NodesTyped /\ UnevenLate /\ NoneLeft /\ AlikeWhenUneven /\ BatchingIsInvisible

\* A node that raises on the rows of B and makes g of any other.
Meets(f, B) == \E i \in DOMAIN f : f[i] \in B
\* What it leaves of a frame, and of each call's.
OnFrame(f, B, g) == IF Meets(f, B) THEN <<>> ELSE Each(g, f)
OnFrames(a, B, g) == [c \in DOMAIN a |-> OnFrame(a[c], B, g)]

\* The calls' frames end to end.
LEMMA EndsTogether ==
  ASSUME NEW a, IsList(a), \A c \in DOMAIN a : IsList(a[c]), NEW B, NEW g
  PROVE  /\ IsList(FlattenSeq(a))
         /\ \A k \in DOMAIN FlattenSeq(a) : \E c \in DOMAIN a : \E i \in DOMAIN a[c] :
              FlattenSeq(a)[k] = a[c][i]
         /\ Meets(FlattenSeq(a), B) <=> \E c \in DOMAIN a : Meets(a[c], B)
         /\ ~Meets(FlattenSeq(a), B) => FlattenSeq(OnFrames(a, B, g)) = Each(g, FlattenSeq(a))
PROOF
<1> DEFINE S == UNION {ToSet(a[i]) : i \in DOMAIN a}
<1>1. a \in Seq(Seq(S))
  BY NestedLists
<1> HIDE DEF S
<1>2. SameShape(a, a)
  BY DEF SameShape
<1>3. /\ FlattenSeq(a) \in Seq(S) /\ Along(FlattenSeq(a), FlattenSeq(a), a, a)
  BY <1>1, <1>2, FlattenAlong
<1>4. IsList(FlattenSeq(a))
  BY <1>3, ListFacts
<1>5. DOMAIN a = 1 .. Len(a) /\ \A c \in DOMAIN a : DOMAIN a[c] = 1 .. Len(a[c])
  BY <1>1
<1>6. DOMAIN FlattenSeq(a) = 1 .. Len(FlattenSeq(a))
  BY <1>3
<1>7. \A k \in DOMAIN FlattenSeq(a) : \E c \in DOMAIN a : \E i \in DOMAIN a[c] :
        FlattenSeq(a)[k] = a[c][i]
  <2>1. \A k \in 1 .. Len(FlattenSeq(a)) : \E i \in 1 .. Len(a) : \E j \in 1 .. Len(a[i]) :
          FlattenSeq(a)[k] = a[i][j] /\ FlattenSeq(a)[k] = a[i][j]
    BY ONLY <1>3 DEF Along
  <2> QED BY ONLY <2>1, <1>5, <1>6
<1>8. \A c \in DOMAIN a : \A i \in DOMAIN a[c] : \E k \in DOMAIN FlattenSeq(a) :
        FlattenSeq(a)[k] = a[c][i]
  <2>1. \A i \in 1 .. Len(a) : \A j \in 1 .. Len(a[i]) : \E k \in 1 .. Len(FlattenSeq(a)) :
          FlattenSeq(a)[k] = a[i][j] /\ FlattenSeq(a)[k] = a[i][j]
    BY ONLY <1>3 DEF Along
  <2> QED BY ONLY <2>1, <1>5, <1>6
<1>9. Meets(FlattenSeq(a), B) <=> \E c \in DOMAIN a : Meets(a[c], B)
  <2>1. ASSUME NEW k \in DOMAIN FlattenSeq(a), FlattenSeq(a)[k] \in B
        PROVE  \E c \in DOMAIN a : Meets(a[c], B)
    BY ONLY <1>7, <2>1 DEF Meets
  <2>2. ASSUME NEW c \in DOMAIN a, NEW i \in DOMAIN a[c], a[c][i] \in B
        PROVE  Meets(FlattenSeq(a), B)
    BY ONLY <1>8, <2>2 DEF Meets
  <2> QED BY ONLY <2>1, <2>2 DEF Meets
<1>10. ASSUME ~Meets(FlattenSeq(a), B) PROVE FlattenSeq(OnFrames(a, B, g)) = Each(g, FlattenSeq(a))
  <2>1. OnFrames(a, B, g) = EachOf(g, a)
    BY ONLY <1>9, <1>10 DEF OnFrames, OnFrame, EachOf
  <2> QED BY <2>1, <1>1, EachEndToEnd
<1> QED BY <1>4, <1>7, <1>9, <1>10

\* Everything in the lists is somewhere in the list of them end to end.
LEMMA PlaceInEnds ==
  ASSUME NEW a, IsList(a), \A c \in DOMAIN a : IsList(a[c]), NEW c \in DOMAIN a, NEW i \in DOMAIN a[c]
  PROVE  \E k \in DOMAIN FlattenSeq(a) : a[c][i] = FlattenSeq(a)[k]
PROOF
<1>1. Meets(a[c], {a[c][i]})
  BY DEF Meets
<1>2. Meets(FlattenSeq(a), {a[c][i]})
  BY <1>1, EndsTogether
<1> QED BY <1>2 DEF Meets

\* The rows of all frames, and a step of a node that takes each by itself.
InPlay == ToSet(rows) \cup UNION {ToSet(alone[c]) : c \in DOMAIN alone}
RowEffect(n, B, g) ==
  /\ stage < n /\ stage' = n
  /\ rows' = OnFrame(rows, B, g) /\ raised' = (raised \/ Meets(rows, B))
  /\ alone' = OnFrames(alone, B, g)
  /\ failed' = failed \cup {c \in DOMAIN alone : Meets(alone[c], B)}
\* It leaves rows of the next stage, of the same queries, and no later want of hits.
GoodRows(n, B, g) ==
  \A r \in InPlay \ B : /\ RowOk(n, g[r]) /\ g[r].query = r.query
                        /\ uneven /\ Lasting(stage, r) => Lasting(n, g[r])
\* It raises on rows of the same query alike.
SameFate(B) ==
  uneven => \A r, t \in InPlay : Lasting(stage, r) /\ Lasting(stage, t) /\ r.query = t.query
                                      => (r \in B <=> t \in B)

\* The batch's frame and the calls' are lists of such rows.
LEMMA FramesInPlay ==
  ASSUME NodesTyped
  PROVE  /\ IsList(rows) /\ IsList(alone) /\ \A c \in DOMAIN alone : IsList(alone[c])
         /\ \A i \in DOMAIN rows : rows[i] \in InPlay
         /\ \A c \in DOMAIN alone : \A i \in DOMAIN alone[c] : alone[c][i] \in InPlay
         /\ \A r \in InPlay : RowOk(stage, r)
PROOF
<1>1. IsList(rows) /\ IsList(alone) /\ \A c \in DOMAIN alone : IsList(alone[c])
  BY DEF NodesTyped, FrameOk
<1>2. \A i \in DOMAIN rows : rows[i] \in InPlay
  BY DEF InPlay, ToSet
<1>3. \A c \in DOMAIN alone : \A i \in DOMAIN alone[c] : alone[c][i] \in InPlay
  BY DEF InPlay, ToSet
<1>4. ASSUME NEW r \in InPlay PROVE RowOk(stage, r)
  BY DEF InPlay, ToSet, NodesTyped, FrameOk
<1> QED BY <1>1, <1>2, <1>3, <1>4

\* What a node leaves of a frame.
LEMMA FrameAfter ==
  ASSUME NEW f, IsList(f), NEW B, NEW g
  PROVE  /\ IsList(OnFrame(f, B, g))
         /\ Meets(f, B) => OnFrame(f, B, g) = <<>>
         /\ ~Meets(f, B) => /\ OnFrame(f, B, g) = Each(g, f) /\ Len(Each(g, f)) = Len(f)
                            /\ DOMAIN Each(g, f) = DOMAIN f
                            /\ \A i \in DOMAIN f : f[i] \notin B /\ Each(g, f)[i] = g[f[i]]
PROOF
<1>1. /\ Each(g, f) \in Seq(ValuesOn(g, ToSet(f)))
      /\ Len(Each(g, f)) = Len(f) /\ DOMAIN Each(g, f) = DOMAIN f
  BY EachFacts DEF IsList
<1>2. IsList(Each(g, f))
  BY <1>1, ListFacts
<1>3. IsList(<<>>)
  BY DEF IsList
<1>4. \A i \in DOMAIN f : Each(g, f)[i] = g[f[i]]
  BY DEF Each
<1> QED BY <1>1, <1>2, <1>3, <1>4 DEF OnFrame, Meets

\* Such a step leaves frames of rows of the next stage.
LEMMA TypedAfter ==
  ASSUME NodesTyped, NEW n \in 1 .. 9, NEW B, NEW g, RowEffect(n, B, g), GoodRows(n, B, g),
         UNCHANGED uneven
  PROVE  NodesTyped'
PROOF
<1>1. ASSUME NEW f, IsList(f), \A i \in DOMAIN f : f[i] \in InPlay
      PROVE  FrameOk(n, OnFrame(f, B, g))
  <2>1. \A i \in DOMAIN OnFrame(f, B, g) : RowOk(n, OnFrame(f, B, g)[i])
    BY <1>1, FrameAfter DEF GoodRows
  <2> QED BY <1>1, <2>1, FrameAfter DEF FrameOk
<1>2. FrameOk(n, rows')
  BY <1>1, FramesInPlay DEF RowEffect
<1>3. \A c \in DOMAIN alone : FrameOk(n, OnFrame(alone[c], B, g))
  BY <1>1, FramesInPlay
<1>4. DOMAIN alone' = DOMAIN alone /\ \A c \in DOMAIN alone : FrameOk(n, alone'[c])
  BY <1>3 DEF RowEffect, OnFrames
<1>5. alone' = [c \in 1 .. Len(alone) |-> alone'[c]]
  BY FramesInPlay, ListFacts DEF RowEffect, OnFrames
<1>6. IsList(alone')
  BY <1>5, FramesInPlay, ListFacts
<1>7. failed' \subseteq DOMAIN alone'
  BY <1>4 DEF RowEffect, NodesTyped
<1>8. stage' = n /\ raised' \in BOOLEAN /\ uneven' \in BOOLEAN
  BY DEF RowEffect, NodesTyped
<1> QED BY <1>2, <1>4, <1>6, <1>7, <1>8 DEF NodesTyped

\* Such a node raises on the batch exactly when it raises on one of the calls by itself.
LEMMA FailTogether ==
  ASSUME NodesInv, NEW B, SameFate(B), ~raised
  PROVE  /\ Meets(rows, B) <=> Meets(FlattenSeq(alone), B)
         /\ Meets(rows, B) <=> \E c \in DOMAIN alone : Meets(alone[c], B)
PROOF
<1> DEFINE flat == FlattenSeq(alone)
<1>1. /\ IsList(flat)
      /\ \A k \in DOMAIN flat : \E c \in DOMAIN alone : \E i \in DOMAIN alone[c] : flat[k] = alone[c][i]
      /\ Meets(flat, B) <=> \E c \in DOMAIN alone : Meets(alone[c], B)
  BY EndsTogether, FramesInPlay DEF NodesInv
<1>2. \A k \in DOMAIN flat : flat[k] \in InPlay
  BY <1>1, FramesInPlay DEF NodesInv
<1>3. (~uneven => rows = flat) /\ (uneven => Alike(stage, rows, flat))
  BY DEF NodesInv, BatchingIsInvisible, AlikeWhenUneven
<1> HIDE DEF flat
<1>4. IsList(rows) /\ \A i \in DOMAIN rows : rows[i] \in InPlay
  BY FramesInPlay DEF NodesInv
<1>5. ASSUME uneven PROVE Meets(rows, B) <=> Meets(flat, B)
  <2>1. DOMAIN rows = DOMAIN flat
    BY <1>1, <1>3, <1>4, <1>5, ListFacts DEF Alike
  <2>2. \A k \in DOMAIN rows : rows[k] \in B <=> flat[k] \in B
    BY <1>2, <1>3, <1>4, <1>5, <2>1 DEF Alike, SameFate
  <2> QED BY <2>1, <2>2 DEF Meets
<1> QED BY <1>1, <1>3, <1>5 DEF flat, NodesInv, NodesTyped

\* Such a step, the same on the batch and on each call, keeps the invariant: a node that
\* takes each row by itself does not show whom a call shares its batch with.
LEMMA BatchAfter ==
  ASSUME NodesInv, NEW n \in 1 .. 9, NEW B, NEW g, RowEffect(n, B, g), GoodRows(n, B, g),
         SameFate(B), UNCHANGED uneven
  PROVE  NodesInv'
PROOF
<1> DEFINE flat == FlattenSeq(alone)
<1>1. /\ IsList(flat)
      /\ \A k \in DOMAIN flat : \E c \in DOMAIN alone : \E i \in DOMAIN alone[c] : flat[k] = alone[c][i]
      /\ Meets(flat, B) <=> \E c \in DOMAIN alone : Meets(alone[c], B)
      /\ ~Meets(flat, B) => FlattenSeq(alone') = Each(g, flat)
  BY EndsTogether, FramesInPlay DEF RowEffect, NodesInv
<1>2. \A k \in DOMAIN flat : flat[k] \in InPlay
  BY <1>1, FramesInPlay DEF NodesInv
<1>3. /\ ~raised /\ ~uneven => rows = flat
      /\ ~raised /\ uneven => Alike(stage, rows, flat)
  BY DEF NodesInv, BatchingIsInvisible, AlikeWhenUneven
<1> HIDE DEF flat
<1>4. IsList(rows) /\ \A i \in DOMAIN rows : rows[i] \in InPlay
  BY FramesInPlay DEF NodesInv
<1>5. ~raised => (Meets(rows, B) <=> Meets(flat, B))
  BY FailTogether DEF flat
<1>6. ~raised => (Meets(rows, B) <=> \E c \in DOMAIN alone : Meets(alone[c], B))
  BY FailTogether
<1>7. (raised <=> failed # {})'
  BY <1>6 DEF RowEffect, NodesInv, BatchingIsInvisible
<1>8. ASSUME raised' PROVE rows' = <<>>
  <2>1. CASE Meets(rows, B)
    BY <2>1 DEF RowEffect, OnFrame
  <2>2. CASE ~Meets(rows, B)
    <3>1. rows = <<>>
      BY <1>8, <2>2 DEF RowEffect, NodesInv, NoneLeft
    <3> QED BY <2>2, <3>1 DEF RowEffect, OnFrame, Each
  <2> QED BY <2>1, <2>2
<1>9. ASSUME ~raised', ~uneven' PROVE rows' = FlattenSeq(alone')
  <2>1. ~raised /\ ~Meets(rows, B) /\ rows = flat
    BY <1>3, <1>9 DEF RowEffect
  <2> QED BY <1>1, <2>1 DEF RowEffect, OnFrame
<1>10. ASSUME ~raised', uneven' PROVE Alike(n, rows', FlattenSeq(alone'))
  <2>1. ~raised /\ ~Meets(rows, B) /\ ~Meets(flat, B) /\ Alike(stage, rows, flat)
    BY <1>3, <1>5, <1>10 DEF RowEffect
  <2>2. rows' = Each(g, rows) /\ FlattenSeq(alone') = Each(g, flat)
    BY <1>1, <2>1 DEF RowEffect, OnFrame
  <2>3. /\ Len(Each(g, rows)) = Len(rows) /\ DOMAIN Each(g, rows) = DOMAIN rows
        /\ \A i \in DOMAIN rows : rows[i] \notin B /\ Each(g, rows)[i] = g[rows[i]]
    <3>1. IsList(rows) /\ ~Meets(rows, B)
      BY <1>4, <2>1
    <3>2. Len(Each(g, rows)) = Len(rows) /\ DOMAIN Each(g, rows) = DOMAIN rows
      BY ONLY <3>1, EachFacts DEF IsList
    <3> QED BY ONLY <3>1, <3>2 DEF Each, Meets
  <2>4. /\ Len(Each(g, flat)) = Len(flat) /\ DOMAIN Each(g, flat) = DOMAIN flat
        /\ \A i \in DOMAIN flat : flat[i] \notin B /\ Each(g, flat)[i] = g[flat[i]]
    <3>1. IsList(flat) /\ ~Meets(flat, B)
      BY <1>1, <2>1
    <3>2. Len(Each(g, flat)) = Len(flat) /\ DOMAIN Each(g, flat) = DOMAIN flat
      BY ONLY <3>1, EachFacts DEF IsList
    <3> QED BY ONLY <3>1, <3>2 DEF Each, Meets
  <2>5. DOMAIN rows = DOMAIN flat
    BY <1>1, <1>4, <2>1, ListFacts DEF Alike
  <2>6. ASSUME NEW k \in DOMAIN rows
        PROVE  g[rows[k]].query = g[flat[k]].query /\ Lasting(n, g[rows[k]]) /\ Lasting(n, g[flat[k]])
    <3>1. rows[k] \in InPlay \ B /\ flat[k] \in InPlay \ B
      BY <1>2, <1>4, <2>3, <2>4, <2>5, <2>6
    <3>2. rows[k].query = flat[k].query /\ Lasting(stage, rows[k]) /\ Lasting(stage, flat[k])
      BY <2>1, <2>6 DEF Alike
    <3> QED BY <1>10, <3>1, <3>2 DEF GoodRows
  <2> QED BY <2>1, <2>2, <2>3, <2>4, <2>5, <2>6 DEF Alike
<1>11. NodesTyped'
  BY TypedAfter DEF NodesInv
<1>12. stage' = n /\ UnevenLate'
  BY DEF RowEffect, NodesInv, NodesTyped, UnevenLate
<1> QED BY <1>7, <1>8, <1>9, <1>10, <1>11, <1>12
        DEF NodesInv, NoneLeft, AlikeWhenUneven, BatchingIsInvisible

\* The batch's frame and the calls' own.
Frames == {rows} \cup {alone[c] : c \in DOMAIN alone}

\* Each is a list of rows in play.
LEMMA FrameRows ==
  ASSUME NodesTyped, NEW f \in Frames
  PROVE  IsList(f) /\ \A i \in DOMAIN f : f[i] \in InPlay
  BY FramesInPlay DEF Frames

\* The guard that asks for retrieved hits on the calls' rows finds them on the batch's too.
LEMMA ReadyRows ==
  ASSUME NodesInv, Every(Retrieved)
  PROVE  \A r \in InPlay : IsList(Hits(r)) /\ (stage < 7 => Hits(r) \in HitLists)
PROOF
<1>1. ASSUME NEW c \in DOMAIN alone, NEW i \in DOMAIN alone[c]
      PROVE  /\ IsList(Hits(alone[c][i])) /\ (stage < 7 => Hits(alone[c][i]) \in HitLists)
  <2>1. RowOk(stage, alone[c][i]) /\ Hits(alone[c][i]) # NoHits
    BY DEF NodesInv, NodesTyped, FrameOk, Every, Retrieved
  <2> QED BY <2>1 DEF RowOk, Hits, MaybeHits
<1>2. ASSUME NEW k \in DOMAIN rows
      PROVE  /\ IsList(Hits(rows[k])) /\ (stage < 7 => Hits(rows[k]) \in HitLists)
  <2>1. ~raised
    BY <1>2 DEF NodesInv, NoneLeft
  <2>2. CASE uneven
    BY <2>1, <2>2 DEF NodesInv, AlikeWhenUneven, Alike, Lasting
  <2>3. CASE ~uneven
    <3>1. rows = FlattenSeq(alone)
      BY <2>1, <2>3 DEF NodesInv, BatchingIsInvisible
    <3>2. \E c \in DOMAIN alone : \E i \in DOMAIN alone[c] : rows[k] = alone[c][i]
      BY <3>1, EndsTogether, FramesInPlay DEF NodesInv
    <3> QED BY <1>1, <3>2
  <2> QED BY <2>2, <2>3
<1> QED BY <1>1, <1>2 DEF InPlay, ToSet

\* drop_retrieval_columns: a row with other hits is a row of the next stage.
LEMMA NewHits ==
  ASSUME NodesOk, NEW n \in 0 .. 9, NEW m \in 1 .. 7, n < m, NEW r, RowOk(n, r),
         NEW x, IsList(x), m < 7 => x \in HitLists
  PROVE  /\ RowOk(m, WithHits(r, x)) /\ WithHits(r, x).query = r.query
         /\ IsList(Hits(WithHits(r, x)))
         /\ m < 7 => Hits(WithHits(r, x)) = x
PROOF
<1> DEFINE w == WithHits(r, x)
<1>1. /\ DOMAIN w = RowFields /\ w.query = r.query /\ w.queries = r.queries
      /\ w.semantic = r.semantic /\ w.lexical = r.lexical
      /\ w.hits = x /\ w.texts = NoHits
  BY DEF WithHits, RowOk, RowFields
<1> HIDE DEF w
<1>2. RowOk(m, w)
  BY <1>1 DEF RowOk, MaybeHits
<1>3. IsList(Hits(w))
  BY <1>1 DEF RowOk, MaybeHits, Hits
<1>4. m < 7 => Hits(w) = x
  BY <1>1 DEF Hits, NodesOk
<1> QED BY <1>1, <1>2, <1>3, <1>4 DEF w

\* A node that gives every row it does not raise on other hits.
BadRows(some) == {r \in InPlay : EmptyRow(r) \/ r.query \in some}
\* Its effect on a frame, and its step.
BrokenBy(f, some) == \E i \in DOMAIN f : EmptyRow(f[i]) \/ f[i].query \in some
HitsOn(f, x) == [i \in DOMAIN f |-> WithHits(f[i], x[f[i]])]
HitsStep(n, some, x) ==
  /\ stage < n /\ stage' = n
  /\ rows' = (IF BrokenBy(rows, some) THEN <<>> ELSE HitsOn(rows, x))
  /\ raised' = (raised \/ BrokenBy(rows, some))
  /\ alone' = [c \in DOMAIN alone |-> IF BrokenBy(alone[c], some) THEN <<>> ELSE HitsOn(alone[c], x)]
  /\ failed' = failed \cup {c \in DOMAIN alone : BrokenBy(alone[c], some)}
\* The hits it gives.
HitsFor(n, r, x) == IsList(x) /\ (n < 7 => x \in HitLists) /\ (uneven /\ n < 7 => x # <<>>)

\* It takes each row by itself.
LEMMA HitsEffect ==
  ASSUME NodesTyped, NEW n, NEW some, NEW x, HitsStep(n, some, x)
  PROVE  RowEffect(n, BadRows(some), [r \in InPlay |-> WithHits(r, x[r])])
PROOF
<1> DEFINE g == [r \in InPlay |-> WithHits(r, x[r])]
           B == BadRows(some)
<1>1. ASSUME NEW f, \A i \in DOMAIN f : f[i] \in InPlay
      PROVE  /\ BrokenBy(f, some) <=> Meets(f, B)
             /\ HitsOn(f, x) = Each(g, f)
  <2>1. BrokenBy(f, some) <=> Meets(f, B)
    BY <1>1 DEF BrokenBy, Meets, BadRows
  <2>2. HitsOn(f, x) = Each(g, f)
    BY <1>1 DEF HitsOn, Each
  <2> QED BY <2>1, <2>2
<1> HIDE DEF g, B
<1>2. /\ BrokenBy(rows, some) <=> Meets(rows, B)
      /\ HitsOn(rows, x) = Each(g, rows)
  BY <1>1, FramesInPlay
<1>3. ASSUME NEW c \in DOMAIN alone
      PROVE  /\ BrokenBy(alone[c], some) <=> Meets(alone[c], B)
             /\ HitsOn(alone[c], x) = Each(g, alone[c])
  BY <1>1, FramesInPlay
<1>4. alone' = OnFrames(alone, B, g)
  BY <1>3 DEF HitsStep, OnFrames, OnFrame
<1>5. failed' = failed \cup {c \in DOMAIN alone : Meets(alone[c], B)}
  BY <1>3 DEF HitsStep
<1>6. rows' = OnFrame(rows, B, g) /\ raised' = (raised \/ Meets(rows, B))
  BY <1>2 DEF HitsStep, OnFrame
<1>7. RowEffect(n, B, g)
  BY <1>4, <1>5, <1>6 DEF HitsStep, RowEffect
<1> QED BY <1>7 DEF B, g

\* And leaves good rows.
LEMMA HitsAreGood ==
  ASSUME NodesOk, NodesInv, NEW n \in 1 .. 7, stage < n, NEW B, NEW x,
         \A r \in InPlay \ B : HitsFor(n, r, x[r])
  PROVE  GoodRows(n, B, [r \in InPlay |-> WithHits(r, x[r])])
PROOF
<1>1. ASSUME NEW r \in InPlay \ B
      PROVE  /\ RowOk(n, WithHits(r, x[r])) /\ WithHits(r, x[r]).query = r.query
             /\ uneven => Lasting(n, WithHits(r, x[r]))
  <2>1. stage \in 0 .. 9 /\ RowOk(stage, r) /\ HitsFor(n, r, x[r])
    BY FramesInPlay DEF NodesInv, NodesTyped
  <2>2. IsList(x[r]) /\ (n < 7 => x[r] \in HitLists) /\ (uneven /\ n < 7 => x[r] # <<>>)
    BY <2>1 DEF HitsFor
  <2>3. /\ RowOk(n, WithHits(r, x[r])) /\ WithHits(r, x[r]).query = r.query
        /\ IsList(Hits(WithHits(r, x[r]))) /\ (n < 7 => Hits(WithHits(r, x[r])) = x[r])
    <3>1. PICK m \in 0 .. 9 : m = stage
      BY <2>1
    <3>2. m < n /\ RowOk(m, r)
      BY <2>1, <3>1
    <3> QED BY ONLY NodesOk, n \in 1 .. 7, m \in 0 .. 9, <2>2, <3>2, NewHits
  <2> QED BY <2>2, <2>3 DEF Lasting
<1> QED BY <1>1 DEF GoodRows

\* Before the rerankers, rows of the same query that last are both not empty.
LEMMA SameEmpty ==
  ASSUME stage < 7, NEW some
  PROVE  SameFate(BadRows(some))
  BY DEF SameFate, BadRows, Lasting, EmptyRow

\* So it keeps the invariant.
LEMMA HitsAfter ==
  ASSUME NodesOk, NodesInv, NEW n \in 1 .. 7, NEW some, NEW x, HitsStep(n, some, x),
         \A r \in InPlay \ BadRows(some) : HitsFor(n, r, x[r]), UNCHANGED uneven
  PROVE  NodesInv'
PROOF
<1> DEFINE g == [r \in InPlay |-> WithHits(r, x[r])]
<1>1. stage < n /\ stage < 7
  BY DEF HitsStep, NodesInv, NodesTyped
<1>2. RowEffect(n, BadRows(some), g) /\ n \in 1 .. 9
  BY HitsEffect DEF NodesInv
<1>3. GoodRows(n, BadRows(some), g)
  BY ONLY NodesOk, NodesInv, n \in 1 .. 7, <1>1, HitsAreGood,
     \A r \in InPlay \ BadRows(some) : HitsFor(n, r, x[r]) DEF g
<1>4. SameFate(BadRows(some))
  BY <1>1, SameEmpty
<1> HIDE DEF g
<1> QED BY <1>2, <1>3, <1>4, BatchAfter

-----------------------------------------------------------------------------
(***************************************************************************)
(* Every node's step is such a step; PercentileCutoff's, colbert's and        *)
(* monot5's are when the batch's rows are alike.                            *)
(***************************************************************************)

\* Every frame has its hits as lists.
LEMMA FramesReady ==
  ASSUME NodesInv, Every(Retrieved), NEW f \in Frames
  PROVE  HitsReady(f) /\ \A i \in DOMAIN f : f[i] \in InPlay
  BY FrameRows, ReadyRows DEF HitsReady, NodesInv

\* The queries whose rows have no id that the corpus knows: all, when the contents stand in
\* the ids' column.
Lost == IF swapped THEN Asked ELSE {}

\* What looks the ids up raises on those rows, and on the empty ones.
LEMMA NotFoundRows ==
  ASSUME NodesInv, NEW f \in Frames
  PROVE  (\E i \in DOMAIN f : NotFound(f[i])) <=> BrokenBy(f, Lost)
PROOF
<1>1. \A i \in DOMAIN f : f[i].query \in Asked
  BY FrameRows, FramesInPlay DEF NodesInv, RowOk
<1>2. CASE swapped
  BY <1>1, <1>2 DEF NotFound, BrokenBy, Lost
<1>3. CASE ~swapped
  BY <1>3 DEF NotFound, BrokenBy, Lost
<1> QED BY <1>2, <1>3

\* Such a node's step.
LostStep(n, x) ==
  /\ stage < n /\ stage' = n
  /\ rows' = (IF \E i \in DOMAIN rows : NotFound(rows[i]) THEN <<>> ELSE HitsOn(rows, x))
  /\ raised' = (raised \/ \E i \in DOMAIN rows : NotFound(rows[i]))
  /\ alone' = [c \in DOMAIN alone |->
                 IF \E i \in DOMAIN alone[c] : NotFound(alone[c][i]) THEN <<>> ELSE HitsOn(alone[c], x)]
  /\ failed' = failed \cup {c \in DOMAIN alone : \E i \in DOMAIN alone[c] : NotFound(alone[c][i])}

\* It is the step of one that raises on those queries.
LEMMA NotFoundStep ==
  ASSUME NodesInv, NEW n, NEW x, LostStep(n, x)
  PROVE  HitsStep(n, Lost, x)
PROOF
<1>1. (\E i \in DOMAIN rows : NotFound(rows[i])) <=> BrokenBy(rows, Lost)
  BY NotFoundRows DEF Frames
<1>2. ASSUME NEW c \in DOMAIN alone
      PROVE  (\E i \in DOMAIN alone[c] : NotFound(alone[c][i])) <=> BrokenBy(alone[c], Lost)
  BY NotFoundRows DEF Frames
<1>3. alone' = [c \in DOMAIN alone |-> IF BrokenBy(alone[c], Lost) THEN <<>> ELSE HitsOn(alone[c], x)]
  BY <1>2 DEF LostStep
<1>4. failed' = failed \cup {c \in DOMAIN alone : BrokenBy(alone[c], Lost)}
  BY <1>2 DEF LostStep
<1> QED BY <1>1, <1>3, <1>4 DEF LostStep, HitsStep

\* The augmenter keeps the invariant.
LEMMA AugmenterSafe ==
  ASSUME NodesOk, NodesInv, PassageAugmenter
  PROVE  NodesInv'
PROOF
<1> DEFINE x == [r \in InPlay |-> Augmented(r)]
<1>1. Every(Retrieved) /\ Unmarked /\ stage < 6
  BY DEF PassageAugmenter, Node
<1>2. \A f \in Frames : RowByRow(f, Augmented) = HitsOn(f, x)
  BY FrameRows DEF RowByRow, Mapped, HitsOn, NodesInv
<1>3. HitsStep(6, Lost, x)
  <2> HIDE DEF x
  <2>1. LostStep(6, x)
    BY <1>2 DEF PassageAugmenter, Node, Left, Breaks, LostStep, Frames, RowByRow, Mapped
  <2> QED BY <2>1, NotFoundStep
<1>4. \A r \in InPlay \ BadRows(Lost) : HitsFor(6, r, x[r])
  <2>1. ASSUME NEW r \in InPlay \ BadRows(Lost) PROVE HitsFor(6, r, Augmented(r))
    <3>1. RowOk(stage, r) /\ r \notin BadRows(Lost) /\ stage \in 0 .. 9
      BY FramesInPlay DEF NodesInv, NodesTyped
    <3>2. r.query \in Asked /\ Hits(r) \in HitLists /\ Hits(r) # <<>>
      BY <1>1, <3>1, ReadyRows DEF RowOk, BadRows, EmptyRow, NodesInv, NodesTyped
    <3> QED BY <3>2, AugmentedFacts, ListFacts DEF HitsFor, HitLists
  <2> QED BY <2>1
<1> HIDE DEF x
<1> QED BY <1>1, <1>3, <1>4, HitsAfter DEF Unmarked

\* The best of a row under a model's scores, and under each one's share of their sum.
BestBy(k) == [r \in InPlay |-> Best(WithScores(Hits(r), ScoresIn(r)), k)]
\* ko-reranker's.
SharesIn(r) == [j \in DOMAIN ScoresIn(r) |->
                  (100 * ScoresIn(r)[j]) \div SumOver(ScoresIn(r), DOMAIN ScoresIn(r))]
BestShares == [r \in InPlay |-> Best(WithScores(Hits(r), SharesIn(r)), TopK)]

\* Every reranker that flattens the frame and cuts the scores back is one that takes each
\* row by itself: the replicas, the batches and the cutting do not show.
LEMMA ScoredRows ==
  ASSUME NodesOk, NodesInv, Every(Retrieved), NEW f \in Frames
  PROVE  /\ CrossEncoder(f) = HitsOn(f, BestBy(TopK)) /\ Tart(f) = HitsOn(f, BestBy(TopK))
         /\ FlashRank(f) = HitsOn(f, BestBy(TopK))
         /\ SentenceTransformer(f) = HitsOn(f, BestBy(1))
         /\ KoReranker(f) = HitsOn(f, BestShares)
PROOF
<1>1. HitsReady(f) /\ \A i \in DOMAIN f : f[i] \in InPlay
  BY FramesReady
<1> DEFINE byRow == [i \in DOMAIN f |-> ScoresIn(f[i])]
<1>2. \A k : BestOfRows(f, byRow, k) = HitsOn(f, BestBy(k))
  BY <1>1 DEF BestOfRows, HitsOn, BestBy
<1>3. /\ \A model : PairScores(f, model) = byRow
      /\ Regrouped(ModelScores(Flat(f)), Lengths(f)) = byRow
      /\ Similarities(f) = byRow
  BY <1>1, ScoresByRow
<1>4. CrossEncoder(f) = HitsOn(f, BestBy(TopK)) /\ Tart(f) = HitsOn(f, BestBy(TopK))
  BY <1>2, <1>3 DEF CrossEncoder, Tart, Ranked
<1>5. SentenceTransformer(f) = HitsOn(f, BestBy(1))
  BY <1>2, <1>3 DEF SentenceTransformer
<1>6. FlashRank(f) = HitsOn(f, BestBy(TopK))
  <2>1. FlashRank(f) = Ranked(f, Similarities(f))
    BY DEF FlashRank, Similarities, InBatches, Mapped
  <2> QED BY <2>1, <1>2, <1>3 DEF Ranked
<1>7. KoReranker(f) = HitsOn(f, BestShares)
  <2> DEFINE shares == [i \in DOMAIN byRow |-> [j \in DOMAIN byRow[i] |->
                          (100 * byRow[i][j]) \div SumOver(byRow[i], DOMAIN byRow[i])]]
  <2>1. KoReranker(f) = Ranked(f, [i \in DOMAIN Similarities(f) |->
                          [j \in DOMAIN Similarities(f)[i] |->
                             (100 * Similarities(f)[i][j])
                               \div SumOver(Similarities(f)[i], DOMAIN Similarities(f)[i])]])
    BY DEF KoReranker, Similarities, InBatches, Mapped
  <2>2. KoReranker(f) = Ranked(f, shares)
    BY <2>1, <1>3
  <2>3. shares = [i \in DOMAIN f |-> SharesIn(f[i])]
    BY DEF SharesIn
  <2> HIDE DEF shares
  <2> QED BY <1>1, <2>2, <2>3 DEF Ranked, BestOfRows, HitsOn, BestShares
<1> QED BY <1>4, <1>5, <1>6, <1>7

\* What a reranker does, of whichever module.
Reranking(some, x) == HitsStep(7, some, x) /\ \A r \in InPlay : IsList(x[r])

\* So are the steps of the rerankers that are without a choice of their own.
LEMMA ScoredSteps ==
  ASSUME NodesOk, NodesInv, Every(Retrieved)
  PROVE  /\ Node(7, EmptyRow, CrossEncoder) => Reranking({}, BestBy(TopK))
         /\ Node(7, EmptyRow, FlashRank) => Reranking({}, BestBy(TopK))
         /\ Node(7, EmptyRow, Tart) => Reranking({}, BestBy(TopK))
         /\ Node(7, EmptyRow, SentenceTransformer) => Reranking({}, BestBy(1))
         /\ Node(7, EmptyRow, KoReranker) => Reranking({}, BestShares)
PROOF
<1>1. \A k \in Nat \ {0} : \A r \in InPlay : IsList(BestBy(k)[r])
  BY ReadyRows, RankedLists DEF BestBy
<1>2. \A r \in InPlay : IsList(BestShares[r])
  BY ReadyRows, RankedLists DEF BestShares, NodesOk
<1>3. TopK \in Nat \ {0} /\ 1 \in Nat \ {0}
  BY DEF NodesOk
<1>4. Node(7, EmptyRow, CrossEncoder) => HitsStep(7, {}, BestBy(TopK))
  BY ScoredRows DEF Node, Left, Breaks, BrokenBy, HitsStep, Frames
<1>5. Node(7, EmptyRow, FlashRank) => HitsStep(7, {}, BestBy(TopK))
  BY ScoredRows DEF Node, Left, Breaks, BrokenBy, HitsStep, Frames
<1>6. Node(7, EmptyRow, Tart) => HitsStep(7, {}, BestBy(TopK))
  BY ScoredRows DEF Node, Left, Breaks, BrokenBy, HitsStep, Frames
<1>7. Node(7, EmptyRow, SentenceTransformer) => HitsStep(7, {}, BestBy(1))
  BY ScoredRows DEF Node, Left, Breaks, BrokenBy, HitsStep, Frames
<1>8. Node(7, EmptyRow, KoReranker) => HitsStep(7, {}, BestShares)
  BY ScoredRows DEF Node, Left, Breaks, BrokenBy, HitsStep, Frames
<1> QED BY <1>1, <1>2, <1>3, <1>4, <1>5, <1>6, <1>7, <1>8 DEF Reranking

\* And those of the rerankers that take a request per row.
LEMMA RequestSteps ==
  ASSUME NodesOk, NodesInv, Every(Retrieved), NEW some
  PROVE  /\ Node(7, EmptyRow, LAMBDA f : RowByRow(f, HostedRerank))
              => Reranking({}, [r \in InPlay |-> HostedRerank(r)])
         /\ Node(7, LAMBDA r : NvidiaRaises(r, some), LAMBDA f : RowByRow(f, HostedRerank))
              => Reranking(some, [r \in InPlay |-> HostedRerank(r)])
         /\ Node(7, LAMBDA r : JinaRaises(r, some), LAMBDA f : RowByRow(f, HostedRerank))
              => Reranking(some, [r \in InPlay |-> HostedRerank(r)])
         /\ Node(7, EmptyRow, LAMBDA f : RowByRow(f, Upr))
              => Reranking({}, [r \in InPlay |-> Upr(r)])
         /\ Node(7, EmptyRow, LAMBDA f : RowByRow(f, RankGpt))
              => Reranking({}, [r \in InPlay |-> RankGpt(r)])
         /\ Node(7, NotFound, LAMBDA f : RowByRow(f, TimeRerank))
              => Reranking(Lost, [r \in InPlay |-> TimeRerank(r)])
PROOF
<1>1. \A r \in InPlay : /\ IsList(HostedRerank(r)) /\ IsList(Upr(r))
                        /\ IsList(RankGpt(r)) /\ IsList(TimeRerank(r))
  BY ReadyRows, RankedLists
<1>2. \A f \in Frames : \A i \in DOMAIN f : f[i] \in InPlay
  BY FramesReady
<1>3. ASSUME Node(7, EmptyRow, LAMBDA f : RowByRow(f, HostedRerank))
      PROVE  Reranking({}, [r \in InPlay |-> HostedRerank(r)])
  <2> DEFINE x == [r \in InPlay |-> HostedRerank(r)]
  <2>1. \A f \in Frames : RowByRow(f, HostedRerank) = HitsOn(f, x)
    BY <1>2 DEF RowByRow, Mapped, HitsOn
  <2> HIDE DEF x
  <2>2. HitsStep(7, {}, x)
    BY <1>3, <2>1 DEF Node, Left, Breaks, BrokenBy, HitsStep, Frames, RowByRow, Mapped
  <2> QED BY <1>1, <2>2 DEF Reranking, x
<1>4. ASSUME Node(7, LAMBDA r : NvidiaRaises(r, some), LAMBDA f : RowByRow(f, HostedRerank))
      PROVE  Reranking(some, [r \in InPlay |-> HostedRerank(r)])
  <2> DEFINE x == [r \in InPlay |-> HostedRerank(r)]
  <2>1. \A f \in Frames : RowByRow(f, HostedRerank) = HitsOn(f, x)
    BY <1>2 DEF RowByRow, Mapped, HitsOn
  <2> HIDE DEF x
  <2>2. HitsStep(7, some, x)
    BY <1>4, <2>1 DEF Node, Left, Breaks, BrokenBy, HitsStep, Frames, RowByRow, Mapped, NvidiaRaises
  <2> QED BY <1>1, <2>2 DEF Reranking, x
<1>5. ASSUME Node(7, LAMBDA r : JinaRaises(r, some), LAMBDA f : RowByRow(f, HostedRerank))
      PROVE  Reranking(some, [r \in InPlay |-> HostedRerank(r)])
  <2> DEFINE x == [r \in InPlay |-> HostedRerank(r)]
  <2>1. \A f \in Frames : RowByRow(f, HostedRerank) = HitsOn(f, x)
    BY <1>2 DEF RowByRow, Mapped, HitsOn
  <2> HIDE DEF x
  <2>2. HitsStep(7, some, x)
    BY <1>5, <2>1 DEF Node, Left, Breaks, BrokenBy, HitsStep, Frames, RowByRow, Mapped, JinaRaises
  <2> QED BY <1>1, <2>2 DEF Reranking, x
<1>6. ASSUME Node(7, EmptyRow, LAMBDA f : RowByRow(f, Upr))
      PROVE  Reranking({}, [r \in InPlay |-> Upr(r)])
  <2> DEFINE x == [r \in InPlay |-> Upr(r)]
  <2>1. \A f \in Frames : RowByRow(f, Upr) = HitsOn(f, x)
    BY <1>2 DEF RowByRow, Mapped, HitsOn
  <2> HIDE DEF x
  <2>2. HitsStep(7, {}, x)
    BY <1>6, <2>1 DEF Node, Left, Breaks, BrokenBy, HitsStep, Frames, RowByRow, Mapped
  <2> QED BY <1>1, <2>2 DEF Reranking, x
<1>7. ASSUME Node(7, EmptyRow, LAMBDA f : RowByRow(f, RankGpt))
      PROVE  Reranking({}, [r \in InPlay |-> RankGpt(r)])
  <2> DEFINE x == [r \in InPlay |-> RankGpt(r)]
  <2>1. \A f \in Frames : RowByRow(f, RankGpt) = HitsOn(f, x)
    BY <1>2 DEF RowByRow, Mapped, HitsOn
  <2> HIDE DEF x
  <2>2. HitsStep(7, {}, x)
    BY <1>7, <2>1 DEF Node, Left, Breaks, BrokenBy, HitsStep, Frames, RowByRow, Mapped
  <2> QED BY <1>1, <2>2 DEF Reranking, x
<1>8. ASSUME Node(7, NotFound, LAMBDA f : RowByRow(f, TimeRerank))
      PROVE  Reranking(Lost, [r \in InPlay |-> TimeRerank(r)])
  <2> DEFINE x == [r \in InPlay |-> TimeRerank(r)]
  <2>1. \A f \in Frames : RowByRow(f, TimeRerank) = HitsOn(f, x)
    BY <1>2 DEF RowByRow, Mapped, HitsOn
  <2> HIDE DEF x
  <2>2. HitsStep(7, Lost, x)
    <3>1. LostStep(7, x)
      BY <1>8, <2>1 DEF Node, Left, Breaks, LostStep, Frames, RowByRow, Mapped
    <3> QED BY <3>1, NotFoundStep
  <2> QED BY <1>1, <2>2 DEF Reranking, x
<1> QED BY <1>3, <1>4, <1>5, <1>6, <1>7, <1>8

\* And nvidia's, whichever requests come back short.
LEMMA NvidiaStep ==
  ASSUME NodesOk, NodesInv, Every(Retrieved), NEW some \in SUBSET Asked,
         Node(7, LAMBDA r : NvidiaRaises(r, some), LAMBDA f : RowByRow(f, HostedRerank))
  PROVE  \E x : Reranking(some, x)
  BY ONLY NodesOk, NodesInv, Every(Retrieved), RequestSteps,
     Node(7, LAMBDA r : NvidiaRaises(r, some), LAMBDA f : RowByRow(f, HostedRerank))

\* And jina's, whichever are refused.
LEMMA JinaStep ==
  ASSUME NodesOk, NodesInv, Every(Retrieved), NEW some \in SUBSET Asked,
         Node(7, LAMBDA r : JinaRaises(r, some), LAMBDA f : RowByRow(f, HostedRerank))
  PROVE  \E x : Reranking(some, x)
  BY ONLY NodesOk, NodesInv, Every(Retrieved), RequestSteps,
     Node(7, LAMBDA r : JinaRaises(r, some), LAMBDA f : RowByRow(f, HostedRerank))

\* The reranker, of whichever module, keeps the invariant.
LEMMA RerankerSafe ==
  ASSUME NodesOk, NodesInv, PassageReranker
  PROVE  NodesInv'
PROOF
<1>1. Every(Retrieved) /\ UNCHANGED uneven
  BY DEF PassageReranker, Unmarked
<1>2. \E some : \E x : Reranking(some, x)
  <2>1. CASE \/ Node(7, EmptyRow, CrossEncoder) \/ Node(7, EmptyRow, FlashRank)
             \/ Node(7, EmptyRow, SentenceTransformer)
             \/ Node(7, EmptyRow, Tart) \/ Node(7, EmptyRow, KoReranker)
    BY <1>1, <2>1, ScoredSteps
  <2>2. CASE \/ Node(7, EmptyRow, LAMBDA f : RowByRow(f, HostedRerank))
             \/ Node(7, EmptyRow, LAMBDA f : RowByRow(f, Upr))
             \/ Node(7, EmptyRow, LAMBDA f : RowByRow(f, RankGpt))
             \/ Node(7, NotFound, LAMBDA f : RowByRow(f, TimeRerank))
    BY <1>1, <2>2, RequestSteps
  <2>3. CASE \E some \in SUBSET Asked :
               \/ Node(7, LAMBDA r : NvidiaRaises(r, some), LAMBDA f : RowByRow(f, HostedRerank))
               \/ Node(7, LAMBDA r : JinaRaises(r, some), LAMBDA f : RowByRow(f, HostedRerank))
    <3>1. PICK some \in SUBSET Asked :
               \/ Node(7, LAMBDA r : NvidiaRaises(r, some), LAMBDA f : RowByRow(f, HostedRerank))
               \/ Node(7, LAMBDA r : JinaRaises(r, some), LAMBDA f : RowByRow(f, HostedRerank))
      BY <2>3
    <3>2. CASE Node(7, LAMBDA r : NvidiaRaises(r, some), LAMBDA f : RowByRow(f, HostedRerank))
      BY <1>1, <3>2, NvidiaStep
    <3>3. CASE Node(7, LAMBDA r : JinaRaises(r, some), LAMBDA f : RowByRow(f, HostedRerank))
      BY <1>1, <3>3, JinaStep
    <3> QED BY ONLY <3>1, <3>2, <3>3
  <2> QED BY <2>1, <2>2, <2>3 DEF PassageReranker
<1>3. PICK some : \E x : Reranking(some, x)
  BY <1>2
<1>4. PICK x : Reranking(some, x)
  BY <1>3
<1>5. HitsStep(7, some, x) /\ \A r \in InPlay \ BadRows(some) : HitsFor(7, r, x[r])
  BY <1>4 DEF Reranking, HitsFor
<1> QED BY <1>1, <1>5, HitsAfter

\* What a filter does, of whichever module.
Filtering(x) ==
  HitsStep(5, {}, x) /\ \A r \in InPlay : Hits(r) \in HitLists \ {<<>>} => x[r] \in HitLists

\* What the similarity filters leave of a row.
AboveSimilarity(r, t) ==
  Kept(r, Those(Hits(r), LAMBDA h : Relevance[r.query][h.id] >= t),
       HitOf(Hits(r), ByScore(Rescored(r))[1].id))
HalfBySimilarity(r) ==
  LET k == Len(Hits(r)) \div 2 IN
  Mapped(LAMBDA h : HitOf(Hits(r), h.id), FirstK(ByScore(Rescored(r)), IF k = 0 THEN 1 ELSE k))

\* The filters but PercentileCutoff are ones that take each row by itself.
LEMMA FilteredRows ==
  ASSUME NodesOk, NodesInv, Every(Retrieved), NEW f \in Frames
  PROVE  /\ \A t : RowByRow(f, LAMBDA r : ThresholdCutoff(r, t))
                     = HitsOn(f, [r \in InPlay |-> ThresholdCutoff(r, t)])
         /\ \A t : RowByRow(f, LAMBDA r : RecencyFilter(r, t))
                     = HitsOn(f, [r \in InPlay |-> RecencyFilter(r, t)])
         /\ \A t : SimilarityThreshold(f, t) = HitsOn(f, [r \in InPlay |-> AboveSimilarity(r, t)])
         /\ SimilarityPercentile(f) = HitsOn(f, [r \in InPlay |-> HalfBySimilarity(r)])
PROOF
<1>1. HitsReady(f) /\ \A i \in DOMAIN f : f[i] \in InPlay
  BY FramesReady
<1>2. Similarities(f) = [i \in DOMAIN f |-> ScoresIn(f[i])]
  BY <1>1, ScoresByRow
<1>3. \A i \in DOMAIN f : BySimilarity(f, i) = ByScore(Rescored(f[i]))
  BY <1>2 DEF BySimilarity, Rescored
<1>4. ASSUME NEW t
      PROVE  /\ RowByRow(f, LAMBDA r : ThresholdCutoff(r, t))
                  = HitsOn(f, [r \in InPlay |-> ThresholdCutoff(r, t)])
             /\ RowByRow(f, LAMBDA r : RecencyFilter(r, t))
                  = HitsOn(f, [r \in InPlay |-> RecencyFilter(r, t)])
  BY <1>1 DEF RowByRow, Mapped, HitsOn
<1>5. ASSUME NEW t
      PROVE  SimilarityThreshold(f, t) = HitsOn(f, [r \in InPlay |-> AboveSimilarity(r, t)])
  <2>1. \A i \in DOMAIN f :
          WithHits(f[i], Kept(f[i], Those(Hits(f[i]), LAMBDA h : Relevance[f[i].query][h.id] >= t),
                              HitOf(Hits(f[i]), BySimilarity(f, i)[1].id)))
            = WithHits(f[i], AboveSimilarity(f[i], t))
    BY <1>3 DEF AboveSimilarity, Those
  <2> QED BY <1>1, <2>1 DEF SimilarityThreshold, HitsOn, Those
<1>6. SimilarityPercentile(f) = HitsOn(f, [r \in InPlay |-> HalfBySimilarity(r)])
  <2>1. \A i \in DOMAIN f :
          (LET k == Len(Hits(f[i])) \div 2 IN
           WithHits(f[i], Mapped(LAMBDA h : HitOf(Hits(f[i]), h.id),
                                 FirstK(BySimilarity(f, i), IF k = 0 THEN 1 ELSE k))))
            = WithHits(f[i], HalfBySimilarity(f[i]))
    BY <1>3 DEF HalfBySimilarity, Mapped
  <2> QED BY <1>1, <2>1 DEF SimilarityPercentile, HitsOn, Mapped
<1> QED BY <1>4, <1>5, <1>6

\* So are their steps, and they leave hits.
LEMMA FilterSteps ==
  ASSUME NodesOk, NodesInv, Every(Retrieved)
  PROVE  /\ Node(5, EmptyRow, LAMBDA f : RowByRow(f, LAMBDA r : ThresholdCutoff(r, 3)))
              => \E x : Filtering(x)
         /\ Node(5, EmptyRow, LAMBDA f : SimilarityThreshold(f, 2)) => \E x : Filtering(x)
         /\ Node(5, EmptyRow, SimilarityPercentile) => \E x : Filtering(x)
         /\ Node(5, EmptyRow, LAMBDA f : RowByRow(f, LAMBDA r : RecencyFilter(r, 3)))
              => \E x : Filtering(x)
PROOF
<1>1. ASSUME NEW r \in InPlay, Hits(r) \in HitLists \ {<<>>}
      PROVE  /\ ThresholdCutoff(r, 3) \in HitLists /\ RecencyFilter(r, 3) \in HitLists
             /\ AboveSimilarity(r, 2) \in HitLists /\ HalfBySimilarity(r) \in HitLists
  <2>1. r.query \in Asked /\ Hits(r) \in HitLists /\ Hits(r) # <<>>
    BY <1>1, FramesInPlay DEF NodesInv, RowOk
  <2>2. ThresholdCutoff(r, 3) \in HitLists /\ RecencyFilter(r, 3) \in HitLists
    BY <2>1, FilterFacts
  <2>3. AboveSimilarity(r, 2) \in HitLists
    BY <2>1, FilterFacts DEF AboveSimilarity, Those
  <2>4. HalfBySimilarity(r) \in HitLists
    <3> DEFINE k == Len(Hits(r)) \div 2
    <3>1. (IF k = 0 THEN 1 ELSE k) \in Nat \ {0}
      BY <2>1 DEF HitLists
    <3> HIDE DEF k
    <3>2. PICK m \in Nat \ {0} : m = IF k = 0 THEN 1 ELSE k
      BY <3>1
    <3>3. Mapped(LAMBDA h : HitOf(Hits(r), h.id), FirstK(ByScore(Rescored(r)), m)) \in HitLists
      BY <2>1, FilterFacts DEF Mapped
    <3> QED BY <3>2, <3>3 DEF HalfBySimilarity, Mapped, k
  <2> QED BY <2>2, <2>3, <2>4
<1>2. ASSUME Node(5, EmptyRow, LAMBDA f : RowByRow(f, LAMBDA r : ThresholdCutoff(r, 3)))
      PROVE  \E x : Filtering(x)
  <2> DEFINE x == [r \in InPlay |-> ThresholdCutoff(r, 3)]
  <2>1. \A f \in Frames : RowByRow(f, LAMBDA r : ThresholdCutoff(r, 3)) = HitsOn(f, x)
    BY FilteredRows DEF RowByRow, Mapped
  <2>2. \A r \in InPlay : Hits(r) \in HitLists \ {<<>>} => x[r] \in HitLists
    BY <1>1
  <2> HIDE DEF x
  <2>3. HitsStep(5, {}, x)
    BY <1>2, <2>1 DEF Node, Left, Breaks, BrokenBy, HitsStep, Frames, RowByRow, Mapped
  <2> QED BY <2>2, <2>3 DEF Filtering
<1>3. ASSUME Node(5, EmptyRow, LAMBDA f : RowByRow(f, LAMBDA r : RecencyFilter(r, 3)))
      PROVE  \E x : Filtering(x)
  <2> DEFINE x == [r \in InPlay |-> RecencyFilter(r, 3)]
  <2>1. \A f \in Frames : RowByRow(f, LAMBDA r : RecencyFilter(r, 3)) = HitsOn(f, x)
    BY FilteredRows DEF RowByRow, Mapped
  <2>2. \A r \in InPlay : Hits(r) \in HitLists \ {<<>>} => x[r] \in HitLists
    BY <1>1
  <2> HIDE DEF x
  <2>3. HitsStep(5, {}, x)
    BY <1>3, <2>1 DEF Node, Left, Breaks, BrokenBy, HitsStep, Frames, RowByRow, Mapped
  <2> QED BY <2>2, <2>3 DEF Filtering
<1>4. ASSUME Node(5, EmptyRow, LAMBDA f : SimilarityThreshold(f, 2)) PROVE \E x : Filtering(x)
  <2> DEFINE x == [r \in InPlay |-> AboveSimilarity(r, 2)]
  <2>1. \A f \in Frames : SimilarityThreshold(f, 2) = HitsOn(f, x)
    BY FilteredRows
  <2>2. \A r \in InPlay : Hits(r) \in HitLists \ {<<>>} => x[r] \in HitLists
    BY <1>1
  <2> HIDE DEF x
  <2>3. HitsStep(5, {}, x)
    BY <1>4, <2>1 DEF Node, Left, Breaks, BrokenBy, HitsStep, Frames
  <2> QED BY <2>2, <2>3 DEF Filtering
<1>5. ASSUME Node(5, EmptyRow, SimilarityPercentile) PROVE \E x : Filtering(x)
  <2> DEFINE x == [r \in InPlay |-> HalfBySimilarity(r)]
  <2>1. \A f \in Frames : SimilarityPercentile(f) = HitsOn(f, x)
    BY FilteredRows
  <2>2. \A r \in InPlay : Hits(r) \in HitLists \ {<<>>} => x[r] \in HitLists
    BY <1>1
  <2> HIDE DEF x
  <2>3. HitsStep(5, {}, x)
    BY <1>5, <2>1 DEF Node, Left, Breaks, BrokenBy, HitsStep, Frames
  <2> QED BY <2>2, <2>3 DEF Filtering
<1> QED BY <1>2, <1>3, <1>4, <1>5

\* Such a filter keeps the invariant.
LEMMA FilteringSafe ==
  ASSUME NodesOk, NodesInv, Every(Retrieved), NEW x, Filtering(x), UNCHANGED uneven
  PROVE  NodesInv'
PROOF
<1>1. HitsStep(5, {}, x) /\ stage < 5 /\ ~uneven
  BY DEF Filtering, HitsStep, NodesInv, NodesTyped, UnevenLate
<1>2. ASSUME NEW r \in InPlay \ BadRows({}) PROVE HitsFor(5, r, x[r])
  <2>1. Hits(r) \in HitLists \ {<<>>}
    BY <1>1, <1>2, ReadyRows DEF BadRows, EmptyRow, NodesInv, NodesTyped
  <2>2. x[r] \in HitLists
    BY <2>1 DEF Filtering
  <2> QED BY <1>1, <2>2, ListFacts DEF HitsFor, HitLists
<1> QED BY <1>1, <1>2, HitsAfter

\* Half of the first row's hits, but one.
Half(f) == LET k == Len(Hits(f[1])) \div 2 IN IF k = 0 THEN 1 ELSE k
\* What PercentileCutoff leaves of a row and of a frame, and its step.
CutBy(r, k) == WithHits(r, Best(Hits(r), k))
CutOf(f) == [i \in DOMAIN f |-> CutBy(f[i], Half(f))]
AfterCut(f) == IF BrokenBy(f, {}) THEN <<>> ELSE CutOf(f)
CutStep ==
  /\ stage < 5 /\ stage' = 5
  /\ rows' = AfterCut(rows) /\ raised' = (raised \/ BrokenBy(rows, {}))
  /\ alone' = [c \in DOMAIN alone |-> AfterCut(alone[c])]
  /\ failed' = failed \cup {c \in DOMAIN alone : BrokenBy(alone[c], {})}

\* PercentileCutoff's step is that.
LEMMA CutSteps ==
  ASSUME Node(5, EmptyRow, PercentileCutoff)
  PROVE  CutStep
PROOF
<1>1. \A f : PercentileCutoff(f) = CutOf(f)
  BY DEF PercentileCutoff, CutOf, CutBy, Half, Mapped
<1> QED BY <1>1 DEF Node, Left, Breaks, BrokenBy, CutStep, AfterCut

\* As long as no node measured a row by the others, a row of any frame is one of the batch's.
LEMMA RowsOfBatch ==
  ASSUME NodesInv, ~raised, ~uneven, NEW f \in Frames, NEW i \in DOMAIN f
  PROVE  \E j \in DOMAIN rows : f[i] = rows[j]
PROOF
<1>1. rows = FlattenSeq(alone)
  BY DEF NodesInv, BatchingIsInvisible
<1>2. CASE f = rows
  BY <1>2
<1>3. ASSUME NEW c \in DOMAIN alone, f = alone[c] PROVE \E j \in DOMAIN rows : f[i] = rows[j]
  BY <1>1, <1>3, PlaceInEnds, FramesInPlay DEF NodesInv
<1> QED BY <1>2, <1>3 DEF Frames

\* When the rows of the batch are as long, the first row of every call says as much.
LEMMA EvenCut ==
  ASSUME NodesOk, NodesInv, Every(Retrieved), CutStep, ~raised,
         \A i, j \in DOMAIN rows : Len(Hits(rows[i])) = Len(Hits(rows[j])),
         UNCHANGED uneven
  PROVE  NodesInv'
PROOF
<1>1. stage < 5 /\ ~uneven /\ stage \in 0 .. 9
  BY DEF CutStep, NodesInv, NodesTyped, UnevenLate
<1>2. rows = FlattenSeq(alone)
  BY <1>1 DEF NodesInv, BatchingIsInvisible
<1> DEFINE k == IF rows = <<>> THEN 1 ELSE Half(rows)
           x == [r \in InPlay |-> Best(Hits(r), k)]
<1>3. IsList(rows) /\ \A i \in DOMAIN rows : rows[i] \in InPlay
  BY FramesInPlay DEF NodesInv
<1>4. k \in Nat \ {0}
  <2>1. CASE rows = <<>>
    BY <2>1
  <2>2. CASE rows # <<>>
    <3>1. DOMAIN rows = 1 .. Len(rows) /\ Len(rows) \in Nat /\ rows = [i \in 1 .. Len(rows) |-> rows[i]]
      BY <1>3, ListFacts
    <3>2. 1 \in DOMAIN rows
      <4>1. Len(rows) # 0
        BY <2>2, <3>1
      <4> QED BY <3>1, <4>1
    <3>3. Len(Hits(rows[1])) \in Nat
      BY <1>3, <3>2, ReadyRows, ListFacts
    <3> QED BY <2>2, <3>3 DEF Half
  <2> QED BY <2>1, <2>2
<1>5. ASSUME NEW f \in Frames PROVE CutOf(f) = HitsOn(f, x)
  <2>1. IsList(f) /\ \A i \in DOMAIN f : f[i] \in InPlay
    BY FrameRows DEF NodesInv
  <2>2. ASSUME NEW i \in DOMAIN f PROVE Half(f) = k
    <3>1. 1 \in DOMAIN f
      <4>1. DOMAIN f = 1 .. Len(f) /\ Len(f) \in Nat
        BY <2>1, ListFacts
      <4> QED BY <2>2, <4>1
    <3>2. \E j \in DOMAIN rows : f[1] = rows[j]
      BY <1>1, <3>1, RowsOfBatch
    <3>3. PICK j \in DOMAIN rows : f[1] = rows[j]
      BY <3>2
    <3>4. 1 \in DOMAIN rows /\ rows # <<>>
      <4>1. DOMAIN rows = 1 .. Len(rows) /\ Len(rows) \in Nat
        BY <1>3, ListFacts
      <4> QED BY <3>3, <4>1
    <3>5. Len(Hits(f[1])) = Len(Hits(rows[1]))
      BY <3>3, <3>4
    <3> QED BY <3>4, <3>5 DEF Half
  <2>3. \A i \in DOMAIN f : CutBy(f[i], Half(f)) = WithHits(f[i], x[f[i]])
    BY <2>1, <2>2 DEF CutBy
  <2> QED BY <2>3 DEF CutOf, HitsOn
<1>6. ASSUME NEW r \in InPlay \ BadRows({}) PROVE HitsFor(5, r, x[r])
  <2>1. Hits(r) \in HitLists
    BY <1>1, ReadyRows
  <2>2. Best(Hits(r), k) \in HitLists
    BY <1>4, <2>1, BestFacts
  <2> QED BY <1>1, <2>2, ListFacts DEF HitsFor, HitLists
<1> HIDE DEF x
<1>7. HitsStep(5, {}, x)
  BY <1>5 DEF CutStep, AfterCut, HitsStep, Frames
<1> QED BY <1>6, <1>7, HitsAfter

\* Each list of calls' frames by another: what is at a place is some call's at a place.
LEMMA FramesAlong ==
  ASSUME NEW a, NEW b, IsList(a), IsList(b), DOMAIN a = DOMAIN b,
         \A c \in DOMAIN a : IsList(a[c]) /\ IsList(b[c]) /\ Len(a[c]) = Len(b[c])
  PROVE  /\ Len(FlattenSeq(b)) = Len(FlattenSeq(a)) /\ IsList(FlattenSeq(a)) /\ IsList(FlattenSeq(b))
         /\ \A k \in DOMAIN FlattenSeq(a) : \E c \in DOMAIN a : \E i \in DOMAIN a[c] :
              FlattenSeq(a)[k] = a[c][i] /\ FlattenSeq(b)[k] = b[c][i]
PROOF
<1> DEFINE S == UNION {ToSet(a[i]) : i \in DOMAIN a}
           T == UNION {ToSet(b[i]) : i \in DOMAIN b}
<1>1. a \in Seq(Seq(S)) /\ b \in Seq(Seq(T))
  BY NestedLists
<1> HIDE DEF S, T
<1>2. /\ DOMAIN a = 1 .. Len(a) /\ Len(a) \in Nat /\ DOMAIN b = 1 .. Len(b) /\ Len(b) \in Nat
  BY ListFacts
<1>3. Len(a) = Len(b)
  <2>1. b = [i \in 1 .. Len(a) |-> b[i]]
    BY <1>2, ListFacts
  <2> QED BY <1>2, <2>1, ListFacts
<1>4. SameShape(a, b)
  BY <1>2, <1>3 DEF SameShape
<1>5. /\ FlattenSeq(a) \in Seq(S) /\ FlattenSeq(b) \in Seq(T)
      /\ Along(FlattenSeq(a), FlattenSeq(b), a, b)
  BY <1>1, <1>4, FlattenAlong
<1>6. \A k \in 1 .. Len(FlattenSeq(a)) : \E i \in 1 .. Len(a) : \E j \in 1 .. Len(a[i]) :
        FlattenSeq(a)[k] = a[i][j] /\ FlattenSeq(b)[k] = b[i][j]
  BY ONLY <1>5 DEF Along
<1>7. DOMAIN FlattenSeq(a) = 1 .. Len(FlattenSeq(a)) /\ \A c \in DOMAIN a : DOMAIN a[c] = 1 .. Len(a[c])
  BY <1>1, <1>5
<1>8. \A k \in DOMAIN FlattenSeq(a) : \E c \in DOMAIN a : \E i \in DOMAIN a[c] :
        FlattenSeq(a)[k] = a[c][i] /\ FlattenSeq(b)[k] = b[c][i]
  BY ONLY <1>2, <1>6, <1>7
<1>9. Len(FlattenSeq(b)) = Len(FlattenSeq(a)) /\ IsList(FlattenSeq(a)) /\ IsList(FlattenSeq(b))
  BY <1>5, ListFacts DEF Along
<1> QED BY <1>8, <1>9

\* A node that gives a row hits by the rows beside it: what it leaves of a frame, and its step.
MixedOn(f, some, hits) ==
  IF BrokenBy(f, some) THEN <<>> ELSE [i \in DOMAIN f |-> WithHits(f[i], hits[f][i])]
MixedStep(n, some, hits) ==
  /\ stage < n /\ stage' = n
  /\ rows' = MixedOn(rows, some, hits) /\ raised' = (raised \/ BrokenBy(rows, some))
  /\ alone' = [c \in DOMAIN alone |-> MixedOn(alone[c], some, hits)]
  /\ failed' = failed \cup {c \in DOMAIN alone : BrokenBy(alone[c], some)}
\* The hits it gives.
GoodMix(n, some, hits) ==
  \A f \in Frames : ~BrokenBy(f, some) =>
    \A i \in DOMAIN f : IsList(hits[f][i]) /\ (n < 7 => hits[f][i] \in HitLists \ {<<>>})

\* The frame that it leaves.
LEMMA MixedFrame ==
  ASSUME NodesOk, NodesInv, NEW n \in 5 .. 7, stage < n, NEW some, NEW hits,
         GoodMix(n, some, hits), NEW f \in Frames
  PROVE  /\ FrameOk(n, MixedOn(f, some, hits))
         /\ BrokenBy(f, some) <=> Meets(f, BadRows(some))
         /\ ~BrokenBy(f, some) =>
              /\ DOMAIN MixedOn(f, some, hits) = DOMAIN f /\ Len(MixedOn(f, some, hits)) = Len(f)
              /\ \A i \in DOMAIN f : /\ MixedOn(f, some, hits)[i].query = f[i].query
                                     /\ Lasting(n, MixedOn(f, some, hits)[i])
PROOF
<1>1. IsList(f) /\ \A i \in DOMAIN f : f[i] \in InPlay
  BY FrameRows DEF NodesInv
<1>2. BrokenBy(f, some) <=> Meets(f, BadRows(some))
  BY <1>1 DEF BrokenBy, Meets, BadRows
<1>3. CASE BrokenBy(f, some)
  BY <1>2, <1>3 DEF MixedOn, FrameOk, IsList
<1>4. CASE ~BrokenBy(f, some)
  <2>1. PICK g : g = [i \in DOMAIN f |-> WithHits(f[i], hits[f][i])] /\ MixedOn(f, some, hits) = g
    BY <1>4 DEF MixedOn
  <2>2. g = [i \in 1 .. Len(f) |-> g[i]] /\ Len(f) \in Nat /\ DOMAIN f = 1 .. Len(f)
    BY <1>1, <2>1, ListFacts
  <2>3. IsList(g) /\ Len(g) = Len(f) /\ DOMAIN g = DOMAIN f
    BY <2>2, ListFacts
  <2>4. ASSUME NEW i \in DOMAIN f
        PROVE  RowOk(n, g[i]) /\ g[i].query = f[i].query /\ Lasting(n, g[i])
    <3>1. PICK r : r = f[i] /\ RowOk(stage, r)
      BY <1>1, FramesInPlay DEF NodesInv
    <3>2. PICK x : x = hits[f][i] /\ IsList(x) /\ (n < 7 => x \in HitLists \ {<<>>})
      BY <1>4 DEF GoodMix
    <3>3. PICK m \in 0 .. 9 : m = stage
      BY DEF NodesInv, NodesTyped
    <3>4. m < n /\ n \in 1 .. 7 /\ RowOk(m, r)
      BY <3>1, <3>3
    <3>5. /\ RowOk(n, WithHits(r, x)) /\ WithHits(r, x).query = r.query
          /\ IsList(Hits(WithHits(r, x))) /\ (n < 7 => Hits(WithHits(r, x)) = x)
      BY ONLY NodesOk, m \in 0 .. 9, <3>2, <3>4, NewHits
    <3>6. g[i] = WithHits(r, x)
      BY <2>1, <3>1, <3>2
    <3> QED BY <3>1, <3>2, <3>5, <3>6 DEF Lasting
  <2> QED BY <1>2, <1>4, <2>1, <2>3, <2>4 DEF FrameOk
<1> QED BY <1>3, <1>4

\* When it may have, or a node has raised on the batch before, it keeps the invariant: the
\* rows are other ones, but as many, of the same queries, and later nodes raise on them alike.
LEMMA MixedAfter ==
  ASSUME NodesOk, NodesInv, NEW n \in 5 .. 7, NEW some, NEW hits, MixedStep(n, some, hits),
         GoodMix(n, some, hits), raised \/ uneven', uneven' \in BOOLEAN
  PROVE  NodesInv'
PROOF
<1>1. stage < n /\ stage < 7 /\ stage' = n /\ n \in 0 .. 9
  BY DEF MixedStep, NodesInv, NodesTyped
<1>2. /\ IsList(alone) /\ \A c \in DOMAIN alone : IsList(alone[c]) /\ alone[c] \in Frames
      /\ rows \in Frames /\ IsList(rows)
  BY FramesInPlay DEF Frames, NodesInv
<1>3. /\ DOMAIN alone' = DOMAIN alone
      /\ \A c \in DOMAIN alone : alone'[c] = MixedOn(alone[c], some, hits)
      /\ IsList(alone')
  <2>1. /\ DOMAIN alone' = DOMAIN alone
        /\ \A c \in DOMAIN alone : alone'[c] = MixedOn(alone[c], some, hits)
    BY DEF MixedStep
  <2>2. alone' = [c \in 1 .. Len(alone) |-> alone'[c]] /\ Len(alone) \in Nat
    BY <1>2, ListFacts DEF MixedStep
  <2> QED BY <2>1, <2>2, ListFacts
<1>4. FrameOk(n, rows') /\ \A c \in DOMAIN alone : FrameOk(n, alone'[c])
  BY <1>1, <1>2, <1>3, MixedFrame DEF MixedStep
<1>5. failed' \subseteq DOMAIN alone' /\ raised' \in BOOLEAN
  BY <1>3 DEF MixedStep, NodesInv, NodesTyped
<1>6. NodesTyped'
  BY <1>1, <1>3, <1>4, <1>5 DEF NodesTyped
<1>7. SameFate(BadRows(some))
  BY <1>1, SameEmpty
<1>8. (raised <=> failed # {})'
  <2>1. ~raised => (BrokenBy(rows, some) <=> \E c \in DOMAIN alone : BrokenBy(alone[c], some))
    <3>1. /\ BrokenBy(rows, some) <=> Meets(rows, BadRows(some))
          /\ \A c \in DOMAIN alone : BrokenBy(alone[c], some) <=> Meets(alone[c], BadRows(some))
      BY <1>1, <1>2, MixedFrame
    <3>2. ~raised => (Meets(rows, BadRows(some))
                        <=> \E c \in DOMAIN alone : Meets(alone[c], BadRows(some)))
      BY <1>7, FailTogether
    <3> QED BY <3>1, <3>2
  <2> QED BY <2>1 DEF MixedStep, NodesInv, BatchingIsInvisible
<1>9. ASSUME raised' PROVE rows' = <<>>
  <2>1. CASE BrokenBy(rows, some)
    BY <2>1 DEF MixedStep, MixedOn
  <2>2. CASE ~BrokenBy(rows, some)
    <3>1. rows = <<>>
      BY <1>9, <2>2 DEF MixedStep, NodesInv, NoneLeft
    <3>2. [i \in DOMAIN <<>> |-> WithHits(<<>>[i], hits[<<>>][i])] = <<>>
      OBVIOUS
    <3> QED BY <2>2, <3>1, <3>2 DEF MixedStep, MixedOn
  <2> QED BY <2>1, <2>2
<1>10. ASSUME ~raised' PROVE uneven' /\ Alike(n, rows', FlattenSeq(alone'))
  <2>1. ~raised /\ uneven' /\ ~BrokenBy(rows, some)
    BY <1>10 DEF MixedStep
  <2>2. \A c \in DOMAIN alone : ~BrokenBy(alone[c], some)
    BY <1>8, <1>10 DEF MixedStep
  <2>3. /\ DOMAIN rows' = DOMAIN rows /\ Len(rows') = Len(rows)
        /\ \A k \in DOMAIN rows : rows'[k].query = rows[k].query /\ Lasting(n, rows'[k])
    BY <1>1, <1>2, <2>1, MixedFrame DEF MixedStep
  <2>4. \A c \in DOMAIN alone :
          /\ IsList(alone'[c]) /\ Len(alone'[c]) = Len(alone[c])
          /\ \A i \in DOMAIN alone[c] : alone'[c][i].query = alone[c][i].query /\ Lasting(n, alone'[c][i])
    BY <1>1, <1>2, <1>3, <1>4, <2>2, MixedFrame DEF FrameOk
  <2>5. /\ Len(FlattenSeq(alone')) = Len(FlattenSeq(alone)) /\ IsList(FlattenSeq(alone))
        /\ \A k \in DOMAIN FlattenSeq(alone) : \E c \in DOMAIN alone : \E i \in DOMAIN alone[c] :
             FlattenSeq(alone)[k] = alone[c][i] /\ FlattenSeq(alone')[k] = alone'[c][i]
    <3> DEFINE b == alone'
    <3>1. /\ IsList(alone) /\ IsList(b) /\ DOMAIN alone = DOMAIN b
          /\ \A c \in DOMAIN alone : IsList(alone[c]) /\ IsList(b[c]) /\ Len(alone[c]) = Len(b[c])
      BY <1>2, <1>3, <2>4
    <3> HIDE DEF b
    <3>2. /\ Len(FlattenSeq(b)) = Len(FlattenSeq(alone)) /\ IsList(FlattenSeq(alone))
          /\ \A k \in DOMAIN FlattenSeq(alone) : \E c \in DOMAIN alone : \E i \in DOMAIN alone[c] :
               FlattenSeq(alone)[k] = alone[c][i] /\ FlattenSeq(b)[k] = b[c][i]
      BY ONLY <3>1, FramesAlong
    <3> QED BY <3>2 DEF b
  <2>6. /\ Len(rows) = Len(FlattenSeq(alone)) /\ DOMAIN rows = DOMAIN FlattenSeq(alone)
        /\ \A k \in DOMAIN rows : rows[k].query = FlattenSeq(alone)[k].query
    <3>1. CASE uneven
      <4>1. Alike(stage, rows, FlattenSeq(alone))
        BY <2>1, <3>1 DEF NodesInv, AlikeWhenUneven
      <4>2. Len(rows) = Len(FlattenSeq(alone)) /\ \A k \in DOMAIN rows : rows[k].query = FlattenSeq(alone)[k].query
        BY <4>1 DEF Alike
      <4>3. DOMAIN rows = 1 .. Len(rows) /\ DOMAIN FlattenSeq(alone) = 1 .. Len(FlattenSeq(alone))
        BY <1>2, <2>5, ListFacts
      <4> QED BY <4>2, <4>3
    <3>2. CASE ~uneven
      BY <2>1, <3>2 DEF NodesInv, BatchingIsInvisible
    <3> QED BY <3>1, <3>2
  <2>7. ASSUME NEW k \in DOMAIN rows
        PROVE  FlattenSeq(alone')[k].query = rows[k].query /\ Lasting(n, FlattenSeq(alone')[k])
    <3>1. PICK c \in DOMAIN alone : \E i \in DOMAIN alone[c] :
            FlattenSeq(alone)[k] = alone[c][i] /\ FlattenSeq(alone')[k] = alone'[c][i]
      BY <2>5, <2>6
    <3>2. PICK i \in DOMAIN alone[c] :
            FlattenSeq(alone)[k] = alone[c][i] /\ FlattenSeq(alone')[k] = alone'[c][i]
      BY <3>1
    <3>3. alone'[c][i].query = alone[c][i].query /\ Lasting(n, alone'[c][i])
      BY <2>4
    <3> QED BY <2>6, <3>2, <3>3
  <2> QED BY <2>1, <2>3, <2>5, <2>6, <2>7 DEF Alike
<1> QED BY <1>1, <1>6, <1>8, <1>9, <1>10
        DEF NodesInv, UnevenLate, NoneLeft, AlikeWhenUneven, BatchingIsInvisible

\* PercentileCutoff on rows of different lengths is such a node.
LEMMA OtherCut ==
  ASSUME NodesOk, NodesInv, Every(Retrieved), CutStep, raised \/ uneven', uneven' \in BOOLEAN
  PROVE  NodesInv'
PROOF
<1> DEFINE hits == [f \in Frames |-> [i \in DOMAIN f |-> Best(Hits(f[i]), Half(f))]]
<1>1. stage < 5 /\ stage < 7 /\ 5 \in 5 .. 7
  BY DEF CutStep, NodesInv, NodesTyped
<1>2. \A f \in Frames : AfterCut(f) = MixedOn(f, {}, hits)
  BY DEF AfterCut, CutOf, CutBy, MixedOn
<1>3. GoodMix(5, {}, hits)
  <2>1. ASSUME NEW f \in Frames, ~BrokenBy(f, {}), NEW i \in DOMAIN f
        PROVE  /\ IsList(Best(Hits(f[i]), Half(f)))
               /\ Best(Hits(f[i]), Half(f)) \in HitLists \ {<<>>}
    <3>1. IsList(f) /\ \A j \in DOMAIN f : f[j] \in InPlay
      BY FrameRows DEF NodesInv
    <3>2. 1 \in DOMAIN f
      <4>1. DOMAIN f = 1 .. Len(f) /\ Len(f) \in Nat
        BY <3>1, ListFacts
      <4> QED BY <2>1, <4>1
    <3>3. Len(Hits(f[1])) \in Nat
      BY <3>1, <3>2, ReadyRows, ListFacts
    <3>4. Half(f) \in Nat \ {0}
      BY <3>3 DEF Half
    <3>5. Hits(f[i]) \in HitLists /\ Hits(f[i]) # <<>>
      BY <1>1, <2>1, <3>1, ReadyRows DEF BrokenBy, EmptyRow
    <3>6. Best(Hits(f[i]), Half(f)) \in HitLists \ {<<>>}
      BY <3>4, <3>5, BestFacts
    <3> QED BY <3>6, ListFacts DEF HitLists
  <2> QED BY <2>1 DEF GoodMix
<1> HIDE DEF hits
<1>4. MixedStep(5, {}, hits)
  BY <1>2 DEF CutStep, MixedStep, Frames
<1> QED BY <1>1, <1>3, <1>4, MixedAfter

\* The filter, of whichever module, keeps the invariant.
LEMMA FilterSafe ==
  ASSUME NodesOk, NodesInv, PassageFilter
  PROVE  NodesInv'
PROOF
<1>1. Every(Retrieved)
  BY DEF PassageFilter
<1>2. CASE /\ Unmarked
           /\ \/ Node(5, EmptyRow, LAMBDA f : RowByRow(f, LAMBDA r : ThresholdCutoff(r, 3)))
              \/ Node(5, EmptyRow, LAMBDA f : SimilarityThreshold(f, 2))
              \/ Node(5, EmptyRow, LAMBDA f : RowByRow(f, LAMBDA r : RecencyFilter(r, 3)))
  BY <1>1, <1>2, FilterSteps, FilteringSafe DEF Unmarked
<1>4. CASE Node(5, EmptyRow, SimilarityPercentile) /\ swapped' = TRUE /\ UNCHANGED uneven
  BY <1>1, <1>4, FilterSteps, FilteringSafe
<1>3. CASE /\ Node(5, EmptyRow, PercentileCutoff) /\ UNCHANGED swapped
           /\ uneven' = (\E i, j \in DOMAIN rows : Len(Hits(rows[i])) # Len(Hits(rows[j])))
  <2>1. CutStep
    BY <1>3, CutSteps
  <2>2. ~uneven
    BY <2>1 DEF CutStep, NodesInv, NodesTyped, UnevenLate
  <2>3. CASE raised \/ uneven'
    BY <1>1, <1>3, <2>1, <2>3, OtherCut
  <2>4. CASE ~raised /\ ~uneven'
    <3>1. \A i, j \in DOMAIN rows : Len(Hits(rows[i])) = Len(Hits(rows[j]))
      BY <1>3, <2>4
    <3>2. UNCHANGED uneven
      BY <1>3, <2>2, <2>4 DEF NodesInv, NodesTyped
    <3> QED BY <1>1, <2>1, <2>4, <3>1, <3>2, EvenCut
  <2> QED BY <2>3, <2>4
<1> QED BY <1>2, <1>3, <1>4 DEF PassageFilter

\* A reranker that scores a frame's rows by the rows beside them: what it leaves, and its step.
FrameStep(some, new) ==
  /\ stage < 7 /\ stage' = 7
  /\ rows' = (IF BrokenBy(rows, some) THEN <<>> ELSE new[rows])
  /\ raised' = (raised \/ BrokenBy(rows, some))
  /\ alone' = [c \in DOMAIN alone |-> IF BrokenBy(alone[c], some) THEN <<>> ELSE new[alone[c]]]
  /\ failed' = failed \cup {c \in DOMAIN alone : BrokenBy(alone[c], some)}

\* When the scores may have been other ones, it keeps the invariant.
LEMMA OtherScores ==
  ASSUME NodesOk, NodesInv, Every(Retrieved), NEW some, NEW new, FrameStep(some, new),
         \A f \in Frames : \E scores : new[f] = Ranked(f, scores),
         raised \/ uneven', uneven' \in BOOLEAN
  PROVE  NodesInv'
PROOF
<1> DEFINE scores == [f \in Frames |-> CHOOSE s : new[f] = Ranked(f, s)]
           hits == [f \in Frames |->
                      [i \in DOMAIN f |-> Best(WithScores(Hits(f[i]), scores[f][i]), TopK)]]
<1>1. stage < 7 /\ 7 \in 5 .. 7
  BY DEF FrameStep
<1>2. ASSUME NEW f \in Frames
      PROVE  (IF BrokenBy(f, some) THEN <<>> ELSE new[f]) = MixedOn(f, some, hits)
  <2>1. PICK s : s = scores[f] /\ new[f] = Ranked(f, s)
    OBVIOUS
  <2>2. hits[f] = [i \in DOMAIN f |-> Best(WithScores(Hits(f[i]), s[i]), TopK)]
    BY <2>1
  <2> HIDE DEF hits, scores
  <2>3. Ranked(f, s) = [i \in DOMAIN f |-> WithHits(f[i], hits[f][i])]
    BY <2>2 DEF Ranked, BestOfRows
  <2> QED BY <2>1, <2>3 DEF MixedOn
<1>3. GoodMix(7, some, hits)
  <2>1. ASSUME NEW f \in Frames, NEW i \in DOMAIN f, NEW s
        PROVE  IsList(Best(WithScores(Hits(f[i]), s), TopK))
    <3>1. IsList(Hits(f[i]))
      BY FramesReady DEF HitsReady
    <3>2. TopK \in Nat \ {0}
      BY DEF NodesOk
    <3> QED BY <3>1, <3>2, RankedLists
  <2>2. \A f \in Frames : \A i \in DOMAIN f : IsList(hits[f][i])
    BY <2>1
  <2> HIDE DEF hits
  <2> QED BY <2>2 DEF GoodMix
<1> HIDE DEF hits, scores
<1>4. MixedStep(7, some, hits)
  BY <1>2 DEF FrameStep, MixedStep, Frames
<1> QED BY <1>1, <1>3, <1>4, MixedAfter

\* So it does when they are each row's own.
LEMMA OwnScores ==
  ASSUME NodesOk, NodesInv, Every(Retrieved), NEW some, NEW new, FrameStep(some, new),
         NEW x, \A r \in InPlay : IsList(x[r]),
         \A f \in Frames : ~BrokenBy(f, some) => new[f] = HitsOn(f, x), UNCHANGED uneven
  PROVE  NodesInv'
PROOF
<1>1. HitsStep(7, some, x)
  BY DEF FrameStep, HitsStep, Frames
<1>2. \A r \in InPlay \ BadRows(some) : HitsFor(7, r, x[r])
  BY DEF HitsFor
<1> QED BY <1>1, <1>2, HitsAfter

\* A row's pairs are among its frame's.
LEMMA PairsIn ==
  ASSUME NEW f, HitsReady(f), NEW i \in DOMAIN f, NEW j \in DOMAIN Hits(f[i])
  PROVE  <<f[i].query, TextOf(Hits(f[i])[j].id)>> \in ToSet(Flat(f))
PROOF
<1>1. PICK P : \E pp \in Seq(Seq(P)) : pp = [k \in DOMAIN f |-> PairsOf(f[k])] /\ Flat(f) = FlattenSeq(pp)
  BY PairLists
<1>2. PICK pp \in Seq(Seq(P)) : pp = [k \in DOMAIN f |-> PairsOf(f[k])] /\ Flat(f) = FlattenSeq(pp)
  BY <1>1
<1>3. IsList(pp) /\ \A c \in DOMAIN pp : IsList(pp[c])
  <2>1. \A c \in DOMAIN pp : pp[c] \in Seq(P)
    OBVIOUS
  <2> QED BY <2>1, ListFacts
<1>4. i \in DOMAIN pp /\ j \in DOMAIN pp[i] /\ pp[i][j] = <<f[i].query, TextOf(Hits(f[i])[j].id)>>
  BY <1>2 DEF PairsOf
<1>5. \E k \in DOMAIN FlattenSeq(pp) : pp[i][j] = FlattenSeq(pp)[k]
  BY ONLY <1>3, <1>4, PlaceInEnds
<1> QED BY <1>2, <1>4, <1>5 DEF ToSet

\* A measure is the same for all the batch's pairs, and for those of all frames.
Agree(measure) == \A p, q \in ToSet(Flat(rows)) \cap (Asked \X PassageTexts) : measure[p] = measure[q]
Throughout(measure, v) ==
  \A f \in Frames : \A i \in DOMAIN f : \A j \in DOMAIN Hits(f[i]) :
    /\ f[i].query \in Asked /\ TextOf(Hits(f[i])[j].id) \in PassageTexts
    /\ measure[<<f[i].query, TextOf(Hits(f[i])[j].id)>>] = v

\* It is when it is, as long as no node measured a row by the others.
LEMMA EvenPairs ==
  ASSUME NodesOk, NodesInv, Every(Retrieved), stage < 7, ~raised, ~uneven,
         NEW V, V # {}, NEW measure \in [Asked \X PassageTexts -> V], Agree(measure)
  PROVE  \E v \in V : Throughout(measure, v)
PROOF
<1>1. ASSUME NEW r \in InPlay, NEW j \in DOMAIN Hits(r)
      PROVE  r.query \in Asked /\ TextOf(Hits(r)[j].id) \in PassageTexts
  <2>1. r.query \in Asked
    BY FramesInPlay DEF RowOk, NodesInv
  <2>2. Hits(r) \in Seq(Passages)
    BY ReadyRows DEF HitLists
  <2>3. Hits(r)[j] \in Passages
    BY <2>2
  <2> QED BY <2>1, <2>3, TextFacts DEF Passages
<1>2. rows \in Frames /\ HitsReady(rows)
  BY FramesReady DEF Frames
<1>3. \A f \in Frames : \A i \in DOMAIN f : f[i] \in InPlay /\ \E k \in DOMAIN rows : f[i] = rows[k]
  BY FramesReady, RowsOfBatch
<1>4. CASE \A k \in DOMAIN rows : DOMAIN Hits(rows[k]) = {}
  <2>1. \A f \in Frames : \A i \in DOMAIN f : DOMAIN Hits(f[i]) = {}
    BY <1>3, <1>4
  <2> QED BY <2>1 DEF Throughout
<1>5. CASE \E k \in DOMAIN rows : DOMAIN Hits(rows[k]) # {}
  <2>1. PICK k \in DOMAIN rows : DOMAIN Hits(rows[k]) # {}
    BY <1>5
  <2>2. PICK l \in DOMAIN Hits(rows[k]) : TRUE
    BY <2>1
  <2>3. PICK p : p = <<rows[k].query, TextOf(Hits(rows[k])[l].id)>>
    OBVIOUS
  <2>4. p \in ToSet(Flat(rows)) /\ p \in Asked \X PassageTexts
    <3>1. rows[k] \in InPlay
      BY <1>2, <1>3
    <3> QED BY <1>1, <1>2, <2>2, <2>3, <3>1, PairsIn
  <2>5. ASSUME NEW f \in Frames, NEW i \in DOMAIN f, NEW j \in DOMAIN Hits(f[i])
        PROVE  /\ f[i].query \in Asked /\ TextOf(Hits(f[i])[j].id) \in PassageTexts
               /\ measure[<<f[i].query, TextOf(Hits(f[i])[j].id)>>] = measure[p]
    <3>1. PICK h \in DOMAIN rows : f[i] = rows[h]
      BY <1>3
    <3>2. <<rows[h].query, TextOf(Hits(rows[h])[j].id)>> \in ToSet(Flat(rows))
      BY <1>2, <3>1, PairsIn
    <3>3. <<rows[h].query, TextOf(Hits(rows[h])[j].id)>> \in Asked \X PassageTexts
      BY <1>1, <1>3, <3>1
    <3>4. measure[<<rows[h].query, TextOf(Hits(rows[h])[j].id)>>] = measure[p]
      BY <2>4, <3>2, <3>3 DEF Agree
    <3> QED BY <1>1, <1>3, <3>1, <3>4
  <2>6. measure[p] \in V
    BY <2>4
  <2> QED BY <2>5, <2>6 DEF Throughout
<1> QED BY <1>4, <1>5

\* A frame that it did not raise on has a hit in every row.
LEMMA UnbrokenRows ==
  ASSUME NodesOk, NodesInv, Every(Retrieved), NEW f \in Frames, NEW some, ~BrokenBy(f, some)
  PROVE  \A i \in DOMAIN f : /\ f[i] \in InPlay /\ IsList(Hits(f[i])) /\ 1 \in DOMAIN Hits(f[i])
                             /\ f[i].query \notin some /\ f[i].query \in Asked
PROOF
<1> TAKE i \in DOMAIN f
<1>1. f[i] \in InPlay /\ IsList(Hits(f[i])) /\ f[i].query \in Asked
  BY FramesReady, FramesInPlay DEF HitsReady, NodesInv, RowOk
<1>2. Hits(f[i]) # <<>> /\ f[i].query \notin some
  BY DEF BrokenBy, EmptyRow
<1>3. 1 \in DOMAIN Hits(f[i])
  <2>1. PICK s : s = Hits(f[i])
    OBVIOUS
  <2>2. DOMAIN s = 1 .. Len(s) /\ Len(s) \in Nat /\ s = [k \in 1 .. Len(s) |-> s[k]] /\ s # <<>>
    BY <1>1, <1>2, <2>1, ListFacts
  <2>3. Len(s) # 0
    BY ONLY <2>2
  <2> QED BY <2>1, <2>2, <2>3
<1> QED BY <1>1, <1>2, <1>3

\* When all queries, and all texts, of the batch are as long, colbert's scores are each row's own.
LEMMA EvenColbert ==
  ASSUME NodesOk, NodesInv, Every(Retrieved), stage < 7, ~raised, ~uneven, ~UnevenTokens(rows)
  PROVE  \E x : /\ \A r \in InPlay : IsList(x[r])
                /\ \A f \in Frames : ~BrokenBy(f, {}) => Colbert(f) = HitsOn(f, x)
PROOF
<1> DEFINE measure == [p \in Asked \X PassageTexts |-> <<Tokens[p[1]], Tokens[p[2]]>>]
           V == Nat \X Nat
<1>1. measure \in [Asked \X PassageTexts -> V] /\ V # {}
  <2>1. \A p \in Asked \X PassageTexts : Tokens[p[1]] \in Nat /\ Tokens[p[2]] \in Nat
    BY DEF NodesOk
  <2>2. <<0, 0>> \in V
    OBVIOUS
  <2> QED BY <2>1, <2>2
<1>2. Agree(measure)
  <2>1. \A p, q \in ToSet(Flat(rows)) : Tokens[p[1]] = Tokens[q[1]] /\ Tokens[p[2]] = Tokens[q[2]]
    BY DEF UnevenTokens
  <2> QED BY <2>1 DEF Agree
<1>3. PICK v \in V : Throughout(measure, v)
  <2> HIDE DEF measure, V
  <2> QED BY ONLY NodesOk, NodesInv, Every(Retrieved), stage < 7, ~raised, ~uneven, <1>1, <1>2, EvenPairs
<1>4. PICK m \in Nat, n \in Nat : v = <<m, n>>
  OBVIOUS
<1>5. \A f \in Frames : \A i \in DOMAIN f : \A j \in DOMAIN Hits(f[i]) :
        Tokens[f[i].query] = m /\ Tokens[TextOf(Hits(f[i])[j].id)] = n
  BY <1>3, <1>4 DEF Throughout
<1> HIDE DEF measure, V
<1> DEFINE x == [r \in InPlay |-> Best(WithScores(Hits(r), LateIn(r, m, n)), TopK)]
<1>6. \A r \in InPlay : IsList(x[r])
  BY ReadyRows, RankedLists DEF NodesOk
<1>7. ASSUME NEW f \in Frames, ~BrokenBy(f, {}) PROVE Colbert(f) = HitsOn(f, x)
  <2>1. \A i \in DOMAIN f : f[i] \in InPlay /\ IsList(Hits(f[i])) /\ 1 \in DOMAIN Hits(f[i])
    BY <1>7, UnbrokenRows
  <2>2. IsList(f) /\ \A i \in DOMAIN f : f[i].texts = NoHits
    BY FrameRows, FramesInPlay DEF NodesInv, NodesTyped, RowOk
  <2>3. Colbert(f) = Ranked(f, [i \in DOMAIN f |-> LateIn(f[i], m, n)])
    <3> HIDE DEF x
    <3> QED BY <1>5, <2>1, <2>2, ColbertByRow
  <2>4. Ranked(f, [i \in DOMAIN f |-> LateIn(f[i], m, n)]) = HitsOn(f, x)
    BY <2>1 DEF Ranked, BestOfRows, HitsOn
  <2> QED BY <2>3, <2>4
<1> QED BY <1>6, <1>7

\* When they all take as many steps, monot5's are.
LEMMA EvenMonoT5 ==
  ASSUME NodesOk, NodesInv, Every(Retrieved), stage < 7, ~raised, ~uneven, ~UnevenSteps(rows),
         NEW fits \in 0 .. Chunk, NEW some, fits = 0 => some = Asked
  PROVE  \E x : /\ \A r \in InPlay : IsList(x[r])
                /\ \A f \in Frames : ~BrokenBy(f, some) => MonoT5(f, fits) = HitsOn(f, x)
PROOF
<1> DEFINE measure == [p \in Asked \X PassageTexts |-> AnswerSteps[p[1]][p[2]]]
<1>1. measure \in [Asked \X PassageTexts -> Nat] /\ Nat # {}
  <2>1. \A p \in Asked \X PassageTexts : AnswerSteps[p[1]][p[2]] \in Nat
    BY DEF NodesOk
  <2> QED BY <2>1
<1>2. Agree(measure)
  <2>1. \A p, q \in ToSet(Flat(rows)) : AnswerSteps[p[1]][p[2]] = AnswerSteps[q[1]][q[2]]
    BY DEF UnevenSteps
  <2> QED BY <2>1 DEF Agree
<1>3. PICK n \in Nat : Throughout(measure, n)
  <2> HIDE DEF measure
  <2> QED BY ONLY NodesOk, NodesInv, Every(Retrieved), stage < 7, ~raised, ~uneven, <1>1, <1>2, EvenPairs
<1>4. \A f \in Frames : \A i \in DOMAIN f : \A j \in DOMAIN Hits(f[i]) :
        AnswerSteps[f[i].query][TextOf(Hits(f[i])[j].id)] = n
  BY <1>3 DEF Throughout
<1> HIDE DEF measure
<1> DEFINE x == [r \in InPlay |-> Best(WithScores(Hits(r), StepIn(r, n)), TopK)]
<1>5. \A r \in InPlay : IsList(x[r])
  BY ReadyRows, RankedLists DEF NodesOk
<1>6. ASSUME NEW f \in Frames, ~BrokenBy(f, some) PROVE MonoT5(f, fits) = HitsOn(f, x)
  <2>1. \A i \in DOMAIN f : f[i] \in InPlay /\ f[i].query \notin some /\ f[i].query \in Asked
    BY <1>6, UnbrokenRows
  <2>2. CASE fits = 0
    <3>1. DOMAIN f = {}
      BY <2>1, <2>2
    <3>2. \A scores : Ranked(f, scores) = HitsOn(f, x)
      BY <3>1 DEF Ranked, BestOfRows, HitsOn
    <3> HIDE DEF x
    <3> QED BY <3>2 DEF MonoT5
  <2>3. CASE fits # 0
    <3>1. HitsReady(f) /\ fits \in 1 .. Chunk
      BY <2>3, FramesReady DEF NodesOk
    <3>2. Regrouped(FlattenSeq(Mapped(LAMBDA s : MicroBatches(s, fits), OnReplicas(Flat(f)))),
                    Lengths(f)) = [i \in DOMAIN f |-> StepIn(f[i], n)]
      <4> HIDE DEF x
      <4> QED BY <1>4, <3>1, MonoT5ByRow
    <3>3. MonoT5(f, fits) = Ranked(f, [i \in DOMAIN f |-> StepIn(f[i], n)])
      BY ONLY <3>2 DEF MonoT5, Mapped
    <3>4. Ranked(f, [i \in DOMAIN f |-> StepIn(f[i], n)]) = HitsOn(f, x)
      BY <2>1 DEF Ranked, BestOfRows, HitsOn
    <3> QED BY <3>3, <3>4
  <2> QED BY <2>2, <2>3
<1> QED BY <1>5, <1>6

\* colbert and monot5 keep the invariant, whatever they measure and whatever fits.
LEMMA BatchedRerankerSafe ==
  ASSUME NodesOk, NodesInv, BatchedReranker
  PROVE  NodesInv'
PROOF
<1>1. Every(Retrieved) /\ stage < 7 /\ uneven \in BOOLEAN
  BY DEF BatchedReranker, Node, NodesInv, NodesTyped
<1>2. ASSUME Node(7, EmptyRow, Colbert), uneven' = (uneven \/ UnevenTokens(rows)) PROVE NodesInv'
  <2> DEFINE new == [f \in Frames |-> Colbert(f)]
  <2>1. \A f \in Frames : \E scores : new[f] = Ranked(f, scores)
    <3>1. \A f : \E scores : Colbert(f) = Ranked(f, scores)
      BY DEF Colbert
    <3> QED BY <3>1
  <2>2. \A f \in Frames : new[f] = Colbert(f)
    OBVIOUS
  <2> HIDE DEF new
  <2>3. FrameStep({}, new)
    BY <1>2, <2>2 DEF Node, Left, Breaks, BrokenBy, FrameStep, Frames
  <2>4. CASE raised \/ uneven'
    <3>1. uneven' \in BOOLEAN
      BY <1>1, <1>2 DEF UnevenTokens
    <3> QED BY <1>1, <2>1, <2>3, <2>4, <3>1, OtherScores
  <2>5. CASE ~raised /\ ~uneven'
    <3>1. ~uneven /\ ~UnevenTokens(rows) /\ UNCHANGED uneven
      BY <1>1, <1>2, <2>5
    <3>2. PICK x : /\ \A r \in InPlay : IsList(x[r])
                   /\ \A f \in Frames : ~BrokenBy(f, {}) => Colbert(f) = HitsOn(f, x)
      BY <1>1, <2>5, <3>1, EvenColbert
    <3> QED BY <1>1, <2>2, <2>3, <3>1, <3>2, OwnScores
  <2> QED BY <2>4, <2>5
<1>3. ASSUME NEW fits \in 0 .. Chunk, uneven' = (uneven \/ UnevenSteps(rows)),
             Node(7, LAMBDA r : EmptyRow(r) \/ fits = 0, LAMBDA f : MonoT5(f, fits))
      PROVE  NodesInv'
  <2> DEFINE new == [f \in Frames |-> MonoT5(f, fits)]
  <2>1. \A f \in Frames : \E scores : new[f] = Ranked(f, scores)
    <3>1. \A f : \E scores : MonoT5(f, fits) = Ranked(f, scores)
      BY DEF MonoT5
    <3> QED BY <3>1
  <2>2. \A f \in Frames : new[f] = MonoT5(f, fits)
    OBVIOUS
  <2> HIDE DEF new
  <2>3. PICK some : some = IF fits = 0 THEN Asked ELSE {}
    OBVIOUS
  <2>4. \A f \in Frames : (\E i \in DOMAIN f : EmptyRow(f[i]) \/ fits = 0) <=> BrokenBy(f, some)
    <3>1. \A f \in Frames : \A i \in DOMAIN f : f[i].query \in Asked
      BY FrameRows, FramesInPlay DEF NodesInv, RowOk
    <3> QED BY <2>3, <3>1 DEF BrokenBy
  <2>5. FrameStep(some, new)
    BY <1>3, <2>2, <2>4 DEF Node, Left, Breaks, FrameStep, Frames
  <2>6. CASE raised \/ uneven'
    <3>1. uneven' \in BOOLEAN
      BY <1>1, <1>3 DEF UnevenSteps
    <3> QED BY <1>1, <2>1, <2>5, <2>6, <3>1, OtherScores
  <2>7. CASE ~raised /\ ~uneven'
    <3>1. ~uneven /\ ~UnevenSteps(rows) /\ UNCHANGED uneven
      BY <1>1, <1>3, <2>7
    <3>2. PICK x : /\ \A r \in InPlay : IsList(x[r])
                   /\ \A f \in Frames : ~BrokenBy(f, some) => MonoT5(f, fits) = HitsOn(f, x)
      BY <1>1, <2>3, <2>7, <3>1, EvenMonoT5
    <3> QED BY <1>1, <2>2, <2>5, <3>1, <3>2, OwnScores
  <2> QED BY <2>6, <2>7
<1>4. CASE Node(7, EmptyRow, Colbert) /\ uneven' = (uneven \/ UnevenTokens(rows))
  BY <1>2, <1>4
<1>5. CASE /\ \E fits \in 0 .. Chunk :
                Node(7, LAMBDA r : EmptyRow(r) \/ fits = 0, LAMBDA f : MonoT5(f, fits))
           /\ uneven' = (uneven \/ UnevenSteps(rows))
  <2>1. PICK fits \in 0 .. Chunk :
          Node(7, LAMBDA r : EmptyRow(r) \/ fits = 0, LAMBDA f : MonoT5(f, fits))
    BY <1>5
  <2> QED BY <1>3, <1>5, <2>1
<1> QED BY <1>4, <1>5 DEF BatchedReranker

\* A node that raises on no row.
PlainStep(n, g) ==
  /\ stage < n /\ stage' = n
  /\ rows' = Each(g, rows) /\ raised' = raised
  /\ alone' = [c \in DOMAIN alone |-> Each(g, alone[c])] /\ failed' = failed

\* When it takes each row by itself and leaves good ones, it keeps the invariant.
LEMMA PlainSafe ==
  ASSUME NodesOk, NodesInv, NEW n \in 1 .. 9, NEW g, PlainStep(n, g), GoodRows(n, {}, g),
         UNCHANGED uneven
  PROVE  NodesInv'
PROOF
<1>1. \A f : ~Meets(f, {}) /\ OnFrame(f, {}, g) = Each(g, f)
  BY DEF Meets, OnFrame
<1>2. RowEffect(n, {}, g)
  BY <1>1 DEF PlainStep, RowEffect, OnFrames, NodesInv, NodesTyped
<1>3. SameFate({})
  BY DEF SameFate
<1> QED BY <1>2, <1>3, BatchAfter

\* Query expansion keeps the invariant.
LEMMA ExpansionSafe ==
  ASSUME NodesOk, NodesInv, QueryExpansion
  PROVE  NodesInv'
PROOF
<1>1. stage < 1 /\ ~uneven /\ UNCHANGED uneven
  <2>1. stage < 1
    BY DEF QueryExpansion, Node
  <2>2. UNCHANGED uneven
    BY DEF QueryExpansion, Unmarked
  <2>3. ~uneven
    BY <2>1 DEF NodesInv, NodesTyped, UnevenLate
  <2> QED BY <2>1, <2>2, <2>3
<1>2. ASSUME NEW r \in InPlay, NEW lines \in Seq(Queries)
      PROVE  RowOk(1, [r EXCEPT !.queries = lines]) /\ [r EXCEPT !.queries = lines].query = r.query
  <2> DEFINE w == [r EXCEPT !.queries = lines]
  <2>1. RowOk(stage, r) /\ stage \in 0 .. 9
    BY FramesInPlay DEF NodesInv, NodesTyped
  <2>2. /\ DOMAIN w = RowFields /\ w.query = r.query /\ w.queries = lines
        /\ w.semantic = r.semantic /\ w.lexical = r.lexical /\ w.hits = r.hits /\ w.texts = r.texts
    BY <2>1 DEF RowOk, RowFields
  <2> HIDE DEF w
  <2>3. RowOk(1, w) /\ w.query = r.query
    <3>1. \A x \in {r.semantic, r.lexical, r.hits} : MaybeHits(x) /\ (x = NoHits \/ x \in HitLists)
      BY <1>1, <2>1 DEF RowOk
    <3>2. r.query \in Asked /\ r.texts = NoHits
      BY <1>1, <2>1 DEF RowOk
    <3> QED BY <2>2, <3>1, <3>2 DEF RowOk
  <2> QED BY <2>3 DEF w
<1>3. ASSUME NEW r \in InPlay
      PROVE  /\ CheckedQueries(r.query, HyDE(r.query)) \in Seq(Queries)
             /\ CheckedQueries(r.query, MultiQuery(r.query)) \in Seq(Queries)
             /\ CheckedQueries(r.query, Decomposed(r.query)) \in Seq(Queries)
  <2>1. r.query \in Queries
    BY FramesInPlay DEF NodesInv, RowOk, NodesOk
  <2> QED BY <2>1, ExpandFacts
<1>4. \A f \in Frames : \A i \in DOMAIN f : f[i] \in InPlay
  BY FrameRows DEF NodesInv
<1>5. ASSUME Node(1, NoRow, LAMBDA f : Mapped(LAMBDA r : ExpandRow(r, HyDE), f))
      PROVE  NodesInv'
  <2> DEFINE g == [r \in InPlay |-> ExpandRow(r, HyDE)]
  <2>1. \A f \in Frames : Mapped(LAMBDA r : ExpandRow(r, HyDE), f) = Each(g, f)
    BY <1>4 DEF Mapped, Each
  <2>2. GoodRows(1, {}, g)
    BY <1>1, <1>2, <1>3 DEF GoodRows, ExpandRow
  <2> HIDE DEF g
  <2>3. PlainStep(1, g)
    BY <1>5, <2>1 DEF Node, Left, Breaks, NoRow, PlainStep, Frames, Mapped, NodesInv, NodesTyped
  <2> QED BY <1>1, <2>2, <2>3, PlainSafe
<1>6. ASSUME Node(1, NoRow, LAMBDA f : Mapped(LAMBDA r : ExpandRow(r, MultiQuery), f))
      PROVE  NodesInv'
  <2> DEFINE g == [r \in InPlay |-> ExpandRow(r, MultiQuery)]
  <2>1. \A f \in Frames : Mapped(LAMBDA r : ExpandRow(r, MultiQuery), f) = Each(g, f)
    BY <1>4 DEF Mapped, Each
  <2>2. GoodRows(1, {}, g)
    BY <1>1, <1>2, <1>3 DEF GoodRows, ExpandRow
  <2> HIDE DEF g
  <2>3. PlainStep(1, g)
    BY <1>6, <2>1 DEF Node, Left, Breaks, NoRow, PlainStep, Frames, Mapped, NodesInv, NodesTyped
  <2> QED BY <1>1, <2>2, <2>3, PlainSafe
<1>7. ASSUME Node(1, NoRow, LAMBDA f : Mapped(LAMBDA r : ExpandRow(r, Decomposed), f))
      PROVE  NodesInv'
  <2> DEFINE g == [r \in InPlay |-> ExpandRow(r, Decomposed)]
  <2>1. \A f \in Frames : Mapped(LAMBDA r : ExpandRow(r, Decomposed), f) = Each(g, f)
    BY <1>4 DEF Mapped, Each
  <2>2. GoodRows(1, {}, g)
    BY <1>1, <1>2, <1>3 DEF GoodRows, ExpandRow
  <2> HIDE DEF g
  <2>3. PlainStep(1, g)
    BY <1>7, <2>1 DEF Node, Left, Breaks, NoRow, PlainStep, Frames, Mapped, NodesInv, NodesTyped
  <2> QED BY <1>1, <2>2, <2>3, PlainSafe
<1> QED BY <1>5, <1>6, <1>7 DEF QueryExpansion

\* What the arms of the retrieval find a row.
LexicalHits(r) == Fused(Mapped(LAMBDA q : FirstK(SparseHits[q], TopK), r.queries))

\* They are hits.
LEMMA ArmFacts ==
  ASSUME NodesOk, NodesTyped, stage < 7, NEW r \in InPlay
  PROVE  /\ \A index : Fused(FoundOf(index, r.queries)) \in HitLists
         /\ LexicalHits(r) \in HitLists
PROOF
<1>1. r.queries \in Seq(Queries)
  BY FramesInPlay DEF RowOk
<1>2. ASSUME NEW s, DOMAIN s = DOMAIN r.queries, s = [j \in DOMAIN r.queries |-> s[j]],
             \A j \in DOMAIN s : s[j] \in HitLists
      PROVE  Fused(s) \in HitLists
  <2>1. s \in Seq(HitLists)
    <3>1. Len(r.queries) \in Nat /\ DOMAIN r.queries = 1 .. Len(r.queries)
      BY <1>1
    <3> QED BY ONLY <1>2, <3>1, ListOf
  <2> QED BY <2>1, FusedFacts
<1>3. \A j \in DOMAIN r.queries : r.queries[j] \in Queries
  BY <1>1
<1>4. ASSUME NEW index PROVE Fused(FoundOf(index, r.queries)) \in HitLists
  <2>1. /\ DOMAIN FoundOf(index, r.queries) = DOMAIN r.queries
        /\ FoundOf(index, r.queries) = [j \in DOMAIN r.queries |-> FoundOf(index, r.queries)[j]]
        /\ \A j \in DOMAIN r.queries : FoundOf(index, r.queries)[j] \in HitLists
    BY <1>3, StoreFacts DEF FoundOf, Found
  <2> QED BY <1>2, <2>1
<1>5. LexicalHits(r) \in HitLists
  <2> DEFINE s == [j \in DOMAIN r.queries |-> FirstK(SparseHits[r.queries[j]], TopK)]
  <2>1. /\ DOMAIN s = DOMAIN r.queries /\ s = [j \in DOMAIN r.queries |-> s[j]]
        /\ \A j \in DOMAIN s : s[j] \in HitLists
    BY <1>3, StoreFacts
  <2>2. LexicalHits(r) = Fused(s)
    BY DEF LexicalHits, Mapped
  <2> HIDE DEF s
  <2> QED BY <1>2, <2>1, <2>2
<1> QED BY <1>4, <1>5

\* A row with an arm's hits is a row of the next stage.
LEMMA ArmRows ==
  ASSUME NodesOk, NodesInv, NEW r \in InPlay, NEW hits \in HitLists, NEW n \in 2 .. 3,
         stage < n
  PROVE  /\ RowOk(n, [r EXCEPT !.semantic = hits]) /\ [r EXCEPT !.semantic = hits].query = r.query
         /\ RowOk(n, [r EXCEPT !.lexical = hits]) /\ [r EXCEPT !.lexical = hits].query = r.query
PROOF
<1>1. RowOk(stage, r) /\ stage \in 0 .. 9 /\ stage < 7 /\ n < 7
  BY FramesInPlay DEF NodesInv, NodesTyped
<1>2. IsList(hits)
  BY ListFacts DEF HitLists
<1> DEFINE v == [r EXCEPT !.semantic = hits]
           w == [r EXCEPT !.lexical = hits]
<1>3. /\ DOMAIN v = RowFields /\ v.query = r.query /\ v.queries = r.queries
      /\ v.semantic = hits /\ v.lexical = r.lexical /\ v.hits = r.hits /\ v.texts = r.texts
  BY <1>1 DEF RowOk, RowFields
<1>4. /\ DOMAIN w = RowFields /\ w.query = r.query /\ w.queries = r.queries
      /\ w.semantic = r.semantic /\ w.lexical = hits /\ w.hits = r.hits /\ w.texts = r.texts
  BY <1>1 DEF RowOk, RowFields
<1>5. /\ \A x \in {r.semantic, r.lexical, r.hits} : MaybeHits(x) /\ (x = NoHits \/ x \in HitLists)
      /\ r.query \in Asked /\ r.texts = NoHits /\ r.queries \in Seq(Queries)
  BY <1>1 DEF RowOk
<1>6. MaybeHits(hits)
  BY <1>2 DEF MaybeHits
<1> HIDE DEF v, w
<1>7. RowOk(n, v)
  BY <1>3, <1>5, <1>6 DEF RowOk
<1>8. RowOk(n, w)
  BY <1>4, <1>5, <1>6 DEF RowOk
<1> QED BY <1>3, <1>4, <1>7, <1>8 DEF v, w

\* A step of the dense retrieval on an index.
VectorStep(index) ==
  /\ stage < 2 /\ stage' = 2
  /\ rows' = VectorSearch(rows, index) /\ raised' = raised
  /\ alone' = [c \in DOMAIN alone |-> VectorSearch(alone[c], index)] /\ failed' = failed

\* Dense retrieval keeps the invariant, in chunks or at once.
LEMMA SemanticSafe ==
  ASSUME NodesOk, NodesInv, SemanticRetrieval
  PROVE  NodesInv'
PROOF
<1>1. PICK index : VectorStep(index)
  <2>1. ASSUME Node(2, NoRow, LAMBDA f : VectorSearch(f, "ivf")) PROVE VectorStep("ivf")
    BY <2>1 DEF Node, Left, Breaks, NoRow, VectorStep, NodesInv, NodesTyped
  <2>2. ASSUME Node(2, NoRow, LAMBDA f : VectorSearch(f, "hnsw")) PROVE VectorStep("hnsw")
    BY <2>2 DEF Node, Left, Breaks, NoRow, VectorStep, NodesInv, NodesTyped
  <2> QED BY <2>1, <2>2 DEF SemanticRetrieval
<1>2. stage < 2 /\ stage < 7 /\ UNCHANGED uneven /\ ~uneven
  <2>1. stage < 2
    BY <1>1 DEF VectorStep
  <2>2. UNCHANGED uneven
    BY DEF SemanticRetrieval, Unmarked
  <2> QED BY <2>1, <2>2 DEF NodesInv, NodesTyped, UnevenLate
<1> DEFINE g == [r \in InPlay |-> [r EXCEPT !.semantic = Fused(FoundOf(index, r.queries))]]
<1>3. ASSUME NEW f \in Frames PROVE VectorSearch(f, index) = Each(g, f)
  <2>1. IsList(f) /\ \A i \in DOMAIN f : f[i] \in InPlay
    BY FrameRows DEF NodesInv
  <2>2. \A i \in DOMAIN f : f[i].queries \in Seq(Queries)
    BY <1>2, <2>1, FramesInPlay DEF NodesInv, RowOk
  <2>3. VectorSearch(f, index) =
          [i \in DOMAIN f |-> [f[i] EXCEPT !.semantic = Fused(FoundOf(index, f[i].queries))]]
    BY <2>1, <2>2, VectorSearchByRow
  <2> QED BY <2>1, <2>3 DEF Each
<1>4. GoodRows(2, {}, g)
  <2>1. ASSUME NEW r \in InPlay PROVE RowOk(2, g[r]) /\ g[r].query = r.query
    <3>1. PICK hits \in HitLists : hits = Fused(FoundOf(index, r.queries))
      BY <1>2, ArmFacts DEF NodesInv
    <3>2. g[r] = [r EXCEPT !.semantic = hits]
      BY <3>1
    <3>3. 2 \in 2 .. 3 /\ stage < 2
      BY <1>2
    <3>4. RowOk(2, [r EXCEPT !.semantic = hits]) /\ [r EXCEPT !.semantic = hits].query = r.query
      BY ONLY NodesOk, NodesInv, r \in InPlay, hits \in HitLists, <3>3, ArmRows
    <3> QED BY ONLY <3>2, <3>4
  <2> QED BY <1>2, <2>1 DEF GoodRows
<1> HIDE DEF g
<1>5. PlainStep(2, g)
  BY <1>1, <1>3 DEF VectorStep, PlainStep, Frames
<1> QED BY <1>2, <1>4, <1>5, PlainSafe

\* BM25 keeps the invariant.
LEMMA LexicalSafe ==
  ASSUME NodesOk, NodesInv, LexicalRetrieval
  PROVE  NodesInv'
PROOF
<1>1. Node(3, NoRow, LexicalSearch) /\ UNCHANGED uneven
  BY DEF LexicalRetrieval, Unmarked
<1>2. stage < 3 /\ stage < 7 /\ ~uneven
  BY <1>1 DEF Node, NodesInv, NodesTyped, UnevenLate
<1> DEFINE g == [r \in InPlay |-> [r EXCEPT !.lexical = LexicalHits(r)]]
<1>3. \A f \in Frames : LexicalSearch(f) = Each(g, f)
  BY FrameRows DEF LexicalSearch, LexicalHits, Mapped, Each, NodesInv
<1>4. GoodRows(3, {}, g)
  <2>1. ASSUME NEW r \in InPlay PROVE RowOk(3, g[r]) /\ g[r].query = r.query
    <3>1. PICK hits \in HitLists : hits = LexicalHits(r)
      BY <1>2, ArmFacts DEF NodesInv
    <3>2. g[r] = [r EXCEPT !.lexical = hits]
      BY <3>1
    <3>3. 3 \in 2 .. 3 /\ stage < 3
      BY <1>2
    <3>4. RowOk(3, [r EXCEPT !.lexical = hits]) /\ [r EXCEPT !.lexical = hits].query = r.query
      BY ONLY NodesOk, NodesInv, r \in InPlay, hits \in HitLists, <3>3, ArmRows
    <3> QED BY ONLY <3>2, <3>4
  <2> QED BY <1>2, <2>1 DEF GoodRows
<1> HIDE DEF g
<1>5. PlainStep(3, g)
  BY <1>1, <1>3 DEF Node, Left, Breaks, NoRow, PlainStep, Frames, NodesInv, NodesTyped
<1> QED BY <1>1, <1>2, <1>4, <1>5, PlainSafe

\* Before an uneven cut, every row in play is some call's.
LEMMA RowsOfCalls ==
  ASSUME NodesInv, ~uneven, NEW r \in InPlay
  PROVE  \E c \in DOMAIN alone : \E i \in DOMAIN alone[c] : r = alone[c][i]
PROOF
<1>1. CASE r \in UNION {ToSet(alone[c]) : c \in DOMAIN alone}
  BY <1>1 DEF ToSet
<1>2. CASE r \in ToSet(rows)
  <2>1. PICK k \in DOMAIN rows : r = rows[k]
    BY <1>2 DEF ToSet
  <2>2. rows # <<>>
    BY <2>1
  <2>3. rows = FlattenSeq(alone)
    BY <2>2 DEF NodesInv, NoneLeft, BatchingIsInvisible
  <2> QED BY <2>1, <2>3, EndsTogether, FramesInPlay DEF NodesInv
<1> QED BY <1>1, <1>2 DEF InPlay

\* Fusion of the two arms, for the rows that have both.
LEMMA FusionRows ==
  ASSUME NodesOk, NodesInv, stage < 4, NEW B, NEW x,
         \A r \in InPlay \ B : x[r] \in HitLists
  PROVE  GoodRows(4, B, [r \in InPlay |-> WithHits(r, x[r])])
PROOF
<1>1. ~uneven /\ 4 \in 1 .. 7
  BY DEF NodesInv, NodesTyped, UnevenLate
<1>2. ASSUME NEW r \in InPlay \ B PROVE HitsFor(4, r, x[r])
  BY <1>1, <1>2, ListFacts DEF HitsFor, HitLists
<1> QED BY <1>1, <1>2, HitsAreGood

\* A step of the convex combination.
Armless(f) == \E i \in DOMAIN f : ArmMissing(f[i])
CombineStep(low) ==
  /\ stage < 4 /\ stage' = 4
  /\ rows' = (IF Armless(rows) THEN <<>> ELSE HybridCC(rows, low))
  /\ raised' = (raised \/ Armless(rows))
  /\ alone' = [c \in DOMAIN alone |-> IF Armless(alone[c]) THEN <<>> ELSE HybridCC(alone[c], low)]
  /\ failed' = failed \cup {c \in DOMAIN alone : Armless(alone[c])}

\* Fusion keeps the invariant.
LEMMA HybridSafe ==
  ASSUME NodesOk, NodesInv, HybridRetrieval
  PROVE  NodesInv'
PROOF
<1>1. stage < 4 /\ UNCHANGED uneven /\ ~uneven
  <2>1. stage < 4
    BY DEF HybridRetrieval, Node
  <2>2. UNCHANGED uneven
    BY DEF HybridRetrieval, Unmarked
  <2> QED BY <2>1, <2>2 DEF NodesInv, NodesTyped, UnevenLate
<1>2. ASSUME NEW r \in InPlay PROVE r.semantic \in HitLists /\ r.lexical \in HitLists
  <2>1. r.semantic # NoHits /\ r.lexical # NoHits
    BY <1>1, RowsOfCalls DEF HybridRetrieval, Every
  <2>2. RowOk(stage, r) /\ stage < 7
    BY <1>1, FramesInPlay DEF NodesInv, NodesTyped
  <2> QED BY <2>1, <2>2 DEF RowOk
<1>3. \A f \in Frames : \A i \in DOMAIN f : f[i] \in InPlay
  BY FrameRows DEF NodesInv
<1>4. ASSUME Node(4, NoRow, HybridRRF) PROVE NodesInv'
  <2> DEFINE x == [r \in InPlay |-> Fused(<<r.semantic, r.lexical>>)]
             g == [r \in InPlay |-> WithHits(r, x[r])]
  <2>1. \A f \in Frames : HybridRRF(f) = Each(g, f)
    BY <1>3 DEF HybridRRF, Mapped, Each
  <2>2. \A r \in InPlay \ {} : x[r] \in HitLists
    <3>1. ASSUME NEW r \in InPlay PROVE Fused(<<r.semantic, r.lexical>>) \in HitLists
      <4>1. <<r.semantic, r.lexical>> \in Seq(HitLists)
        BY <1>2
      <4> QED BY <4>1, FusedFacts
    <3> QED BY <3>1
  <2> HIDE DEF x
  <2>3. GoodRows(4, {}, g)
    BY <1>1, <2>2, FusionRows
  <2> HIDE DEF g
  <2>4. PlainStep(4, g)
    BY <1>4, <2>1 DEF Node, Left, Breaks, NoRow, PlainStep, Frames, NodesInv, NodesTyped
  <2> QED BY <1>1, <2>3, <2>4, PlainSafe
<1>5. ASSUME NEW low, CombineStep(low) PROVE NodesInv'
  <2> DEFINE x == [r \in InPlay |-> Combined(r, low)]
             g == [r \in InPlay |-> WithHits(r, x[r])]
             B == {r \in InPlay : ArmMissing(r)}
  <2>1. ASSUME NEW f \in Frames
        PROVE  HybridCC(f, low) = Each(g, f) /\ (Armless(f) <=> Meets(f, B))
    BY <1>3 DEF HybridCC, Mapped, Each, Armless, Meets
  <2>2. \A r \in InPlay \ B : x[r] \in HitLists
    BY <1>2, CombinedFacts DEF ArmMissing
  <2> HIDE DEF x
  <2>3. GoodRows(4, B, g)
    BY <1>1, <2>2, FusionRows
  <2>4. SameFate(B)
    BY <1>1 DEF SameFate
  <2> HIDE DEF g, B
  <2>5. RowEffect(4, B, g)
    BY <1>5, <2>1 DEF CombineStep, RowEffect, OnFrame, OnFrames, Frames
  <2> QED BY <1>1, <2>3, <2>4, <2>5, BatchAfter
<1>6. ASSUME Node(4, ArmMissing, LAMBDA f : HybridCC(f, "minimum")) PROVE CombineStep("minimum")
  BY <1>6 DEF Node, Left, Breaks, Armless, CombineStep
<1>7. ASSUME Node(4, ArmMissing, LAMBDA f : HybridCC(f, "zero")) PROVE CombineStep("zero")
  BY <1>7 DEF Node, Left, Breaks, Armless, CombineStep
<1> QED BY <1>4, <1>5, <1>6, <1>7 DEF HybridRetrieval

\* A compressor, and a prompt maker, leave a row's hits as they were.
LEMMA LaterRows ==
  ASSUME NodesOk, NodesInv, NEW n \in 8 .. 9, stage < n, NEW r \in InPlay, NEW w,
         DOMAIN w = RowFields, w.query = r.query, w.semantic = r.semantic, w.lexical = r.lexical,
         w.hits = r.hits, n < 9 \/ w.texts = r.texts
  PROVE  /\ RowOk(n, w) /\ w.query = r.query
         /\ uneven /\ Lasting(stage, r) => Lasting(n, w)
PROOF
<1>1. RowOk(stage, r) /\ ~(n < 8) /\ ~(n < 7)
  BY FramesInPlay DEF NodesInv
<1>2. RowOk(n, w)
  BY <1>1 DEF RowOk
<1>3. Hits(w) = Hits(r)
  BY DEF Hits
<1> QED BY <1>1, <1>2, <1>3 DEF Lasting

\* A compressor leaves good rows.
LEMMA CompressedRows ==
  ASSUME NodesOk, NodesInv, stage < 8, NEW B, NEW text
  PROVE  GoodRows(8, B, [r \in InPlay |-> Compressed(r, text[r])])
PROOF
<1>1. ASSUME NEW r \in InPlay
      PROVE  /\ RowOk(8, Compressed(r, text[r])) /\ Compressed(r, text[r]).query = r.query
             /\ uneven /\ Lasting(stage, r) => Lasting(8, Compressed(r, text[r]))
  <2> DEFINE w == Compressed(r, text[r])
  <2>1. DOMAIN r = RowFields
    BY FramesInPlay DEF NodesInv, RowOk
  <2>2. /\ DOMAIN w = RowFields /\ w.query = r.query /\ w.semantic = r.semantic
        /\ w.lexical = r.lexical /\ w.hits = r.hits
    BY <2>1 DEF Compressed, RowFields
  <2> HIDE DEF w
  <2>3. 8 \in 8 .. 9 /\ 8 < 9
    OBVIOUS
  <2>4. /\ RowOk(8, w) /\ w.query = r.query
        /\ uneven /\ Lasting(stage, r) => Lasting(8, w)
    BY ONLY NodesOk, NodesInv, stage < 8, r \in InPlay, <2>2, <2>3, LaterRows
  <2> QED BY <2>4 DEF w
<1> QED BY <1>1 DEF GoodRows

\* So does a prompt maker.
LEMMA PromptedRows ==
  ASSUME NodesOk, NodesInv, stage < 9, NEW B, NEW prompt
  PROVE  GoodRows(9, B, [r \in InPlay |-> [r EXCEPT !.prompt = prompt[r]]])
PROOF
<1>1. ASSUME NEW r \in InPlay
      PROVE  /\ RowOk(9, [r EXCEPT !.prompt = prompt[r]])
             /\ [r EXCEPT !.prompt = prompt[r]].query = r.query
             /\ uneven /\ Lasting(stage, r) => Lasting(9, [r EXCEPT !.prompt = prompt[r]])
  <2> DEFINE w == [r EXCEPT !.prompt = prompt[r]]
  <2>1. DOMAIN r = RowFields
    BY FramesInPlay DEF NodesInv, RowOk
  <2>2. /\ DOMAIN w = RowFields /\ w.query = r.query /\ w.semantic = r.semantic
        /\ w.lexical = r.lexical /\ w.hits = r.hits /\ w.texts = r.texts
    BY <2>1 DEF RowFields
  <2> HIDE DEF w
  <2>3. 9 \in 8 .. 9
    OBVIOUS
  <2>4. /\ RowOk(9, w) /\ w.query = r.query
        /\ uneven /\ Lasting(stage, r) => Lasting(9, w)
    BY ONLY NodesOk, NodesInv, stage < 9, r \in InPlay, <2>2, <2>3, LaterRows
  <2> QED BY <2>4 DEF w
<1> QED BY <1>1 DEF GoodRows

\* Refine and TreeSummarize fail with their model, on a query's row.
Down(f, down) == \E i \in DOMAIN f : f[i].query \in down
\* A compressor's step, of whichever module.
CompressStep(down, text) ==
  /\ stage < 8 /\ stage' = 8
  /\ rows' = (IF Down(rows, down) THEN <<>>
              ELSE [i \in DOMAIN rows |-> Compressed(rows[i], text[rows[i]])])
  /\ raised' = (raised \/ Down(rows, down))
  /\ alone' = [c \in DOMAIN alone |->
                 IF Down(alone[c], down) THEN <<>>
                 ELSE [i \in DOMAIN alone[c] |-> Compressed(alone[c][i], text[alone[c][i]])]]
  /\ failed' = failed \cup {c \in DOMAIN alone : Down(alone[c], down)}

\* It keeps the invariant.
LEMMA CompressSafe ==
  ASSUME NodesOk, NodesInv, NEW down, NEW text, CompressStep(down, text), UNCHANGED uneven
  PROVE  NodesInv'
PROOF
<1> DEFINE g == [r \in InPlay |-> Compressed(r, text[r])]
           B == {r \in InPlay : r.query \in down}
<1>1. ASSUME NEW f \in Frames
      PROVE  /\ [i \in DOMAIN f |-> Compressed(f[i], text[f[i]])] = Each(g, f)
             /\ Down(f, down) <=> Meets(f, B)
  BY FrameRows DEF Each, Down, Meets, NodesInv
<1>2. stage < 8 /\ GoodRows(8, B, g)
  BY CompressedRows DEF CompressStep
<1>3. SameFate(B)
  BY DEF SameFate
<1> HIDE DEF g, B
<1>4. RowEffect(8, B, g)
  BY <1>1 DEF CompressStep, RowEffect, OnFrame, OnFrames, Frames
<1> QED BY <1>2, <1>3, <1>4, BatchAfter

\* So the compressor does, together or row by row, and when its model is down.
LEMMA CompressorSafe ==
  ASSUME NodesOk, NodesInv, PassageCompressor
  PROVE  NodesInv'
PROOF
<1>1. Every(Retrieved) /\ UNCHANGED uneven
  BY DEF PassageCompressor, Unmarked
<1>2. ASSUME NEW ragged \in BOOLEAN, Node(8, NoRow, LAMBDA f : LLMLingua2(f, ragged))
      PROVE  CompressStep({}, [r \in InPlay |-> Squeezed(Texts(r))])
  <2> DEFINE text == [r \in InPlay |-> Squeezed(Texts(r))]
  <2>1. stage < 8
    BY <1>2 DEF Node
  <2>2. ASSUME NEW f \in Frames
        PROVE  /\ LLMLingua2(f, ragged) = [i \in DOMAIN f |-> Compressed(f[i], text[f[i]])]
               /\ ~Down(f, {})
    <3>1. IsList(f) /\ \A i \in DOMAIN f : f[i] \in InPlay /\ IsList(Hits(f[i])) /\ f[i].texts = NoHits
      BY <1>1, <2>1, FramesReady, FramesInPlay DEF HitsReady, RowOk, NodesInv
    <3>2. ASSUME NEW i \in DOMAIN f PROVE IsList(Texts(f[i]))
      <4>1. Texts(f[i]) = [j \in 1 .. Len(Hits(f[i])) |-> Texts(f[i])[j]] /\ Len(Hits(f[i])) \in Nat
        BY <3>1, ListFacts DEF Texts, Contents
      <4> QED BY <4>1, ListFacts
    <3>3. LLMLingua2(f, ragged) = [i \in DOMAIN f |-> Compressed(f[i], Squeezed(Texts(f[i])))]
      BY <3>1, <3>2, LLMLingua2ByRow DEF TextsReady
    <3> QED BY <3>1, <3>3 DEF Down
  <2> HIDE DEF text
  <2>3. CompressStep({}, text)
    BY <1>2, <2>2 DEF Node, Left, Breaks, NoRow, CompressStep, Frames, NodesInv, NodesTyped
  <2> QED BY <2>3 DEF text
<1>3. ASSUME NEW down \in SUBSET Asked, Node(8, LAMBDA r : r.query \in down, Refine)
      PROVE  CompressStep(down, [r \in InPlay |-> <<"refined", r.query, Texts(r)>>])
  <2> DEFINE text == [r \in InPlay |-> <<"refined", r.query, Texts(r)>>]
  <2>1. \A f \in Frames : Refine(f) = [i \in DOMAIN f |-> Compressed(f[i], text[f[i]])]
    BY FrameRows DEF Refine, Mapped, NodesInv
  <2> HIDE DEF text
  <2>2. CompressStep(down, text)
    BY <1>3, <2>1 DEF Node, Left, Breaks, Down, CompressStep, Frames
  <2> QED BY <2>2 DEF text
<1>4. ASSUME NEW down \in SUBSET Asked, Node(8, LAMBDA r : r.query \in down, TreeSummarize)
      PROVE  CompressStep(down, [r \in InPlay |-> <<"summary", r.query, Texts(r)>>])
  <2> DEFINE text == [r \in InPlay |-> <<"summary", r.query, Texts(r)>>]
  <2>1. \A f \in Frames : TreeSummarize(f) = [i \in DOMAIN f |-> Compressed(f[i], text[f[i]])]
    BY FrameRows DEF TreeSummarize, Mapped, NodesInv
  <2> HIDE DEF text
  <2>2. CompressStep(down, text)
    BY <1>4, <2>1 DEF Node, Left, Breaks, Down, CompressStep, Frames
  <2> QED BY <2>2 DEF text
<1>5. \E down : \E text : CompressStep(down, text)
  <2>1. CASE \E ragged \in BOOLEAN : Node(8, NoRow, LAMBDA f : LLMLingua2(f, ragged))
    <3>1. PICK ragged \in BOOLEAN : Node(8, NoRow, LAMBDA f : LLMLingua2(f, ragged))
      BY <2>1
    <3> QED BY <1>2, <3>1
  <2>2. CASE \E down \in SUBSET Asked :
               \/ Node(8, LAMBDA r : r.query \in down, Refine)
               \/ Node(8, LAMBDA r : r.query \in down, TreeSummarize)
    <3>1. PICK down \in SUBSET Asked :
               \/ Node(8, LAMBDA r : r.query \in down, Refine)
               \/ Node(8, LAMBDA r : r.query \in down, TreeSummarize)
      BY <2>2
    <3> QED BY <1>3, <1>4, <3>1
  <2> QED BY <2>1, <2>2 DEF PassageCompressor
<1> QED BY <1>1, <1>5, CompressSafe

\* The prompt maker keeps the invariant.
LEMMA PromptSafe ==
  ASSUME NodesOk, NodesInv, PromptMaker
  PROVE  NodesInv'
PROOF
<1>1. UNCHANGED uneven
  BY DEF PromptMaker, Unmarked
<1>2. ASSUME NEW prompt, PlainStep(9, [r \in InPlay |-> [r EXCEPT !.prompt = prompt[r]]])
      PROVE  NodesInv'
  <2> DEFINE g == [r \in InPlay |-> [r EXCEPT !.prompt = prompt[r]]]
  <2>1. stage < 9 /\ GoodRows(9, {}, g)
    BY <1>2, PromptedRows DEF PlainStep
  <2> HIDE DEF g
  <2> QED BY <1>1, <1>2, <2>1, PlainSafe DEF g
<1>3. ASSUME Node(9, NoRow, LAMBDA f : Mapped(LAMBDA r : [r EXCEPT !.prompt = Fstring(r)], f))
      PROVE  NodesInv'
  <2> DEFINE prompt == [r \in InPlay |-> Fstring(r)]
             g == [r \in InPlay |-> [r EXCEPT !.prompt = prompt[r]]]
  <2>1. \A f \in Frames : Mapped(LAMBDA r : [r EXCEPT !.prompt = Fstring(r)], f) = Each(g, f)
    BY FrameRows DEF Mapped, Each, NodesInv
  <2> HIDE DEF g, prompt
  <2>2. PlainStep(9, g)
    BY <1>3, <2>1 DEF Node, Left, Breaks, NoRow, PlainStep, Frames, Mapped, NodesInv, NodesTyped
  <2> QED BY <1>2, <2>2 DEF g
<1>4. ASSUME Node(9, NoRow, LAMBDA f : Mapped(LAMBDA r : [r EXCEPT !.prompt = LongContextReorder(r)], f))
      PROVE  NodesInv'
  <2> DEFINE prompt == [r \in InPlay |-> LongContextReorder(r)]
             g == [r \in InPlay |-> [r EXCEPT !.prompt = prompt[r]]]
  <2>1. \A f \in Frames : Mapped(LAMBDA r : [r EXCEPT !.prompt = LongContextReorder(r)], f) = Each(g, f)
    BY FrameRows DEF Mapped, Each, NodesInv
  <2> HIDE DEF g, prompt
  <2>2. PlainStep(9, g)
    BY <1>4, <2>1 DEF Node, Left, Breaks, NoRow, PlainStep, Frames, Mapped, NodesInv, NodesTyped
  <2> QED BY <1>2, <2>2 DEF g
<1>5. ASSUME Node(9, LAMBDA r : swapped, LAMBDA f : Mapped(LAMBDA r : [r EXCEPT !.prompt = WindowReplacement(r)], f))
      PROVE  NodesInv'
  <2> DEFINE prompt == [r \in InPlay |-> WindowReplacement(r)]
             g == [r \in InPlay |-> [r EXCEPT !.prompt = prompt[r]]]
             B == {r \in InPlay : swapped}
  <2>1. \A f \in Frames : Mapped(LAMBDA r : [r EXCEPT !.prompt = WindowReplacement(r)], f) = Each(g, f)
    BY FrameRows DEF Mapped, Each, NodesInv
  <2>2. \A f \in Frames : (\E i \in DOMAIN f : swapped) <=> Meets(f, B)
    BY FrameRows DEF Meets, NodesInv
  <2>3. stage < 9 /\ SameFate(B)
    BY <1>5 DEF Node, SameFate
  <2> HIDE DEF B, prompt
  <2>4. GoodRows(9, B, g)
    BY <2>3, PromptedRows
  <2> HIDE DEF g
  <2>5. RowEffect(9, B, g)
    BY <1>5, <2>1, <2>2 DEF Node, Left, Breaks, RowEffect, OnFrame, OnFrames, Frames, Mapped
  <2> QED BY <1>1, <2>3, <2>4, <2>5, BatchAfter
<1> QED BY <1>3, <1>4, <1>5 DEF PromptMaker

\* Fresh frames satisfy the invariant.
LEMMA NodesStart ==
  ASSUME NodesOk, NodesInit
  PROVE  NodesInv
PROOF
<1>1. PICK calls \in Arrivals :
        alone = [c \in DOMAIN calls |-> [i \in DOMAIN calls[c] |-> NewRow(calls[c][i])]]
  BY DEF NodesInit
<1>2. calls \in Seq(Seq(Asked))
  BY DEF NodesOk
<1>3. ASSUME NEW q \in Asked PROVE RowOk(0, NewRow(q))
  <2>1. <<q>> \in Seq(Queries)
    BY DEF NodesOk
  <2> QED BY <2>1 DEF RowOk, NewRow, RowFields, MaybeHits
<1>4. ASSUME NEW c \in DOMAIN calls PROVE FrameOk(0, alone[c])
  <2>1. alone[c] = [i \in DOMAIN calls[c] |-> NewRow(calls[c][i])] /\ calls[c] \in Seq(Asked)
    BY <1>1, <1>2
  <2>2. alone[c] = [i \in 1 .. Len(calls[c]) |-> alone[c][i]] /\ Len(calls[c]) \in Nat
    BY <2>1
  <2>3. IsList(alone[c]) /\ DOMAIN alone[c] = DOMAIN calls[c]
    BY <2>1, <2>2, ListFacts
  <2>4. \A i \in DOMAIN alone[c] : RowOk(0, alone[c][i])
    BY <1>3, <2>1, <2>3
  <2> QED BY <2>3, <2>4 DEF FrameOk
<1>5. IsList(alone) /\ DOMAIN alone = DOMAIN calls
  <2>1. alone = [c \in 1 .. Len(calls) |-> alone[c]] /\ Len(calls) \in Nat
    BY <1>1, <1>2
  <2>2. DOMAIN alone = DOMAIN calls
    BY <1>1
  <2> QED BY <2>1, <2>2, ListFacts
<1>6. rows = FlattenSeq(alone) /\ stage = 0 /\ raised = FALSE /\ failed = {} /\ uneven = FALSE
  BY DEF NodesInit
<1>7. FrameOk(0, rows)
  <2>1. \A c \in DOMAIN alone : IsList(alone[c])
    BY <1>4, <1>5 DEF FrameOk
  <2>2. /\ IsList(FlattenSeq(alone))
        /\ \A k \in DOMAIN FlattenSeq(alone) : \E c \in DOMAIN alone : \E i \in DOMAIN alone[c] :
             FlattenSeq(alone)[k] = alone[c][i]
    BY <1>5, <2>1, EndsTogether
  <2> QED BY <1>4, <1>5, <1>6, <2>2 DEF FrameOk
<1>8. NodesTyped
  <2>1. \A c \in DOMAIN alone : FrameOk(0, alone[c])
    BY ONLY <1>4, <1>5
  <2>2. stage \in 0 .. 9 /\ failed \subseteq DOMAIN alone
    BY ONLY <1>6
  <2>4. raised \in BOOLEAN /\ uneven \in BOOLEAN
    BY ONLY <1>6
  <2>3. FrameOk(stage, rows) /\ \A c \in DOMAIN alone : FrameOk(stage, alone[c])
    BY ONLY <1>6, <1>7, <2>1
  <2> QED BY ONLY <1>5, <2>2, <2>3, <2>4 DEF NodesTyped
<1> QED BY ONLY <1>6, <1>8 DEF NodesInv, UnevenLate, NoneLeft, AlikeWhenUneven, BatchingIsInvisible

\* Every state of the pipeline satisfies it, for every batch, corpus and model.
THEOREM NodesInvariant == NodesSpec => []NodesInv
PROOF
<1>0. NodesOk
  BY NodesAssumption DEF NodesOk
<1>1. NodesInit => NodesInv
  BY <1>0, NodesStart
<1>2. NodesInv /\ [NodesNext]_nodeVars => NodesInv'
  <2> SUFFICES ASSUME NodesInv, [NodesNext]_nodeVars PROVE NodesInv'
    OBVIOUS
  <2> USE <1>0
  <2>1. CASE QueryExpansion
    BY <2>1, ExpansionSafe
  <2>2. CASE SemanticRetrieval
    BY <2>2, SemanticSafe
  <2>3. CASE LexicalRetrieval
    BY <2>3, LexicalSafe
  <2>4. CASE HybridRetrieval
    BY <2>4, HybridSafe
  <2>5. CASE PassageFilter
    BY <2>5, FilterSafe
  <2>6. CASE PassageAugmenter
    BY <2>6, AugmenterSafe
  <2>7. CASE PassageReranker
    BY <2>7, RerankerSafe
  <2>8. CASE BatchedReranker
    BY <2>8, BatchedRerankerSafe
  <2>9. CASE PassageCompressor
    BY <2>9, CompressorSafe
  <2>10. CASE PromptMaker
    BY <2>10, PromptSafe
  <2>11. CASE UNCHANGED nodeVars
    BY <2>11 DEF nodeVars, NodesInv, NodesTyped, UnevenLate, NoneLeft, AlikeWhenUneven, BatchingIsInvisible
  <2> QED BY <2>1, <2>2, <2>3, <2>4, <2>5, <2>6, <2>7, <2>8, <2>9, <2>10, <2>11 DEF NodesNext
<1> QED BY <1>1, <1>2, PTL DEF NodesSpec

\* BatchingIsInvisible: a call's rows are the same whomever it shares its batch with, and a
\* node raises on a batch exactly when it raises on one of the calls by itself.
THEOREM NodesTheorem == NodesSpec => []BatchingIsInvisible
PROOF
<1>1. NodesInv => BatchingIsInvisible
  BY DEF NodesInv
<1> QED BY <1>1, NodesInvariant, PTL
=============================================================================
