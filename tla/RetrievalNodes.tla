---------------------------- MODULE RetrievalNodes ----------------------------
(***************************************************************************)
(* The pipeline's nodes on a frame: one row per query, several calls' rows  *)
(* batched into one frame in measured serving, the whole QA set in an        *)
(* evaluation. Query expansion, dense and BM25 retrieval, their fusion, the  *)
(* filters, the augmenter, the rerankers, the compressors and the prompt     *)
(* makers. Several flatten the frame, work in chunks or on replicas, and cut *)
(* the results back into rows.                                              *)
(*                                                                          *)
(* The history variable alone is every call taken through the same nodes by  *)
(* itself. Contents stand for themselves by their doc id. A model scores a    *)
(* pair the same in every batch, but for colbert and monot5: colbert scores   *)
(* the padding too, and monot5 the last step that a batch generates. Every    *)
(* node has one module after sampling.                                       *)
(***************************************************************************)
EXTENDS Lists, SequencesExt

CONSTANTS Arrivals,   \* batches: a sequence of calls, each a sequence of queries
          LlmLines,   \* the lines that the expander's model answers a query
          DenseHits,  \* the vector store's hits of a query: [id, score], best first
          SparseHits, \* BM25's
          IdText,     \* a doc id read as a text
          Relevance,  \* what a ranking model gives a query and a text
          Tokens,     \* the length of a query and of a text
          LateScore,  \* what colbert gives them, padded to so many tokens each
          AnswerSteps,  \* how many tokens monot5's model answers them
          StepScore,  \* what it gives them at the so-manieth of its tokens
          DocOrder,   \* the corpus's doc ids, each the previous one's next
          Modified,   \* last_modified_datetime of a doc id
          TopK, Chunk, Replicas,
          Blank,      \* a blank line
          NoHits

Queries == DOMAIN LlmLines
Asked == DOMAIN Relevance
PassageTexts == ToSet(DocOrder) \cup {IdText[id] : id \in ToSet(DocOrder)}
Widths == {Tokens[t] : t \in DOMAIN Tokens}
Passages == [id : ToSet(DocOrder), score : Nat]
HitLists == Seq(Passages)

\* Queries that are asked have a relevance; an expander answers a line or more; hits are
\* of the corpus, and their scores no less than 0; every passage has a date.
ASSUME NodesAssumption ==
  /\ TopK \in Nat \ {0} /\ Chunk \in Nat \ {0} /\ Replicas \in Nat \ {0}
  /\ DocOrder \in Seq(ToSet(DocOrder)) /\ Asked \subseteq Queries
  /\ \A calls \in Arrivals : calls \in Seq(Seq(Asked))
  /\ LlmLines \in [Queries -> Seq(Queries \cup {Blank}) \ {<<>>}]
  /\ DenseHits \in [Queries -> HitLists] /\ SparseHits \in [Queries -> HitLists]
  /\ Relevance \in [Asked -> [PassageTexts -> Nat]]
  /\ Tokens \in [Asked \cup PassageTexts -> Nat]
  /\ LateScore \in [Asked -> [PassageTexts -> [Widths -> [Widths -> Nat]]]]
  /\ AnswerSteps \in [Asked -> [PassageTexts -> DOMAIN StepScore]]
  /\ StepScore \in [DOMAIN StepScore -> [Asked -> [PassageTexts -> Nat]]]
  /\ DOMAIN StepScore \subseteq Nat
  /\ Modified \in [ToSet(DocOrder) -> Nat] /\ NoHits \notin HitLists

VARIABLES rows,      \* the batch's rows; none are left when a node raised
          alone,     \* the rows of each call on its own
          stage,     \* how many stages of the pipeline are passed
          raised,    \* a node raised on the batch
          failed,    \* the calls on which, by themselves, one did
          swapped,   \* the ids stand in the contents' column, the contents in the ids'
          uneven     \* history: a node measured rows of different lengths by each other

nodeVars == <<rows, alone, stage, raised, failed, swapped, uneven>>

\* cast_queries: without an expansion, a row's only query is its own.
NewRow(q) ==
  [query |-> q, queries |-> <<q>>, semantic |-> NoHits, lexical |-> NoHits,
   hits |-> NoHits, texts |-> NoHits, prompt |-> NoHits]

NodesInit ==
  /\ \E calls \in Arrivals :
       /\ alone = [c \in DOMAIN calls |-> [i \in DOMAIN calls[c] |-> NewRow(calls[c][i])]]
       /\ rows = FlattenSeq(alone)
  /\ stage = 0 /\ raised = FALSE /\ failed = {} /\ swapped = FALSE /\ uneven = FALSE

\* cast_retrieve_infos.
Hits(r) == IF r.hits # NoHits THEN r.hits
           ELSE IF r.semantic # NoHits THEN r.semantic ELSE r.lexical
\* What the contents' column has of a passage.
TextOf(id) == IF swapped THEN IdText[id] ELSE id
Contents(hits) == [i \in DOMAIN hits |-> TextOf(hits[i].id)]
Texts(r) == IF r.texts # NoHits THEN r.texts ELSE Contents(Hits(r))
Retrieved(r) == Hits(r) # NoHits
\* drop_retrieval_columns, and the node's own hits beside what is left.
WithHits(r, hits) == [r EXCEPT !.hits = hits, !.texts = NoHits]

FirstK(s, k) == SubSeq(s, 1, IF k < Len(s) THEN k ELSE Len(s))
\* sort_by_scores is stable.
ByScore(hits) == Ordered(hits, LAMBDA a, b : a.score > b.score)
WithScores(hits, scores) == [i \in DOMAIN hits |-> [id |-> hits[i].id, score |-> scores[i]]]
Best(hits, k) == FirstK(ByScore(hits), k)
IdsOf(hits) == {hits[i].id : i \in DOMAIN hits}
HitOf(hits, id) == hits[CHOOSE i \in DOMAIN hits : hits[i].id = id]

Mapped(F(_), s) == [i \in DOMAIN s |-> F(s[i])]
Those(s, P(_)) == Picked(s, {i \in DOMAIN s : P(s[i])})
\* dict.fromkeys.
Distinct(s) == Picked(s, {i \in DOMAIN s : \A j \in 1 .. i - 1 : s[j] # s[i]})

\* reconstruct_list, and what groupby(level=0) makes of an exploded frame.
RegroupedAtLast(flat, lens) ==
  [i \in DOMAIN lens |-> LET from == IF i = 1 THEN 0 ELSE lens[i - 1] IN
                         SubSeq(flat, from + 1, from + lens[i])]
Regrouped(flat, lens) ==
  [i \in DOMAIN lens |-> LET from == SumOver(lens, 1 .. i - 1) IN
                         SubSeq(flat, from + 1, from + lens[i])]
\* _contiguous_chunks; run_data_parallel puts the replicas' results end to end.
Shards(s, n) ==
  Regrouped(s, [i \in 1 .. n |-> Len(s) \div n + (IF i <= Len(s) % n THEN 1 ELSE 0)])
OnReplicas(s) == IF Replicas = 1 \/ Len(s) <= 1 THEN <<s>> ELSE Shards(s, Replicas)
InBatches(F(_), s) == FlattenSeq(Mapped(F, MakeBatch(s, Chunk)))

(***************************************************************************)
(* Query expansion.                                                         *)
(***************************************************************************)

HyDE(q) == FirstK(LlmLines[q], 1)
MultiQuery(q) == <<q>> \o LlmLines[q]
\* The lines with a colon; none of them, or no decomposition needed: the query.
Decomposed(q) == IF Tail(LlmLines[q]) = <<>> THEN <<q>> ELSE Tail(LlmLines[q])
\* check_expanded_query: no blanks, no repeats, and never nothing.
CheckedQueries(q, lines) ==
  LET kept == Distinct(Those(lines, LAMBDA l : l # Blank)) IN
  IF kept = <<>> THEN <<q>> ELSE kept

(***************************************************************************)
(* Retrieval and fusion.                                                    *)
(***************************************************************************)

\* rrf_pure, scores in 10^-5: rank 1 is the best score, equal scores the same rank.
RankIn(list, id) ==
  1 + Cardinality({i \in DOMAIN list : list[i].score > HitOf(list, id).score})
RrfScore(lists, id) ==
  SumOver([l \in DOMAIN lists |-> IF id \in IdsOf(lists[l])
                                  THEN 100000 \div (60 + RankIn(lists[l], id)) ELSE 0],
          DOMAIN lists)
Merged(lists) == Distinct(Mapped(LAMBDA h : h.id, FlattenSeq(lists)))
Fused(lists) ==
  Best([i \in DOMAIN Merged(lists) |->
          [id |-> Merged(lists)[i], score |-> RrfScore(lists, Merged(lists)[i])]], TopK)

\* An IVF index that probes too few lists finds fewer than it was asked for, or none; a
\* graph finds as many as it holds.
FaissIvf(q) == FirstK(DenseHits[q], TopK)
FaissHnsw(q) ==
  FirstK(DenseHits[q] \o Mapped(LAMBDA id : [id |-> id, score |-> 0],
                                Those(DocOrder, LAMBDA id : id \notin IdsOf(DenseHits[q]))),
         TopK)
StoreHits(index, queries) ==
  Mapped(LAMBDA q : IF index = "ivf" THEN FaissIvf(q) ELSE FaissHnsw(q), queries)
\* VectorDB._pure: every query of every row in one list, searched chunk by chunk (at
\* once with replicas), cut back by row_lens and fused row by row.
VectorSearch(f, index) ==
  LET flat == FlattenSeq(Mapped(LAMBDA r : r.queries, f))
      found == IF Replicas > 1 THEN StoreHits(index, flat)
               ELSE InBatches(LAMBDA s : StoreHits(index, s), flat)
      regrouped == Regrouped(found, Mapped(LAMBDA r : Len(r.queries), f)) IN
  [i \in DOMAIN f |-> [f[i] EXCEPT !.semantic = Fused(regrouped[i])]]

\* bm25_pure, row by row.
LexicalSearch(f) ==
  Mapped(LAMBDA r : [r EXCEPT !.lexical =
                       Fused(Mapped(LAMBDA q : FirstK(SparseHits[q], TopK), r.queries))], f)

\* hybrid_cc, weight 1/2: an arm without a hit has no maximum; one whose scores are all
\* equal divides by zero, and what is not a number counts as 0, as does a missing hit.
ScoresOf(hits) == {hits[i].score : i \in DOMAIN hits}
Scale(hits, score, low) ==
  LET high == Max(ScoresOf(hits)) IN
  IF high = low THEN 0 ELSE (100 * (score - low)) \div (high - low)
MinMax(hits, score) == Scale(hits, score, Min(ScoresOf(hits)))
TheoreticalMin(hits, score) == Scale(hits, score, 0)
Weighted(arm, id, low) ==
  IF id \notin IdsOf(arm) THEN 0
  ELSE IF low = "zero" THEN TheoreticalMin(arm, HitOf(arm, id).score)
  ELSE MinMax(arm, HitOf(arm, id).score)
Combined(r, low) ==
  LET ids == Merged(<<r.semantic, r.lexical>>) IN
  Best([i \in DOMAIN ids |->
          [id |-> ids[i],
           score |-> Weighted(r.semantic, ids[i], low) + Weighted(r.lexical, ids[i], low)]], TopK)
ArmMissing(r) == r.semantic = <<>> \/ r.lexical = <<>>
HybridCC(f, low) == Mapped(LAMBDA r : WithHits(r, Combined(r, low)), f)
HybridRRF(f) == Mapped(LAMBDA r : WithHits(r, Fused(<<r.semantic, r.lexical>>)), f)

(***************************************************************************)
(* Filters, augmenter and rerankers. None of them takes a row without a      *)
(* hit: there is no first, no largest, or zip(star []) has nothing to        *)
(* unpack. One such row fails the frame.                                    *)
(***************************************************************************)

EmptyRow(r) == Hits(r) = <<>>
\* What looks the ids up in the corpus raises when the contents stand in their column.
NotFound(r) == EmptyRow(r) \/ swapped
RowByRow(f, New(_)) == Mapped(LAMBDA r : WithHits(r, New(r)), f)

\* embedding_query_content: all contents in one list, cut back by their lengths.
Flat(f) == FlattenSeq(Mapped(LAMBDA r : Mapped(LAMBDA h : <<r.query, TextOf(h.id)>>, Hits(r)), f))
ModelScores(pairs) == Mapped(LAMBDA p : Relevance[p[1]][p[2]], pairs)
Lengths(f) == Mapped(LAMBDA r : Len(Hits(r)), f)
Similarities(f) == Regrouped(InBatches(ModelScores, Flat(f)), Lengths(f))

Kept(r, keep, default) == IF keep = <<>> THEN <<default>> ELSE keep
ThresholdCutoff(r, t) ==
  Kept(r, Those(Hits(r), LAMBDA h : h.score >= t), ByScore(Hits(r))[1])
\* PercentileCutoff: one length for every row, half of the first row's.
PercentileCutoff(f) ==
  LET k == Len(Hits(f[1])) \div 2 IN
  Mapped(LAMBDA r : WithHits(r, Best(Hits(r), IF k = 0 THEN 1 ELSE k)), f)
BySimilarity(f, i) == ByScore(WithScores(Hits(f[i]), Similarities(f)[i]))
SimilarityThreshold(f, t) ==
  [i \in DOMAIN f |->
     WithHits(f[i], Kept(f[i], Those(Hits(f[i]), LAMBDA h : Relevance[f[i].query][h.id] >= t),
                         HitOf(Hits(f[i]), BySimilarity(f, i)[1].id)))]
\* Its similarities are sorted beside (ids, contents) and come back as (contents, ids).
SimilarityPercentile(f) ==
  [i \in DOMAIN f |->
     LET k == Len(Hits(f[i])) \div 2 IN
     WithHits(f[i], Mapped(LAMBDA h : HitOf(Hits(f[i]), h.id),
                           FirstK(BySimilarity(f, i), IF k = 0 THEN 1 ELSE k)))]
Newest(hits) == Ordered(hits, LAMBDA a, b : Modified[a.id] > Modified[b.id])
RecencyFilter(r, since) ==
  Kept(r, Those(Hits(r), LAMBDA h : Modified[h.id] >= since), Newest(Hits(r))[1])

\* prev_next_augmenter_pure, mode both, one passage: repeats stay.
Around(id) ==
  LET at == CHOOSE i \in DOMAIN DocOrder : DocOrder[i] = id IN
  SubSeq(DocOrder, IF at = 1 THEN 1 ELSE at - 1, IF at = Len(DocOrder) THEN at ELSE at + 1)
Augmented(r) ==
  LET ids == FlattenSeq(Mapped(LAMBDA h : Around(h.id), Hits(r))) IN
  Best(Mapped(LAMBDA id : [id |-> id, score |-> Relevance[r.query][id]], ids), TopK)

\* rerank_flatten_apply_dp: the pairs of all rows over the replicas, in batches, cut
\* back into rows; each row sorted, and its best kept.
BestOfRows(f, scores, k) ==
  [i \in DOMAIN f |-> WithHits(f[i], Best(WithScores(Hits(f[i]), scores[i]), k))]
Ranked(f, scores) == BestOfRows(f, scores, TopK)
\* tart_run_model: the query and the content of each pair in a list of its own.
TartScores(pairs) ==
  LET queries == Mapped(LAMBDA p : p[1], pairs)
      contents == Mapped(LAMBDA p : p[2], pairs) IN
  [i \in DOMAIN pairs |-> Relevance[queries[i]][contents[i]]]
BatchScores(model, s) ==
  IF model = "tart" THEN InBatches(TartScores, s) ELSE InBatches(ModelScores, s)
PairScores(f, model) ==
  Regrouped(FlattenSeq(Mapped(LAMBDA s : BatchScores(model, s), OnReplicas(Flat(f)))), Lengths(f))
CrossEncoder(f) == Ranked(f, PairScores(f, "cross_encoder"))
\* Without a top_k, it keeps one passage.
SentenceTransformer(f) == BestOfRows(f, PairScores(f, "sentence_transformer"), 1)
Tart(f) == Ranked(f, PairScores(f, "tart"))
\* ko-reranker: a row's scores are made shares of their sum (percent).
KoReranker(f) ==
  LET flat == Regrouped(InBatches(ModelScores, Flat(f)), Lengths(f)) IN
  Ranked(f, Mapped(LAMBDA row : [j \in DOMAIN row |->
                                   (100 * row[j]) \div SumOver(row, DOMAIN row)], flat))
\* UPR: the less a passage is surprised by its query the better, row by row.
Upr(r) ==
  FirstK(Ordered(WithScores(Hits(r), Mapped(LAMBDA t : 9 - Relevance[r.query][t], Texts(r))),
                 LAMBDA a, b : a.score < b.score), TopK)
\* flashrank: flatten_apply, without replicas.
FlashRank(f) == Ranked(f, Regrouped(InBatches(ModelScores, Flat(f)), Lengths(f)))
\* monot5: a forward pass scores all its pairs at the last step that any of them takes.
StepScores(pairs) ==
  LET last == Max({AnswerSteps[p[1]][p[2]] : p \in ToSet(pairs)}) IN
  Mapped(LAMBDA p : StepScore[last][p[1]][p[2]], pairs)
UnevenSteps(f) == \E p, q \in ToSet(Flat(f)) : AnswerSteps[p[1]][p[2]] # AnswerSteps[q[1]][q[2]]
\* monot5_run_model: a batch out of memory is run again in halves, down to one pair.
Fitting(n, fits) == Max({n, n \div 2, n \div 4, 1} \cap 1 .. fits)
MicroBatches(pairs, fits) ==
  FlattenSeq(Mapped(LAMBDA b : FlattenSeq(Mapped(StepScores, MakeBatch(b, Fitting(Len(b), fits)))),
                    MakeBatch(pairs, Chunk)))
MonoT5(f, fits) ==
  Ranked(f, Regrouped(FlattenSeq(Mapped(LAMBDA s : MicroBatches(s, fits), OnReplicas(Flat(f)))),
                      Lengths(f)))
\* get_colbert_embedding_batch: a replica pads its strings to the longest of them, and
\* get_colbert_score takes the padding's vectors for tokens.
Padded(strings) ==
  LET width == Max({Tokens[t] : t \in ToSet(strings)}) IN
  Mapped(LAMBDA t : [of |-> t, width |-> width], strings)
Embedded(strings) == FlattenSeq(Mapped(Padded, OnReplicas(strings)))
ColbertScore(query, text) == LateScore[query.of][text.of][query.width][text.width]
UnevenTokens(f) ==
  \E p, q \in ToSet(Flat(f)) : Tokens[p[1]] # Tokens[q[1]] \/ Tokens[p[2]] # Tokens[q[2]]
\* colbert: queries and contents embedded apart, each over the replicas.
Colbert(f) ==
  LET queries == Embedded(Mapped(LAMBDA r : r.query, f))
      texts == Regrouped(Embedded(FlattenSeq(Mapped(Texts, f))), Lengths(f)) IN
  Ranked(f, [i \in DOMAIN f |-> Mapped(LAMBDA t : ColbertScore(queries[i], t), texts[i])])
\* The hosted rerankers, a request per row: the best of the server's indices.
HostedRerank(r) ==
  Best(WithScores(Hits(r), Mapped(LAMBDA t : Relevance[r.query][t], Texts(r))), TopK)
\* Jina answers a refused request without results: that is an error.
JinaRaises(r, refused) == EmptyRow(r) \/ r.query \in refused
\* nvidia_rerank_pure refuses rankings of another length.
NvidiaRaises(r, short) == EmptyRow(r) \/ r.query \in short
\* RankGPT: the model's permutation, scored evenly from 1 to 0 (in percent).
RankGpt(r) ==
  LET n == Len(HostedRerank(r)) IN
  [i \in 1 .. n |-> [id |-> HostedRerank(r)[i].id,
                     score |-> IF n = 1 THEN 100 ELSE 100 - (100 * (i - 1)) \div (n - 1)]]
TimeRerank(r) == FirstK(Newest(Hits(r)), TopK)

(***************************************************************************)
(* Compressors and prompt makers. A compressor leaves one text per row and  *)
(* the ids and scores as they were.                                         *)
(***************************************************************************)

Compressed(r, text) == [r EXCEPT !.texts = <<text>>]
Squeezed(texts) == Mapped(LAMBDA t : <<"short", t>>, texts)
\* _compress_query_batch: all contents at once, cut back by their counts, or row by row
\* when as many do not come back.
LLMLingua2(f, ragged) ==
  LET flat == FlattenSeq(Mapped(Texts, f))
      cut == Regrouped(Squeezed(flat), Mapped(LAMBDA r : Len(Texts(r)), f)) IN
  [i \in DOMAIN f |-> Compressed(f[i], IF ragged THEN Squeezed(Texts(f[i])) ELSE cut[i])]
\* Refine: five attempts a row, all rows gathered.
Refine(f) == Mapped(LAMBDA r : Compressed(r, <<"refined", r.query, Texts(r)>>), f)
TreeSummarize(f) == Mapped(LAMBDA r : Compressed(r, <<"summary", r.query, Texts(r)>>), f)

Fstring(r) == Texts(r)
\* The best content once more at the end, unless scores and contents do not match.
LongContextReorder(r) ==
  IF Len(Texts(r)) # Len(Hits(r)) \/ Hits(r) = <<>> THEN Texts(r)
  ELSE Append(Texts(r), Texts(r)[CHOOSE i \in DOMAIN Hits(r) :
                                   /\ \A j \in DOMAIN Hits(r) : Hits(r)[j].score <= Hits(r)[i].score
                                   /\ \A j \in 1 .. i - 1 : Hits(r)[j].score < Hits(r)[i].score])
\* zip of contents and metadata: a compressed text gives way to the first hit's window.
WindowReplacement(r) ==
  [i \in DOMAIN FirstK(Texts(r), Len(Hits(r))) |-> <<"window", Hits(r)[i].id>>]

(***************************************************************************)
(* The nodes. A pipeline passes the stages in order and may leave any out.   *)
(***************************************************************************)

\* A row that a node raises on takes its frame with it.
Breaks(f, Bad(_)) == \E i \in DOMAIN f : Bad(f[i])
Left(f, Bad(_), New(_)) == IF Breaks(f, Bad) THEN <<>> ELSE New(f)
Node(n, Bad(_), New(_)) ==
  /\ stage < n /\ stage' = n
  /\ rows' = Left(rows, Bad, New) /\ raised' = (raised \/ Breaks(rows, Bad))
  /\ alone' = [c \in DOMAIN alone |-> Left(alone[c], Bad, New)]
  /\ failed' = failed \cup {c \in DOMAIN alone : Breaks(alone[c], Bad)}
Every(P(_)) == \A c \in DOMAIN alone : \A i \in DOMAIN alone[c] : P(alone[c][i])
NoRow(r) == FALSE
Unmarked == UNCHANGED <<swapped, uneven>>

ExpandRow(r, Of(_)) == [r EXCEPT !.queries = CheckedQueries(r.query, Of(r.query))]
QueryExpansion ==
  /\ Unmarked
  /\ \/ Node(1, NoRow, LAMBDA f : Mapped(LAMBDA r : ExpandRow(r, HyDE), f))
     \/ Node(1, NoRow, LAMBDA f : Mapped(LAMBDA r : ExpandRow(r, MultiQuery), f))
     \/ Node(1, NoRow, LAMBDA f : Mapped(LAMBDA r : ExpandRow(r, Decomposed), f))
SemanticRetrieval ==
  /\ Unmarked
  /\ \/ Node(2, NoRow, LAMBDA f : VectorSearch(f, "ivf"))
     \/ Node(2, NoRow, LAMBDA f : VectorSearch(f, "hnsw"))
LexicalRetrieval == Node(3, NoRow, LexicalSearch) /\ Unmarked
HybridRetrieval ==
  /\ Unmarked /\ Every(LAMBDA r : r.semantic # NoHits /\ r.lexical # NoHits)
  /\ \/ Node(4, NoRow, HybridRRF)
     \/ Node(4, ArmMissing, LAMBDA f : HybridCC(f, "minimum"))
     \/ Node(4, ArmMissing, LAMBDA f : HybridCC(f, "zero"))
PassageFilter ==
  /\ Every(Retrieved)
  /\ \/ /\ Unmarked
        /\ \/ Node(5, EmptyRow, LAMBDA f : RowByRow(f, LAMBDA r : ThresholdCutoff(r, 3)))
           \/ Node(5, EmptyRow, LAMBDA f : SimilarityThreshold(f, 2))
           \/ Node(5, EmptyRow, LAMBDA f : RowByRow(f, LAMBDA r : RecencyFilter(r, 3)))
     \/ Node(5, EmptyRow, SimilarityPercentile) /\ swapped' = TRUE /\ UNCHANGED uneven
     \/ /\ Node(5, EmptyRow, PercentileCutoff) /\ UNCHANGED swapped
        /\ uneven' = (\E i, j \in DOMAIN rows : Len(Hits(rows[i])) # Len(Hits(rows[j])))
PassageAugmenter ==
  Every(Retrieved) /\ Node(6, NotFound, LAMBDA f : RowByRow(f, Augmented)) /\ Unmarked
PassageReranker ==
  /\ Every(Retrieved) /\ Unmarked
  /\ \/ Node(7, EmptyRow, CrossEncoder)
     \/ Node(7, EmptyRow, FlashRank)
     \/ Node(7, EmptyRow, SentenceTransformer)
     \/ Node(7, EmptyRow, Tart)
     \/ Node(7, EmptyRow, KoReranker)
     \/ Node(7, EmptyRow, LAMBDA f : RowByRow(f, HostedRerank))
     \/ Node(7, EmptyRow, LAMBDA f : RowByRow(f, Upr))
     \/ \E some \in SUBSET Asked :
          \/ Node(7, LAMBDA r : NvidiaRaises(r, some), LAMBDA f : RowByRow(f, HostedRerank))
          \/ Node(7, LAMBDA r : JinaRaises(r, some), LAMBDA f : RowByRow(f, HostedRerank))
     \/ Node(7, EmptyRow, LAMBDA f : RowByRow(f, RankGpt))
     \/ Node(7, NotFound, LAMBDA f : RowByRow(f, TimeRerank))
\* The two that measure what they score by the longest beside it.
BatchedReranker ==
  /\ Every(Retrieved) /\ UNCHANGED swapped
  /\ \/ /\ Node(7, EmptyRow, Colbert)
        /\ uneven' = (uneven \/ UnevenTokens(rows))
     \/ /\ \E fits \in 0 .. Chunk :
             Node(7, LAMBDA r : EmptyRow(r) \/ fits = 0, LAMBDA f : MonoT5(f, fits))
        /\ uneven' = (uneven \/ UnevenSteps(rows))
PassageCompressor ==
  /\ Every(Retrieved) /\ Unmarked
  /\ \/ \E ragged \in BOOLEAN : Node(8, NoRow, LAMBDA f : LLMLingua2(f, ragged))
     \/ \E down \in SUBSET Asked :
          \/ Node(8, LAMBDA r : r.query \in down, Refine)
          \/ Node(8, LAMBDA r : r.query \in down, TreeSummarize)
PromptMaker ==
  /\ Every(Retrieved) /\ Unmarked
  /\ \/ Node(9, NoRow, LAMBDA f : Mapped(LAMBDA r : [r EXCEPT !.prompt = Fstring(r)], f))
     \/ Node(9, NoRow, LAMBDA f : Mapped(LAMBDA r : [r EXCEPT !.prompt = LongContextReorder(r)], f))
     \/ Node(9, LAMBDA r : swapped, LAMBDA f : Mapped(LAMBDA r : [r EXCEPT !.prompt = WindowReplacement(r)], f))

NodesNext ==
  \/ QueryExpansion \/ SemanticRetrieval \/ LexicalRetrieval \/ HybridRetrieval
  \/ PassageFilter \/ PassageAugmenter \/ PassageReranker \/ BatchedReranker
  \/ PassageCompressor \/ PromptMaker

NodesSpec == NodesInit /\ [][NodesNext]_nodeVars

(***************************************************************************)
(* Property.                                                                *)
(***************************************************************************)

\* Whom a call shares its batch with does not show in its rows: the frame is the calls'
\* own frames end to end, whatever was flattened, chunked, sharded and cut back between.
\* Four things do show. A call that a node raises on takes its batch with it, and only
\* such a call does. And three nodes measure rows by the rows beside them, which can show
\* only in an uneven batch (the history variable is set there and nowhere else):
\* PercentileCutoff cuts every row to half of the first one's length; colbert pads its
\* queries and texts to the longest of them and scores the padding; monot5 scores a pair
\* at the last step of its forward batch, against "scores are batching-invariant"
\* (monot5.py:321). See README.
BatchingIsInvisible ==
  /\ raised <=> failed # {}
  /\ ~raised /\ ~uneven => rows = FlattenSeq(alone)
===============================================================================
