----------------------------- MODULE VectorIngest -----------------------------
(***************************************************************************)
(* What an evaluation does with its indexes before it retrieves             *)
(* (_ingest_bm25, _ingest_vectordb and the store classes): the BM25 pickle  *)
(* of its project, then a FAISS pair under a root that all projects share,  *)
(* found by chunk hash and index parameters. Builders check, load, embed    *)
(* and add in batches, and die at any point; the retrieval node opens the   *)
(* pair read-only.                                                          *)
(*                                                                          *)
(* FaissCache has the files of a pair: here it is there or not, withdrawn   *)
(* before it is written and published at once. An embedding is right for    *)
(* its content; whether it came from the embedding cache is left open.      *)
(***************************************************************************)
EXTENDS Lists, SequencesExt

CONSTANTS Builders,    \* processes, each with a project directory of its own
          IngestJobs,  \* evaluations: [corpus, chunked, api, kind, lists]
          DocIds,      \* the doc ids of each corpus
          EmbedBatch,  \* embedding_batch
          NoPair

\* A corpus has documents, each id once, and an index at least one list (IVF) or link
\* (HNSW). An evaluation names a corpus that is there.
ASSUME IngestAssumption ==
  /\ EmbedBatch \in Nat \ {0} /\ NoPair \notin Builders /\ IngestJobs # {}
  /\ \A j \in IngestJobs :
       /\ j.corpus \in DOMAIN DocIds /\ j.lists \in Nat \ {0} /\ j.kind \in {"ivf", "hnsw"}
       /\ NoPair \notin [ids : Seq(ToSet(DocIds[j.corpus])), kind : {j.kind}, lists : {j.lists}]
  /\ \A c \in DOMAIN DocIds :
       /\ DocIds[c] \in Seq(ToSet(DocIds[c])) \ {<<>>} /\ IsInjective(DocIds[c])

VARIABLES pair,    \* per path: NoPair, or [ids, kind, lists]
          owner,   \* per path: who holds the build lock
          pickled, \* per project: the corpus of its BM25 pickle
          doing,   \* per builder: its step
          job,     \* its evaluation
          memory,  \* its index: the ids in their order, empty before training
          batches, \* id batches it has still to add
          forward, \* batch size of its encoder
          opened,  \* what its retrieval nodes opened
          lost     \* history: another builder died over its pair meanwhile

ingestVars == <<pair, owner, pickled, doing, job, memory, batches, forward, opened, lost>>

\* _resolve_vectordb_paths: a chunk hash stands for its corpus, no chunking is "none".
PathOf(j) == <<IF j.chunked THEN j.corpus ELSE "none", j.kind, j.lists>>
Paths == {PathOf(j) : j \in IngestJobs}
Path(p) == PathOf(job[p])
Docs(p) == DocIds[job[p].corpus]

\* chunk_cache: the hash of a chunking is of its contents. Two corpora have a path in
\* common only where evaluations of both go without chunking.
KeyedByCorpus == \A j, k \in IngestJobs : PathOf(j) = PathOf(k) => j.corpus = k.corpus

\* Nothing, or pairs that other defaults built.
IngestInit ==
  /\ \E left \in {NoPair, [ids |-> <<"x">>, kind |-> "old", lists |-> 0]} :
       pair = [k \in Paths |-> left]
  /\ owner = [k \in Paths |-> NoPair] /\ pickled = [p \in Builders |-> NoPair]
  /\ doing = [p \in Builders |-> "idle"] /\ job \in [Builders -> {CHOOSE j \in IngestJobs : TRUE}]
  /\ memory = [p \in Builders |-> <<>>] /\ batches = [p \in Builders |-> <<>>]
  /\ forward = [p \in Builders |-> EmbedBatch]
  /\ opened = [p \in Builders |-> NoPair] /\ lost = [p \in Builders |-> FALSE]

BuildStep(p, from, to) == doing[p] = from /\ doing' = [doing EXCEPT ![p] = to]
Stored == <<pair, owner, pickled>>
Work == <<memory, batches, forward>>

NewEvaluation(p, j) ==
  /\ BuildStep(p, "idle", "bm25") /\ job' = [job EXCEPT ![p] = j]
  /\ opened' = [opened EXCEPT ![p] = NoPair] /\ lost' = [lost EXCEPT ![p] = FALSE]
  /\ memory' = [memory EXCEPT ![p] = <<>>] /\ UNCHANGED <<Stored, batches, forward>>

\* bm25_ingest: kept when it is of these ids and contents, else replaced as one file.
Pickle(p) == job[p].corpus
IngestBm25(p) ==
  /\ BuildStep(p, "bm25", "check") /\ pickled' = [pickled EXCEPT ![p] = Pickle(p)]
  /\ UNCHANGED <<pair, owner, job, Work, opened, lost>>

\* _load_if_exists: a pair of the configured shape; _cached_faiss_vectordb_ready: and
\* of as many rows as the corpus.
IvfShape(x, j) == x.kind = "ivf" /\ x.lists = j.lists
HnswShape(x, j) == x.lists = j.lists
Shaped(x, j) == x # NoPair /\ (IF j.kind = "ivf" THEN IvfShape(x, j) ELSE HnswShape(x, j))
StoreOfAnyRows(x, j) == Shaped(x, j)
StoreOfCorpus(x, j) == Shaped(x, j) /\ Len(x.ids) = Len(DocIds[j.corpus])
Loaded(p) == IF Shaped(pair[Path(p)], job[p]) THEN pair[Path(p)].ids ELSE <<>>

\* The fast skip waits for the build lock; a load does not.
FastSkip(p) ==
  /\ owner[Path(p)] = NoPair
  /\ BuildStep(p, "check", IF StoreOfCorpus(pair[Path(p)], job[p]) THEN "open" ELSE "load")
  /\ UNCHANGED <<Stored, job, Work, opened, lost>>

Lacking(ids, have) == Picked(ids, {i \in DOMAIN ids : ~Contains(have, ids[i])})
Chunked(ids) == MakeBatch(ids, EmbedBatch)

\* filter_exist_ids: an API model embeds batch by batch, a local one all at once.
LoadStore(p) ==
  LET new == Lacking(Docs(p), Loaded(p)) IN
  /\ BuildStep(p, "load", IF new = <<>> THEN "open" ELSE IF job[p].api THEN "add" ELSE "encode")
  /\ memory' = [memory EXCEPT ![p] = Loaded(p)]
  /\ batches' = [batches EXCEPT ![p] = IF job[p].api THEN Chunked(new) ELSE <<new>>]
  /\ forward' = [forward EXCEPT ![p] = EmbedBatch] /\ UNCHANGED <<Stored, job, opened, lost>>

\* get_or_encode: a hit, or all of the contents encoded.
Encode(p) ==
  /\ BuildStep(p, "encode", "add") /\ forward' = [forward EXCEPT ![p] = EmbedBatch]
  /\ UNCHANGED <<Stored, job, memory, batches, opened, lost>>
\* CUDA runs out of memory: half the batch, and in the end the error.
EncodeOom(p) ==
  /\ BuildStep(p, "encode", IF forward[p] = 1 THEN "idle" ELSE "encode")
  /\ forward' = [forward EXCEPT ![p] = IF @ = 1 THEN EmbedBatch ELSE @ \div 2]
  /\ UNCHANGED <<Stored, job, memory, batches, opened, lost>>

\* add_embedding. A batch that memory holds is skipped before the lock.
Has(ids, batch) == \A i \in ToSet(batch) : Contains(ids, i)
AfterBatch(p) == IF Len(batches[p]) = 1 THEN "open" ELSE "add"
SkipBatch(p) ==
  /\ BuildStep(p, "add", AfterBatch(p)) /\ memory[p] # <<>> /\ Has(memory[p], Head(batches[p]))
  /\ batches' = [batches EXCEPT ![p] = Tail(@)]
  /\ UNCHANGED <<Stored, job, memory, forward, opened, lost>>
LockPair(p) ==
  /\ BuildStep(p, "add", "locked") /\ ~(memory[p] # <<>> /\ Has(memory[p], Head(batches[p])))
  /\ owner[Path(p)] = NoPair /\ owner' = [owner EXCEPT ![Path(p)] = p]
  /\ UNCHANGED <<pair, pickled, job, Work, opened, lost>>

Unlocked(p) == [owner EXCEPT ![Path(p)] = NoPair]
\* Under the lock: the pair as it is by now replaces what was in memory, and a pair
\* of another shape is removed.
Reload(p) ==
  LET there == Shaped(pair[Path(p)], job[p])
      all == there /\ Has(Loaded(p), Head(batches[p])) IN
  /\ BuildStep(p, "locked", IF all THEN AfterBatch(p) ELSE "build")
  /\ memory' = [memory EXCEPT ![p] = Loaded(p)]
  /\ pair' = (IF there THEN pair ELSE [pair EXCEPT ![Path(p)] = NoPair])
  /\ IF all THEN owner' = Unlocked(p) /\ batches' = [batches EXCEPT ![p] = Tail(@)]
            ELSE UNCHANGED <<owner, batches>>
  /\ UNCHANGED <<pickled, job, forward, opened, lost>>

\* The rest of the batch is added, to an IVF index that is trained on its first batch
\* or to a graph that needs no training, and the pair is withdrawn to be rewritten.
New(p) == Lacking(Head(batches[p]), memory[p])
Trainable(p) == memory[p] # <<>> \/ Len(Head(batches[p])) >= job[p].lists
Added(p) ==
  /\ BuildStep(p, "build", "save") /\ memory' = [memory EXCEPT ![p] = @ \o New(p)]
  /\ pair' = [pair EXCEPT ![Path(p)] = NoPair]
  /\ UNCHANGED <<owner, pickled, job, batches, forward, opened, lost>>
AddIvf(p) == job[p].kind = "ivf" /\ Added(p) /\ Trainable(p)
AddHnsw(p) == job[p].kind = "hnsw" /\ Added(p)
PublishPair(p) ==
  /\ BuildStep(p, "save", AfterBatch(p)) /\ owner' = Unlocked(p)
  /\ pair' = [pair EXCEPT ![Path(p)] =
                [ids |-> memory[p], kind |-> job[p].kind, lists |-> job[p].lists]]
  /\ batches' = [batches EXCEPT ![p] = Tail(@)]
  /\ UNCHANGED <<pickled, job, memory, forward, opened, lost>>

\* The evaluation ends: untrainable with fewer vectors than lists, a failed write, a
\* failed request, or a kill. A pair withdrawn by then stays so, whoever uses it.
EndsOver(p, steps) ==
  /\ doing[p] \in steps /\ doing' = [doing EXCEPT ![p] = "idle"]
  /\ memory' = [memory EXCEPT ![p] = <<>>] /\ batches' = [batches EXCEPT ![p] = <<>>]
  /\ owner' = (IF owner[Path(p)] = p THEN Unlocked(p) ELSE owner)
  /\ lost' = [q \in Builders |->
                lost[q] \/ (q # p /\ doing[p] = "save" /\ Path(q) = Path(p))]
  /\ forward' = [forward EXCEPT ![p] = EmbedBatch]
  /\ UNCHANGED <<pair, pickled, job, opened>>
Untrainable(p) ==
  EndsOver(p, {"build"}) /\ job[p].kind = "ivf" /\ ~Trainable(p)
AddFails(p) == EndsOver(p, {"build", "save"}) \/ (job[p].api /\ EndsOver(p, {"add"}))
BuilderDies(p) == EndsOver(p, {"bm25", "check", "load", "encode", "add", "locked", "build", "save"})

\* VectorDB and BM25 open what is there, read-only; a store that is not is an error.
OpenStore(p) ==
  /\ BuildStep(p, "open", "idle")
  /\ opened' = [opened EXCEPT ![p] = IF Shaped(pair[Path(p)], job[p])
                                     THEN [dense |-> Loaded(p), sparse |-> pickled[p]] ELSE NoPair]
  /\ memory' = [memory EXCEPT ![p] = <<>>] /\ UNCHANGED <<Stored, job, batches, forward, lost>>

IngestNext ==
  \E p \in Builders :
    \/ IngestBm25(p) \/ FastSkip(p) \/ LoadStore(p) \/ Encode(p) \/ EncodeOom(p)
    \/ SkipBatch(p) \/ LockPair(p) \/ Reload(p) \/ AddIvf(p) \/ AddHnsw(p)
    \/ PublishPair(p) \/ Untrainable(p) \/ AddFails(p) \/ BuilderDies(p) \/ OpenStore(p)
    \/ \E j \in IngestJobs : NewEvaluation(p, j)

IngestSpec == IngestInit /\ [][IngestNext]_ingestVars

(***************************************************************************)
(* Properties.                                                              *)
(***************************************************************************)

\* What the retrieval nodes open is there and is the evaluation's corpus: the pickle's,
\* and in the store every id once, whoever built, raced or died before or beside it.
\* Only a builder that died over the same pair meanwhile can take batches from it.
IngestCoversTheCorpus ==
  \A p \in Builders :
    /\ doing[p] = "open" /\ ~lost[p] => Shaped(pair[Path(p)], job[p])
    /\ opened[p] # NoPair =>
       /\ opened[p].sparse = job[p].corpus
       /\ IsInjective(opened[p].dense) /\ ToSet(opened[p].dense) \subseteq ToSet(Docs(p))
       /\ ~lost[p] => ToSet(opened[p].dense) = ToSet(Docs(p))

\* cache_paths: indexes are "keyed by a content hash", so a store holds no other
\* corpus's documents.
StoresHoldTheirCorpus ==
  \A p \in Builders :
    opened[p] # NoPair => ToSet(opened[p].dense) \subseteq ToSet(Docs(p))
=============================================================================
