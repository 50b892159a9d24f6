# A verification project for RAG-Stack-Evaluator

RAG-Stack-Evaluator measures retrieval-augmented generation pipelines. A
*static* evaluator runs a pipeline over a dataset for quality; a *measured*
evaluator deploys it (vLLM engines, auxiliary processes, FAISS indices), keeps
it under closed-loop load and reports throughput and latency as ground truth
for a cost model. A wrong number that looks right is the failure that matters:
a window that measured the start-up, a population that shrank unseen, a permit
lost to a cancellation so that an engine is never full. Nothing crashes when
these go wrong, and a test that waits for one specific interleaving of asyncio
tasks is hard to write. They are what this project models.

All paths are below `src/rag_stack_evaluator/static_rag_evaluator/` unless they
start with `src/`.

## Inventory

| Component | State | Operations | What is hard | Modules |
|---|---|---|---|---|
| Batched stage service (`measured/serving_runtime.py`, `BatchedPureStageService`) | queued items with futures, closed flag, worker task, one-thread executor | `run`, its cancellation, `_worker`/`_next_batch`/`_run_batch`, `close` | a condition variable with a timed wait; cancellation of callers, worker and `close`; results for cancelled futures | `BatchedStage`, `StageCalls` |
| LLM stage and prefill/decode admission (`serving_runtime.py`, `measured/vllm_pd_pair.py`) | three semaphores, leases, counters, pinned KV handles | `generate_text`, `_acquire_role`, `_release_role`, `_gen_one`, `_raw_post` | a permit held across a handoff, grants meeting cancellations, retries | `PdAdmission` |
| Closed-loop measurement (`MeasuredServingRuntime._run_closed_loop_saturated`) | driver tasks, admission order, first completions, trace reservoir, window, monitors | driver loop, timers, drain, fill, cancel, abort | five kinds of tasks race to open, close, reject or abort one window | `ClosedLoop` |
| Population adapter (same) | epochs of samples, tracked candidate, its start and span, population | `population_adapter`, `_verdict`, increments | a bottleneck that moves, vanishes and returns; workload support that completes between two epochs | `PopulationAdapter` |
| Request path and ReAct (same) | stage and round of each request, stage counters, window marks, probes | sequential path, ReAct loop, `mark_window_start/end`, `stats` | counters that start before the window and run on after it; the round cap | `RequestPath` |
| Evidence and admissibility (same) | none | rate proof, wall budget, spans, bins, stationarity, verdict, admission order, completion sample | off-by-one at span boundaries, bins that alias the waves of a batch | `Evidence` |
| Trials (`provider.py`, `evaluator.py`, `cache.py`, `vllm_deployment.py`, `vllm_subprocess.py`, `vllm_pd_pair.py`, `aux_process.py`) | model cache and slots, process groups, port blocks, children, memo | `evaluate`, launch, health, evict, shutdown, reclaim | partial launches, ports lost before they are bound, leaders that die before their workers | `Deployment` |
| Card plan (`vllm_deployment.py`, `gpu_mem.py`) | utilization of each engine | plan, launch probe, sizes of gates and populations | shares planned before anything runs, claimed from what is free then | `GpuPlan` |
| Engine client (`vllm_subprocess.py`, `vllm_pd_pair.py`) | HTTP session per event loop, streams | `generate_batch`, one retry, request budgets, server command | stale connections and loops, a gather that fails early, context limits from three sources | `EngineClient` |
| In-process engines (`nodes/generator/vllm.py`, `engine_slot.py`, `schema/base.py`) | one slot, device pin, live engine cores | place, build, generate, `clear`, `__del__`, sweep | an exception keeps a node alive, whose finalizer runs at any time later | `QualityEngines` |
| Answers and scores (`gen_fingerprint.py`, `nodes/generator/run.py`, `static_rag_evaluator.py`) | records by fingerprint, marker files of a run | look up, save, judge, inherit | judging fails, records complete in between | `QualityReuse` |
| Chunk cache (`chunk_cache.py`) | four files of an entry | `get_or_build` | builders that remove and rename under each other | `ChunkCache` |
| Dataset (`dataset.py`) | project files, frame, active view | start, resume, `resolve_corpus`, `activate` | failed copies, crashes, no-op activations | `Dataset` |
| Indexes (`static_rag_evaluator.py`, `vectordb/faiss_ivf.py`, `faiss_hnsw.py`, `bm25.py`) | BM25 pickle, FAISS pairs shared by all projects | fast skip, load, embed, add, open | builders that extend one pair, die, or run out of memory between batches | `VectorIngest` |
| FAISS cache (`vectordb/_faiss_cache.py`) | index, metadata and ready marker; process read cache | atomic save, readiness check, staged reads | crash between two renames; readers without a lock | `FaissCache`, `AtomicPair` |
| Pipeline nodes (`nodes/`, `utils/`) | a frame of rows | expansion, retrieval, fusion, filters, augmenter, rerankers, compressors, prompt makers | flattened, sharded and regrouped rows; rows with nothing in them | `RetrievalNodes` |
| Metrics, schema, other vector databases, instrumentation, scripts | data frames | sequential | algorithms and libraries rather than protocols | none |

How they interact: the provider evaluates a configuration by preparing a
deployment (card plan, engines, children) and running the closed loop. Each
driver sends its request through the stage services in pipeline order; a stage
is batched (its calls share a worker, and the nodes see their rows in one
frame), an LLM stage (its calls pass the semaphores to the engine's client) or
direct. The population adapter reads the queue lengths and counters of the
stages; the closed loop takes its verdict and the evidence. The static
evaluator activates a corpus from the chunk cache, ingests it into the
indexes, runs the nodes with an in-process engine and scores the answers. In
the measured loop everything runs on one asyncio event loop, so code between
two awaits is atomic; the executor thread, the engines and the children are the
only real parallelism, and they meet the loop at an await. Between processes
only files are shared: the project, the chunk cache, the FAISS root.

What makes each component correct:

* batched stage: every call is answered once or cancelled or refused; no call
  is left behind by a missed wake-up or by `close`;
* admission: permits are conserved, the counters tell the truth (they are the
  saturation evidence), pinned handles are bounded, no deadlock;
* closed loop: the window opens only on proof and over a complete population,
  the population stays closed, a result covers every row, traces are kept
  exactly as long as needed, every attempt ends;
* adapter: a verdict's proof was collected under one bottleneck, after support;
* request path: what is exported for the window happened in the window; an
  answer's rounds, searches and truncation agree;
* evidence: steady streams pass, slowed ones do not, nothing is counted twice;
* trials: each starts on a clean slate, is served by its own engines, ends, and
  leaves nothing it knows of behind;
* card plan and client: shares fit the cards, requests fit the context, a call
  leaves nothing running;
* in-process engines: two never hold one card, a broken one is not reused;
* stores: what an evaluation reads - answers, scores, chunks, corpus, indexes -
  is its own, complete and current, whoever built it;
* FAISS cache: a reader sees a complete pair of one generation or none;
* nodes: a row's result does not depend on the rows it was batched with.

## Modules

| Module | Models | Status |
|---|---|---|
| `StageCalls` | abstract: what a batched stage promises its callers | checked and proved as refinement |
| `BatchedStage`, `BatchedStage_proofs` | `BatchedPureStageService` | checked, proved |
| `PdAdmission`, `PdAdmission_proofs` | the stage, prefill and decode gates of a request | checked, proved |
| `ClosedLoop`, `ClosedLoopMC`, `ClosedLoop_proofs` | the closed-loop measurement | checked, proved |
| `PopulationAdapter` | the adapter's epochs and verdicts | checked, proved |
| `RequestPath` | requests through the stages, statistics of the window | checked, proved |
| `EngineClient` | requests to an engine | checked, proved |
| `MeasuredPath_proofs` | proofs about the three above, the plans and the sizes in the two below | |
| `Evidence` | what makes a window's rate evidence | checked, one function proved |
| `GpuPlan` | how engines share cards | checked, proved |
| `Deployment`, `DeploymentMC` | trials and the processes they launch | checked, proved |
| `QualityEngines` | the in-process engines of the quality path | checked, proved |
| `QualityReuse`, `QualityReuseMC` | inherited answers and scores | checked, proved |
| `ChunkCache` | an entry of the chunk cache | checked, proved |
| `Dataset` | the project's files and active corpus | checked, proved |
| `Lifecycle_proofs` | proofs about the five above | |
| `VectorIngest`, `VectorIngestMC` | building and opening the indexes | checked, proved |
| `AtomicPair` | abstract: what the FAISS cache promises about a pair | checked and proved as refinement |
| `FaissCache`, `FaissCacheMC` | writers and readers of one FAISS pair | checked, proved |
| `VectorStore_proofs` | proofs about the three above | |
| `RetrievalNodes`, `RetrievalNodesMC`, `RetrievalNodes_proofs` | the nodes on a batched frame | checked, proved |
| `EvaluatorMC` | eleven of these side by side, for TLC | |
| `Lists` | comprehensions, `sorted`, `make_batch` and `sum` | used by the others |
| `SequenceLemmas` | lists and sums: what the proofs need of them | proved |

### BatchedStage

One action is what a coroutine runs between two awaits. `call[c]` is where
`run()` stands, `fut[c]` its future, `queue` is `self._queue`, `batch` what
`_run_batch` holds, `thread` the executor's thread. A wake-up of the condition
variable (`notified`), an expired `asyncio.wait_for` (`timedOut`) and a
cancellation (`call[c] = "unwinding"`) are delivered in one step and acted on
in a later one, so another coroutine may run in between; this is where the
interesting interleavings are. `armed` is the item whose deadline the timed
wait was computed from. Time is the set `late` of calls that have waited
`timeout_s`; deadlines pass in the order of arrival.

`StageCalls` is the service as a caller sees it: a call is sent, withdrawn,
served together with at most `BatchSize` others, or refused. `KeepsPromise`
says `BatchedStage` implements it, under the refinement mapping `Answer`.

Left out: counters (they are in `RequestPath`) and what the stage does to its
rows (`RetrievalNodes`).

### PdAdmission

A request takes the stage's semaphore, then the prefill gate, posts the
prefill, keeps that permit while it waits for the decode gate (so that pinned
KV blocks stay bounded), releases it when decode admits it, posts the decode
and ends. The three semaphores are asyncio's: a waiter stays in line until its
task runs, a grant goes to the first waiter that has none, and a waiter that is
cancelled after its grant gives it back. `free`, `line` and `granted` are
`_value`, `_waiters` and the done futures. `ready` holds the requests whose KV
blocks are pinned for a later fetch; a request that fails or is cancelled
leaves it, although the producer keeps the orphaned blocks until its own
timeout: the code has no hand in that. The engines are external.

### ClosedLoop

`driver[d]` is where a driver task stands and `request[d]` its request. The
population adapter is reduced to what it does to the rest: it waits for a ramp
to be complete (`AdapterSeesRamp`), adds drivers (`Grow`), or reaches a
verdict; `PopulationAdapter` has how. Whether two spans took about the same
time is left open here (`MayBeStable`); `Evidence` has the rule. `phase` is the
window, `rejected` the warmup's failure, `main` the main task; `first` is the
qid that answered each row first, `recorded` what the trace recorder holds.
`gated` says whether there is a warmup at all (`measured_warmup_queries` may be
0), `llm` whether the pipeline has a continuous stage.

Left out: latency and rate numbers, and the fill's own concurrency limit.

### PopulationAdapter

The loop of `population_adapter`, one action per epoch of five samples.
`CandidateEpoch(current)` is an epoch that found the set `current` of
bottlenecks: the tracked candidate `cand` is kept or replaced, its `start` and
frozen span `eff` set, and perhaps a `verdict` reached. `QuietEpoch` found none:
the population (`drivers`) grows, or, when it is at its cap, a verdict may come
of the rate alone. `SupportEpoch` only resets the tracking when the workload has
just been covered, and `RampCompletes` starts to sample. Which bottlenecks an epoch finds is nondeterministic:
that is a reading of queue lengths at five instants. `held[c]` is a history
variable, the completion count since which `c` was in every epoch. The
adapter's internal checks, which raise `RuntimeError`, lead to `"failed"`.

### RequestPath

`stageOf[r]` is where a request is. A sequential request visits the stages of
`Chain` once each; a ReAct request (`mode`) generates, searches and reranks in
rounds (`Think`) and assembles its answer. `Acquire` and `LeavesEngine` are an
LLM stage, `ServeBatch` and `BatchRaises` a worker stage. `counters` are those
the code keeps from the start of the process, `marks` the snapshots of
`mark_window_start/end`, `peak` the running maximum and `probe` the sampling
indices. `inWindow`, a history variable, counts what really happened while the
window was open. What a sample measures is left out. What the model shows by
not excluding it: `peak` is reset at the start of the window and not read at
its end, so after `mark_window_end` a request of the drain may still raise it;
hence "never below", and equality only while the window is open.

### Evidence

The window is a sequence of `gaps` between waves of completions and a `tail`
after the last; `Summary` and `Admissible` are the verdict the code computes
from it, `SpansSteady`, `Stationary`, `EffectiveSpan` and the others its parts.
Thresholds are compared by cross multiplication, so no rounding is hidden. A
stream changes its regime at most once. Two things a reader of the code may not
expect, both stated in the property's comment: a stream of exactly even waves
so dense that it is judged by five bins of wall time can be refused at twenty
waves (3, 4, 4, 4 and 5 of them fall into the bins); and a stream that has
stopped is judged by the bins only.

### Deployment

The trial loop of `MeasuredProvider` as one sequential process `pc`, with the
`ModelCache`, `VllmDeploymentManager`, the subprocesses and the auxiliary
children beneath it. A trial is a record of what it needs (`Trials`). A unit is
a process group of one engine or of one role of a pair; `group[u]` has its API
process, whether its workers live, and what a tee thread has read of its
output. `ServerDies`, `PortRace`, `WorkersStart`, `ServerUp` and `TeeReads` are
the engines' own doing and interleave with the run. `Killed` is SIGKILL,
`Interrupted` a KeyboardInterrupt, `CorpseGone` the end of a killed engine's
teardown in the driver. `strays` are groups of this user's runs that nobody
holds a handle of; `Enter` reclaims them. The memo, the dirty flag and
`outcome` decide what the finally clause tears down.

A startup ends in one of three ways. The health wait reads a lost port, or a
dead leader whose drained output names one, and the launch is retried; it finds
a dead leader without one, and the trial is invalid; or its deadline passes
(`HealthTimesOut`), and the trial is invalid too, because the deadline raises a plain
`RuntimeError` without a last look at what was printed
(`vllm_subprocess.py:578-581`), which `_register_engine` makes a `TrialInvalid`.
A lost port that was printed meanwhile is then taken for a deployment that does
not fit. `PortRaceIsRetryable` excepts the deadline and says so; without the
exception TLC refutes it.

### GpuPlan

`Planned(i)` is the utilization the layout gives an engine, `Launch` what the
launch makes of it from the memory that is free then; `AuxLoads` and
`StaleLeaves` change what is free in between. The sizes of gates, populations
and parallel groups are functions, checked over bounded arguments. The launch
probe's floors (0.05 of a card, or the weights') may raise an engine *above* its
plan, although the comment at `vllm_deployment.py:70-72` says it only lowers
it; `AsPlanned` names the engines for which the plan holds.

### EngineClient

A call of `generate_batch` posts its prompts under a limit; `post` is where
each is, `over` the call in whose event loop the session it was posted over was
made, `again` whether it is on its one retry, `reply` an answer on its way.
`GatherRaises` is `asyncio.gather` that fails at the first exception while
other requests go on, `LeaveLoop` the end of the call's loop. A session is kept
by `id(loop)`, and a new loop may get the id of a dead one: the measured
runtime closes its session before its loop ends, so it is never posted over
there; a generator node used directly does not, and finds the old session
(`measured` says which; the docstring at `vllm_subprocess.py:998-1000` says such
sessions are dropped). The second half has the fitting of prompt and output cap to the
context and the choice of the server command as functions.

### QualityEngines

`phase[n]` is where a generator node of the quality path stands: placed (its
cards pinned in `CUDA_VISIBLE_DEVICES`), built, generating, dropped. `slot` is
the engine `engine_slot.py` keeps, `cores[n]` the cards of an engine's live core
processes, `broken` those that raised an engine-dead error. A node whose call
raised stays alive with the exception and is collected at any time later
(`Collect`), also while the next evaluation's node is building; its `__del__`
restores the pin it remembers (`prev`, `set`). An exception out of the generation
restores it at once, one raised elsewhere in the call does not (`CallFails`). Only slotted
engines are covered by the promise that two never co-reside: a query expander's
engine and one that spans several cards are not in the slot (`Slotted`).

### QualityReuse

One action is a step of an evaluation: look up the fingerprint, inherit or
generate, save, inherit the score or judge. `record` is the store, `hit` and
`pending` the marker files by which the scoring learns that the answers were
inherited. Judging, saving and generating may fail, in any order, and an
evaluation may be repeated. `answers` are named by the generation that sampled
them, so a score's `of` can be compared with them.

An evaluation runs in one of two directories. `_static_run` is emptied first;
one the caller gives is used as it is (`static_rag_evaluator.py:244-246`,
`497-501`), with the markers of earlier attempts. The model shows what that
does, and the property excepts it by two history variables: `lent`, the
evaluation found a hit marker (if it then generates, the scoring gives its new
answers the named donor's scores), and `soiled`, the fingerprints that pending
markers found so far named (the score of new answers may be attached to such a
record, and whoever inherits it later, in any directory, gets both). Without
either exception TLC refutes the property. A marker may fail to be written or be
half written (`Marked`), and an evaluation without a fingerprint generates
without looking anything up (`GenerateUnkeyed`).

### ChunkCache

Four files of an entry, each absent, of the old or the new scheme, or torn.
Every system call is a step: a removal lists the directory and removes file by
file (`Clear`), a rewrite of the statistics opens, writes and renames a
temporary file that other processes may open, rename or remove meanwhile, and
`handle` is the name an open file has by now. A missing or torn file raises out
of `get_or_build`. `served` is what the caller opened.

### Dataset

The project's files and the frame in memory: a start that is fresh or resumes,
the copies it makes only once, `resolve_corpus`, and `activate`, which copies
and reads back unless the view is the active one. Copies are not atomic: a
crash or an exception leaves a torn file. The fault model is a crash at any
step, a copy or a read that raises, and a restart with the same inputs.

### VectorIngest

Builders in different projects run the evaluator's ingestion: the BM25 pickle of
their own project, then a FAISS pair whose path is derived from the chunk hash
and the parameters. The fast skip looks whether the pair that is there covers the
corpus, the store loads it, embeds in batches that shrink when the encoder runs out of memory
(`EncodeOom`) and adds each batch under the build lock after reloading the pair.
`BuilderDies` may follow any step. `lost` excepts one case from the coverage
property: another builder died over the same pair, which withdraws it with the
batches that both had added; the nodes then open what is left, or nothing.

### FaissCache

A FAISS index and its id map are two files. A writer (`add_embedding`) takes
the build lock, loads the pair if its marker vouches for it, extends it in
memory or rejects and removes it, and saves: marker withdrawn, index renamed,
metadata renamed, marker published. Each of these is a step, and `Fail` may
follow any of them: an exception and a kill leave the same files, and the
kernel frees the lock. `index`, `meta` and `marker` are the files; a file's
identity (size and mtime) is a version of its own for every write, so that two
writes within one clock tick and of one size are not modelled. Readers
(`load_read_only_faiss_pair`) read marker, file attributes, metadata and index
in separate steps and without the build lock; `cache` is their process cache,
`mutex` its lock, `got[t]` what thread t was given. `Prime` is the ingest
check of the static evaluator, which parses the metadata into the same cache.

`AtomicPair` is what a readiness check may see: nothing, or a pair written
together, replaced only by being withdrawn first.

What is *not* promised: a reader that parsed the metadata of one pair can read
the index of its successor if a complete pair is rejected (an I/O error, other
build parameters) and rebuilt with the same number of rows in between. Its
entry then names the old pair. `EntriesAreCurrent` says what holds: such an
entry is never served for a pair that is on disk. The paths are
content-addressed, so the rebuilt pair normally has the same rows.

Left out: other entries of the cache and its byte budget, the node-local copies
of `stage_faiss_read_file`, the search locks.

### RetrievalNodes

The pipeline's nodes one after the other, each module of a node an alternative
of its action. A row is a record of query, hits, contents and prompt; `rows` is
the batch's frame, `alone` the same calls taken through the same nodes one by
one, as a history variable. Every node is applied to both, so the property
compares them after each stage. `Node(n, Bad, New)` is the shape of all of them:
the rows it raises on (`EmptyRow`, `ArmMissing`, a hosted model that refuses)
and what it makes of a frame it does not raise on. A frame that a node raised on is
gone: `raised` says so of the batch, `failed` names the calls that raised by
themselves. The models' answers are constants; the assumptions on them are
what the code relies on (hits are of the corpus, an expander answers a line).

Three nodes measure rows by the rows beside them, and so a call does feel its
company; `uneven`, a history variable, is set where one of them meets a batch in
which that can show, and the property excepts what follows:

* the percentile cutoff takes the number of passages to keep from the first row
  (`percentile_cutoff.py:41`): rows of different lengths;
* colbert pads the queries and the texts of a batch, or of a replica's shard of
  it, to the longest of them (`colbert.py:174-180`) and takes mean and max over
  the padding too (`251-263`): texts or queries of different lengths. `Tokens` is
  the length of a text, `LateScore` what a pair gets at two widths;
* monot5 reads the score from the last step of a batched `generate`
  (`monot5.py:281-289`): pairs that are answered in different numbers of tokens.
  `AnswerSteps` is that number, `StepScore` what a pair gets at a step.

TLC refutes the property when any one of the three is not excepted.

A fourth oddity shows alike in a batch and alone: the similarity percentile
cutoff zips ids before contents and unpacks contents before ids
(`similarity_percentile_cutoff.py:125-136`), so its result has the ids in the
contents' column. `swapped` says so; later nodes rank the ids read as texts
(`IdText`), or raise where they look them up in the corpus (`NotFound`).

### EvaluatorMC

The eleven modules `QualityEngines` to `EngineClient` of the run `evaluator`
share no variable and no step. Their product would say nothing that the parts
do not, so `part` chooses one to move from all of its initial states while the
others rest in one of theirs. No property relates two parts. The price is one
run for eleven questions; each part's properties, mutants and bounds are its own.

## Runs

| Run | Question | Bounds |
|---|---|---|
| `batched` | Is every call answered once, cancelled or refused? Does close end? | 3 calls, batches of 2, timed |
| `pd` | Are permits, counters and handles right? Does every request end? | 3 requests, one sequence per engine, stage limit 3 |
| `loop` | Is the window sound, the population closed, the result complete? | 2 + 1 drivers, 2 rows, spans of 1, sample of 1, 8 sequence numbers |
| `loop_live` | Does every attempt end? | 1 + 1 drivers, 2 rows |
| `faiss` | Is an accepted pair whole, are readers' entries current? | 2 writers, 2 threads, 2 ids, 6 files written |
| `deployment` | Does a trial start clean, find its engines, end, and leave nothing? | 5 kinds of trial over 2 engines and a pair, 2 cards, 2 port blocks |
| `evaluator` | The eleven parts of `EvaluatorMC` | below |
| `loop_abort` (violation) | Do drivers survive an abort? | as `loop` |
| `deploy_stray` (violation) | Do workers of a dead engine survive its shutdown? | as `deployment` |
| `quality_subset` (violation) | Does an evaluation return the metrics it asked for? | 2 fingerprints, 2 metric sets |
| `dataset_stale` (violation) | Is the active corpus the one on disk? | 2 chunkings |
| `ingest_shared` (violation) | Does a store hold only its own corpus? | 2 projects |

The parts of `evaluator`:

| Part | Properties | Bounds |
|---|---|---|
| `QualityEngines` | `SlotEnginesNeverCoreside`, `BrokenEnginesAreNotReused` | 4 nodes, one an expander, one over both of 2 cards |
| `QualityReuse` | `ScoresAreOfTheAnswers` | 2 fingerprints, 2 metric sets, 3 generations (`MaxSamples`), the default and a given run directory |
| `ChunkCache` | `ServedCorpusIsCurrent` | 2 processes, an empty, an old or a new entry |
| `Dataset` | `EvaluationsSeeTheirCorpus` | 2 chunkings |
| `VectorIngest` | `IngestCoversTheCorpus` | 2 builders, corpora of 3 and 1 documents, batches of 2 |
| `RetrievalNodes` | `BatchingIsInvisible` | batches of 3 and 2 queries in 2 calls, 4 documents, up to 4 passages a row |
| `PopulationAdapter` | `SaturationProofIsFresh` | 2 candidates, 1 + 1 drivers, 7 completions (`MaxDone`) |
| `RequestPath` | `WindowStatsAreTheWindow`, `RoundsAreAccountedFor` | 2 requests, 5 stages, 2 rounds |
| `Evidence` | `EvidenceIsSound` | gaps of 2 or 3 seconds, 26 waves (`MaxWaves`), a tail of 4 (`MaxTail`) |
| `GpuPlan` | `PlansFitTheCards` | 12 layouts over 2 cards of 80 GiB |
| `EngineClient` | `CallsCleanUpAfterThemselves`, `RequestsFitTheContext` | 2 calls, 2 prompts, 2 loop ids |

Why the bounds are enough: three calls are the head, a second that fills the
batch and one beyond it, so a batch can be full, part or followed by a rest.
With one sequence per engine the prefill gate has two permits and the decode
gate one: three requests fill both gates and wait at both. In the closed loop
two rows make an epoch and its boundary, spans of one make the smallest proof
(two completions after support), a sample of one makes the reservoir evict, and
eight sequence numbers leave room for support, proof, window and fill. `MaxSeq`
is the only artificial bound: it stops admissions. Drivers of the initial
population and rows are interchangeable (`ClosedLoopMC`). Two ids written one at
a time give pairs of equal length and different content and an extended pair;
six files are three pairs, so that a reader can be overtaken by a replacement
and by the replacement of that one; writers and threads are interchangeable
(`FaissCacheMC`). The five trials share an engine, own two, use a pair in
either slot, and ask for a card too many; two port blocks let a corpse keep one.
Two candidates can alternate; seven completions cover the first pass, a reset
and two spans. Twenty-six waves pass the thresholds of spans and bins at 20 and
25. Two builders and three documents in batches of two let one die or be
overtaken between two batches of the other. With four passages a row, rows of three
and of four differ in what half of them is: the percentile cutoff is uneven. Two
of the three queries and one of the passages are longer than the rest, and the
model of monot5 answers some pairs in one token and most in two, so that both
rerankers meet even and uneven batches. Three generations are one for a record,
one that leaves a marker behind and one that finds it.

Deadlock is checked for `faiss`, where a writer can always come, and not for
the others: they stop when nobody calls
them any more, the batch is through the pipeline, or a bound is reached.

Fairness. The event loop runs every ready callback (weak fairness of the
coroutines' steps), timers fire, a stage's `pure()` returns or raises, and
every POST ends, if only by the session's timeout. In `deployment` the run's own
thread goes on (weak fairness of `RunStep`), which includes that the health
deadline of an engine passes. Nobody is obliged to call, to cancel or to close,
the engines need not answer, come up or die, and the adapter need not reach a
verdict.

### What the violations show

* `loop_abort`: the abort path cancels the drivers that exist when it starts
  and waits for them up to ten seconds; the population adapter still runs and
  may add drivers in that time, which nobody cancels.
* `deploy_stray`: `_kill_proc_group` looks the group up by its leader's pid. If
  the API process died during startup, `poll()` has reaped it, the lookup
  fails, and workers that outlive it keep their cards until a later run
  reclaims them. `OnlyReapedLeadersEscape` shows that this is the only way out.
* `quality_subset`: the fingerprint does not cover the metrics, and a donor's
  scores are inherited wholesale: asking for more than the donor had returns
  what the donor had.
* `dataset_stale`: when `activate` raises while it copies, it still remembers
  the previous view; activating that one again is a no-op over a torn or foreign
  `corpus.parquet`. In memory the corpus is right (`EvaluationsSeeTheirCorpus`),
  for a node that reads the file it is not.
* `ingest_shared`: a project that does not chunk has chunk hash "none", whatever
  its corpus; two of them with the same index parameters share one index.

Smaller disagreements between comments and code, which the models reproduce and
no run is spent on: a batched stage may dispatch an unfilled batch early when
its head is cancelled just after the timed wait expired (`serving_runtime.py:1007`,
the worker "recomputes from the new queue head"); handles waiting for decode are
bounded by the prefill engine's `max_num_seqs` plus one feeder slot, which the
comment at `vllm_pd_pair.py:963-966` forgets; `PercentileCutoff` computes once, from
the first row of its frame, how many passages every row keeps, where its docstring
(`percentile_cutoff.py:29-31`) speaks of the content's length, so that what a question
keeps depends on which one comes first (`BatchingIsInvisible` excepts it);
`monot5.py:321-322` halves a batch because "scores are batching-invariant", which
the last common step makes them not; `similarity_percentile_cutoff.py:66` promises
"contents, ids, and scores" and returns ids, contents and scores; a lost port that
is printed just before the health deadline becomes a `TrialInvalid`, although "a
host-port race is infrastructure state" (`vllm_deployment.py:723`); a hit marker
"means the generator inherited a donor's answers" (`static_rag_evaluator.py:615`),
but a caller's run directory may hold one of an earlier attempt; without an LLM stage a late completion opens the window after
the attempt was rejected, with no effect but on logs and statistics; the launch
probe's floor and the sessions of dead loops (`GpuPlan`, `EngineClient` above).

## Proofs

Every safety property that a passing run checks, but for one, is also a
theorem: it holds for every value of the constants that the assumptions of the module
allow. An invariant is proved from an inductive one whose conjuncts are named
for what they say; an action property, and a refinement, from the same
invariant, step by step.

### The batched stage (`BatchedStage_proofs`)

For every set of calls, every batch size and both kinds of deadline:

* `TypeCorrect`: the type invariant, which includes that a batch is bounded;
* `HearsQueue`: a sleeping worker is armed on the head of the queue. The
  invariant is inductive together with the type invariant;
* `NoCallStranded`: every pending future is in the queue or in the batch, once.
  It is not inductive: that a new call is in neither, that what the worker
  holds it holds only while it runs, and that a call that is being unwound has
  no pending future must be added (`Custody`). One lemma per kind of step says
  what it does to the hands a call is in;
* `CloseIsClean`: after `close()` the thread is at rest, the queue empty and,
  unless the worker was itself cancelled, every call answered. It follows from
  the custody of the calls and one more invariant (`Drained`);
* `ServiceKeepsPromise`: `BatchedStage` implements `StageCalls`. A submission is
  a `Send`, a cancellation before the answer a `Withdraw`, the end of a batch a
  `Serve` of those in it that nobody cancelled (an injection from these calls
  into the places of the batch bounds their number), `close()` a `Stop` of the
  queued ones; everything else, and a batch of cancelled calls only, is a
  stutter. It needs that a call has a future exactly when it was accepted
  (`Accepted`), besides the custody.

### Admission (`PdAdmission_proofs`)

For every finite set of requests and all limits:

* `PermitsAreConserved`: per gate, free permits, permits granted to waiters and
  permits held add up to the limit. Inductive together with: a line holds
  requests that wait at its gate, each once; only waiters are granted permits;
  free permits are not negative. One lemma (`PermitsBalance`) keeps the
  account of any step that gives back and takes what the two places of a
  request differ by; the actions only have to show that they do;
* `HandlesAreBounded`: a pinned handle belongs to a request between its prefill
  and the fetch, which holds a permit of one of the two role gates: those not
  admitted to decode are bounded by the prefill gate's permits, all of them by
  the sum of both;
* `NoPermitIsIdle`: no free permit beside a line in which nobody was granted
  one. Every release wakes a waiter, and a waiter that gives up its grant
  passes it on; the lemmas say what a wake-up leaves in a line;
* `CountsAreTrue`: each step changes the counters by what the two places of the
  request differ by (`Follows`), the same argument as for the permits.

### The closed loop (`ClosedLoop_proofs`)

For every finite population and dataset, every span, target and sample size.
The inductive invariant `LoopInv` comes in layers, and each is kept by lemmas
of its own that assume only the layers below:

* `Typed`: the types, and that a driver with a request running has a number;
* `Course`: how far the main task is says what became of the window and the
  drivers. While it runs no driver was cancelled; from the drain on the window
  is closed and the attempt not rejected; from the cancel on, and while a fill
  runs, every driver still pending was cancelled; when the drivers are cleared
  every row is covered; and an attempt that is done has no failed driver;
* `Proven`: an open window of a gated attempt has a proof; proof, support and
  coverage appear in this order;
* `Custody`: the account of request numbers. Each is in one place only
  (`OneOwner`), numbers are given once, and the recorder holds what is in
  flight, won or sampled (`Recorded`). What a step may do to the account is one
  of a few kinds (`Quiet`, a number given, a number that ended, a completion
  that joins the reservoir), and custody is proved kind by kind, not action by
  action;
* `Sampled`: the reservoir is full or holds the whole cohort.

From these: `CustodyTheorem` (`TraceCustody`), `ResultTheorem`
(`ResultIsSound`), `OpeningTheorem` (`WindowOpensOnProof`: a step of the warmup
leaves the window alone, rejects, or opens it with every driver active) and
`PopulationTheorem` (`ClosedPopulation`).

### Trials (`Lifecycle_proofs`)

For every set of trials, engines and pairs, any cards and port blocks. The
invariant `DeploymentInv` says that where the run is (`pc`) determines the rest:
what the cache holds, slot by slot (`CacheFollows`), that the engine being
launched is the trial's and not one the cache holds (`LaunchFollows`), which
models and children may be there (`TrialFollows`), that the process groups the
run has a handle of are exactly those of the cache and of the launch under way
(`Handles`), and that no two live pairs share a port block or sit on a
corpse's (`Ports`). Every way out of a launch - health, refusal, retry,
interrupt, the death of the run - has to re-establish it, which is why
`NothingOutlivesATrial` then follows at once. The theorems are
`CleanSlateTheorem`, `SlotsTheorem`, `NothingOutlivesTheorem`, `PortsTheorem`,
and, as action properties, `EscapeTheorem` and `PortRaceTheorem`. The last is of
what the health wait looks at: a launch is retried only if a port was lost, and
not fitting, before the deadline, only if none was.

### Around the measured loop (`MeasuredPath_proofs`)

* `FreshProofTheorem` (`SaturationProofIsFresh`), for all candidates, spans and
  population sizes. The strengthening says that the tracked candidate has been
  held at least since its start (`TrackedIsHeld`), that a candidate's presence
  began no later than the epoch (`HeldBeforeEpoch`), and that a verdict is the
  last thing the adapter does;
* `RoundsTheorem` (`RoundsAreAccountedFor`), for every pipeline in which a stage
  occurs once. The invariant (`RoutesInv`) says, of a request under way, which
  stages it has seen by where it stands in the chain, or which searches and
  reranks its generations account for;
* `WindowTheorem` (`WindowStatsAreTheWindow`). The invariant (`StatsInv`) relates
  marks, counters and the history of the window, for each of the three phases,
  and carries that rows grow by no more than the peak with each batch; the
  drain is the case that needs it to be about the marks and not the counters;
* `CallsTheorem` (`CallsCleanUpAfterThemselves`), for any calls one after the
  other, any finite set of prompts and any way loop ids come back. How often
  the engine has run a request follows from the attempt it is on and from
  whether its answer is on the way (`JobOk`); and a measured session belongs to
  the call that lives in its loop (`SessionsLive`), which together with
  `OneAfterTheOther` keeps requests off dead loops;
* `PlansTheorem` (`PlansFitTheCards`), for all layouts, stages, reserves, weights
  and orders of loading, on cards of up to 600 GiB. An engine's plan times the
  tenants of its card is within what the reserves leave (`PlanShare`), so the
  claims of engines that got their plan add up to no more (`CardsHold`): a sum
  over the engines of a card is bounded by their number times the largest. A
  refusal is genuine because the floor of the launch exceeds what is free
  (`RefusalsAreGenuine`, inductive with the types and with the refused engine
  being the last). The bound on cards is the code's own margin: it leaves 0.3 GiB, and
  rounding utilizations to thousandths loses up to half a thousandth of a card;
* functions, for all numbers: `BudgetTheorem` (a chat request is refused exactly
  when its output alone fills the context, a fitted one never; it gives
  `ContextTheorem`, the property of the run), `SpanTheorem` (a granted stability
  span can be proved in the time there is), `IncrementTheorem`,
  `BacklogTheorem`, `ParallelismTheorem` and `AdaptedTheorem` (the sizes of
  `SizesAgree`; the last is the in-process engine's TP and utilization).

### The quality path (`Lifecycle_proofs`)

* `CorpusTheorem` (`EvaluationsSeeTheirCorpus`), for every set of chunkings. It
  needs that the remembered key names the frame in memory (`KeyNamesFrame`) and
  that what was copied is what is read back (`CopyIsRead`). That the key need
  not name the *file* is the finding of `dataset_stale`;
* `ScoresTheorem` (`ScoresAreOfTheAnswers`), for all fingerprints and metrics. A
  record's quality is of the record's answers unless a pending marker found in a
  caller's directory named it (`StoreIsSound`), and a marker is either one the
  evaluation found or names a record with the answers at hand
  (`MarkersNameTheAnswers`), so that in a directory without leftovers the scoring
  reads only its own evaluation's markers;
* `ServedCorpusTheorem` (`ServedCorpusIsCurrent`), for any number of processes.
  An entry whose corpus is old says so in its scheme (`OldSaysSo`), so nobody
  gets past the look-up while it is there, and it never comes back
  (`NoOldBehindAHit`);
* `SlotTheorem` (`SlotEnginesNeverCoreside`) and `BrokenTheorem`
  (`BrokenEnginesAreNotReused`), for all nodes, keys, widths and cards. Of the
  engines that belong in the slot only the slot's own lives (`LiveIsTheSlots`),
  and the slot has recorded its cores (`SlotRecords`), so that giving it up ends
  them whoever still refers to it.

### The vector stores (`VectorStore_proofs`)

For every set of writers and readers, all batches and every bound, wherever a
writer fails:

* `ReadyPairIsWhole`: an accepted pair was written together. The strengthening
  is the writing order: one writer at a time, no marker while it saves, and
  what it has written so far is what it holds in memory;
* `WritersKeepPromise`: `FaissCache` implements `AtomicPair`;
* `CacheIsCurrent`: an entry of the process cache, or one handed out, is the
  pair on disk as long as the pair it names is. Versions only grow
  (`Versions`), and the mutex keeps the entry a thread is completing
  (`ReaderInv`).

And for every set of builders, evaluations, corpora and batch sizes:

* `IngestTheorem` (`IngestCoversTheCorpus`). The invariant `IngestInv` is that
  nothing is forgotten (`Progress`): an id of an evaluation's corpus is in the
  pair, in the memory of the builder that is rewriting it, or in a batch still to be
  added. While a pair is withdrawn nobody may finish over it: its rewriter
  adds an id that every other builder of the path still has to add (`Newcomer`),
  because it looked under the lock before it withdrew the pair. Besides, what is
  stored, held and to come is of the corpus and has each id once (`StoresSound`,
  `BuilderSound`), and under the lock memory is the pair (`UnderLock`). That an index
  of as many rows as the corpus has *is* the corpus, which the fast skip
  relies on, is a lemma about injective lists.

  The hypothesis is `KeyedByCorpus`: a path belongs to one corpus. Chunked
  projects have it by their hash, and the passing run assumes it of its jobs
  (`NoSharedPath`); what fails without it is the finding of `ingest_shared`.

### The pipeline's nodes (`RetrievalNodes_proofs`)

`NodesTheorem` (`BatchingIsInvisible`): for every corpus, every index, expander and
ranking model, every batch of calls, chunk size and number of replicas, any
pipeline leaves a batch with its calls' own rows end to end, and raises exactly when
it does on one of the calls. The proof has three floors:

1. Lists. What is flattened, cut into batches by `make_batch`, scored batch by batch,
   put end to end and cut back by lengths is, for each row, what the row gets by
   itself; so is what is sharded over replicas.
2. Nodes. So every module but the three is a function of a row: it
   raises on some rows and makes something of each of the others. For each of
   them it is shown that its rows have the type of the next stage and keep
   their query (`GoodRows`), which includes that a row with hits keeps some.
3. Frames. A node that takes rows by themselves (`RowEffect`) does the same to a
   batch as to its calls. `BatchingIsInvisible` alone is not inductive, for
   three reasons that `NodesInv` names: after an uneven batch the rows are no longer
   the calls' own, but still have their queries and their hits or the want of
   them, so that they fail together (`AlikeWhenUneven`, with `SameFate`: a node
   raises on rows of one query alike); rows are uneven only when retrieval is over
   (`UnevenLate`); and nothing is left of a batch that was raised on (`NoneLeft`).

The percentile cutoff, colbert and monot5 are treated apart. On an even batch each
is a function of the row: rows of one length are cut alike, texts of one length are
padded alike by every replica, and pairs of one number of steps are scored at the
same step in every forward batch, whatever fits. On an uneven one (`MixedAfter`)
it is enough that each keeps a row's query and leaves hits to a row that has some.

`SequenceLemmas` has what these proofs need of lists and sums: induction over a
set of numbers and functions that are defined number by number, what a
comprehension with a condition picks, `make_batch` cuts and `sorted` ranks (all
by counting), lists laid end to end, sums and extremes of finite sets, and what
taking a waiter out of a line leaves.

### What the proofs assume

The assumptions the modules make of their constants, and nothing else; TLC
evaluates them in every run. Limits and sizes are positive where the code
clamps them to one (`max(1, ...)`); sets of drivers, rows, requests and prompts
are finite, as lists are; values that stand for "none" are no members of what
they are absent from; hits, relevance and dates are of the corpus's passages
(`NodesAssumption`). Two theorems have a hypothesis of their own, explained above:
`KeyedByCorpus`, and cards of up to 600 GiB. Two assumptions say more. `PathAssumption` wants a pipeline to have a
stage once, because the model keeps a request's visits under the stage's name:
`_parse_node_lines` does not refuse a configuration that lists a stage twice,
and nothing here is said of one. `ClientAssumption` has the calls
numbered in the order they are made. Theorems about the parts of `evaluator`
are about each module's own specification, which the run explores as one part.

### Model-checked only

* Liveness (`EveryCallEnds`, `CloseCompletes`, `EveryRequestEnds`,
  `AttemptEnds`, `EvaluateEnds`): fairness and ENABLED are beyond the prover.
* `EvidenceIsSound`. It is not true of arbitrary gaps between completions; the run
  has gaps of two and three seconds. Its parts fold sums over the bins and spans
  of a growing history. `SpanTheorem` proves the arithmetic under it.

The provers take no operator as a parameter, so an induction is over a *set* of
numbers (`SetInduction`); a library function that is defined by recursion
(`FlattenSeq`) is related to the list it builds step by step (`FlattenFacts`).

## Not modelled, and the plan

Not modelled:

* the quality metrics: each is a function of an answer, mostly a library's or
  an LLM judge's; that a score belongs to its answers is in `QualityReuse`;
* the calibration instrumentation: patches of vLLM internals that record
  timings. `EngineClient` has which server runs with them;
* scripts and examples; the vector databases other than FAISS, which are thin
  clients of a service; schemas, chunkers, prompt texts and API generators:
  parsing and library calls.

Left out of the modelled components: the byte budget of the FAISS read cache and
its several paths (what is evicted depends on sizes), the pipe of one request to
an auxiliary process, the batched ReAct variant of the quality path, latency
quantiles, and the probing of GPUs and toolkits.

Next, in this order:

1. `ReadCache`: several paths with abstract sizes, eviction and the node-local
   copies, composed with `FaissCache`.
2. The adapter composed with the gate of `ClosedLoop`: its verdict as the input
   of `WindowOpensOnProof` instead of a nondeterministic one.
3. `AuxPipe`: requests to an auxiliary process against its death and `close`.
4. `EvidenceIsSound` as a theorem: the bins as sums over the spans' completions
   (`SumOver`), and what it needs of the gaps as an assumption on `Gaps`.
