------------------------------ MODULE EvaluatorMC ------------------------------
(***************************************************************************)
(* Eleven parts of the evaluator that share no variable and no step. One    *)
(* run explores each of them, from all of its own initial states, beside    *)
(* the others at rest in one of theirs: "part" names the one that moves.    *)
(***************************************************************************)
EXTENDS QualityEngines, QualityReuseMC, ChunkCache, Dataset, VectorIngestMC,
        RetrievalNodesMC, PopulationAdapter, RequestPath, Evidence, GpuPlan, EngineClient

VARIABLE part

\* QualityEngines: a main generator, a query expander, the main generator again,
\* and a model that needs two cards.
MCNodes == 1..4
MCKey == <<"main", "expander", "main", "other">>
MCWidth == <<1, 1, 1, 2>>
MCAux == {2}

\* PopulationAdapter: an engine's backlog and a worker stage's.
MCPreferred == <<3, 2>>
MCPopulation == <<1, 2>>

\* RequestPath: two LLM stages, two worker stages and a direct one.
MCChain == <<"expander", "retriever", "filter", "reranker", "generator">>

\* GpuPlan: one engine; two on one card; an engine over both cards beside a role
\* on one of them; the two roles of a pair beside an expander. Weights of 0 are
\* those of a name that does not tell.
Eng(cs, sp, w) == [cards |-> cs, spans |-> sp, weights |-> w]
MCLayouts == UNION {
  {<<Eng({0}, {0}, w)>>,
   <<Eng({0}, {0}, w), Eng({0}, {0}, 4)>>,
   <<Eng({0, 1}, {0, 1}, w), Eng({1}, {1}, 28)>>,
   <<Eng({0}, {0, 1}, w), Eng({1}, {0, 1}, w), Eng({1}, {1}, 4)>>} : w \in {0, 28, 60}}
MCReserve == [encoder |-> 12, reranker |-> 16]

\* The evaluations of the run share no path between corpora; those of ingest_shared do.
ASSUME NoSharedPath == KeyedByCorpus

AtRest ==
  /\ part # "reuse" => /\ record = [f \in Fingerprints |-> Nothing]
                       /\ input = CHOOSE i \in [fp : Fingerprints, metrics : Metrics,
                                             dir : {"static"}] : TRUE
  /\ part # "chunks" => file = Empty
  /\ part # "ingest" => pair = [k \in Paths |-> NoPair]
  /\ part # "nodes" =>
       LET calls == CHOOSE c \in Arrivals : TRUE IN
       alone = [c \in DOMAIN calls |-> [i \in DOMAIN calls[c] |-> NewRow(calls[c][i])]]
  /\ part # "adapter" => llm = TRUE
  /\ part # "path" => mode = "react"
  /\ part # "gpu" => /\ layout = CHOOSE l \in Layouts : Len(l) = 1
                     /\ occupants = [c \in CardIds |-> {}] /\ stale = {}
  /\ part # "client" => /\ measured = TRUE /\ seqs = 0
                        /\ loop = [k \in Calls |-> CHOOSE i \in LoopIds : TRUE]

MCInit ==
  /\ part \in {"engines", "reuse", "chunks", "dataset", "ingest", "nodes",
               "adapter", "path", "evidence", "gpu", "client"}
  /\ AtRest
  /\ EnginesInit /\ ReuseInit /\ ChunkInit /\ DatasetInit /\ IngestInit /\ NodesInit
  /\ AdapterInit /\ PathInit /\ EvidenceInit /\ GpuInit /\ ClientInit

OthersRest ==
  /\ part # "engines" => UNCHANGED enginesVars
  /\ part # "reuse" => UNCHANGED reuseVars
  /\ part # "chunks" => UNCHANGED chunkVars
  /\ part # "dataset" => UNCHANGED datasetVars
  /\ part # "ingest" => UNCHANGED ingestVars
  /\ part # "nodes" => UNCHANGED nodeVars
  /\ part # "adapter" => UNCHANGED adapterVars
  /\ part # "path" => UNCHANGED pathVars
  /\ part # "evidence" => UNCHANGED evidenceVars
  /\ part # "gpu" => UNCHANGED gpuVars
  /\ part # "client" => UNCHANGED clientVars

MCNext ==
  /\ UNCHANGED part
  /\ \/ part = "engines" /\ EnginesNext
     \/ part = "reuse" /\ ReuseNext
     \/ part = "chunks" /\ ChunkNext
     \/ part = "dataset" /\ DatasetNext
     \/ part = "ingest" /\ IngestNext
     \/ part = "nodes" /\ NodesNext
     \/ part = "adapter" /\ AdapterNext
     \/ part = "path" /\ PathNext
     \/ part = "evidence" /\ EvidenceNext
     \/ part = "gpu" /\ GpuNext
     \/ part = "client" /\ ClientNext
  /\ OthersRest

MCVars == <<part, enginesVars, reuseVars, chunkVars, datasetVars, ingestVars, nodeVars,
            adapterVars, pathVars, evidenceVars, gpuVars, clientVars>>
MCSpec == MCInit /\ [][MCNext]_MCVars
=============================================================================
