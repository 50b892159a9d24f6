------------------------------- MODULE Dataset --------------------------------
(***************************************************************************)
(* The project's data files and the active corpus (dataset.py): what a      *)
(* start copies, restores and reads, and what each evaluation activates.    *)
(* One process at a time owns a project; it may die in the middle of a copy *)
(* and be started again, with the same raw corpus and questions.            *)
(*                                                                          *)
(* A corpus is named by its chunking; "raw" is the corpus before chunking   *)
(* and Default the chunking of the first start. The chunk cache is whole    *)
(* here (ChunkCache.tla).                                                   *)
(***************************************************************************)
EXTENDS FiniteSets

CONSTANTS Chunkings,   \* chunkings evaluations ask for
          Default,     \* the chunking a fresh project is started with
          Absent       \* a file or frame that is not there

ASSUME DatasetAssumption == Default \in Chunkings /\ Absent \notin Chunkings

VARIABLES disk,        \* data/: qa, corpus, original_corpus and raw_corpus
          up,          \* down, where a start is, or ready
          frame,       \* corpus_data, in memory
          viewKey,     \* _active_view_key
          view         \* the view the evaluation under way resolved

datasetVars == <<disk, up, frame, viewKey, view>>

DataFiles == {"qa", "corpus", "original", "raw"}
Torn == "torn"

DatasetInit ==
  /\ disk = [n \in DataFiles |-> Absent] /\ up = "down"
  /\ frame = Absent /\ viewKey = Absent /\ view = Absent

HasProjectData(d) == d["qa"] # Absent /\ d["corpus"] # Absent

\* shutil.copyfile and to_parquet write in place: a crash leaves a torn file.
Writes(n, v) == disk' = [disk EXCEPT ![n] = v]
Step(from, to) == up = from /\ up' = to

\* __init__: a project with data restores its canonical corpus first.
RestoredCorpus(d) == IF d["original"] # Absent THEN d["original"] ELSE d["corpus"]

StartResumes ==
  /\ HasProjectData(disk) /\ Step("down", "restored")
  /\ Writes("corpus", RestoredCorpus(disk)) /\ UNCHANGED <<frame, viewKey, view>>

\* A torn parquet raises.
LoadProject ==
  /\ disk["corpus"] # Torn /\ disk["qa"] # Torn
  /\ Step("restored", "loaded") /\ frame' = disk["corpus"]
  /\ viewKey' = Absent /\ UNCHANGED <<disk, view>>

LoadRaises ==
  /\ Torn \in {disk["corpus"], disk["qa"]} /\ Step("restored", "down")
  /\ UNCHANGED <<disk, frame, viewKey, view>>

\* A fresh project chunks the raw corpus it was given, through the cache, and
\* remembers the view it loaded.
StartFresh ==
  /\ ~HasProjectData(disk) /\ Step("down", "loaded")
  /\ frame' = Default /\ viewKey' = Default /\ UNCHANGED <<disk, view>>

\* _copy_data_to_project, _resolve_raw_corpus_path: what is there stays.
Next1(n) == CASE n = "qa" -> "loaded" [] n = "corpus" -> "qa"
              [] n = "original" -> "corpus" [] n = "raw" -> "original"
CopySource(n) ==
  CASE n = "corpus" -> frame [] n = "original" -> disk["corpus"] [] OTHER -> n

CopyOnce(n) ==
  /\ Step(Next1(n), n)
  /\ disk' = (IF disk[n] # Absent \/ (n = "raw" /\ viewKey = Absent) THEN disk
              ELSE [disk EXCEPT ![n] = CopySource(n)])
  /\ UNCHANGED <<frame, viewKey, view>>

\* Chunkings are swept, so the raw corpus must be there and readable.
Ready ==
  /\ disk["raw"] \notin {Absent, Torn} /\ Step("raw", "ready")
  /\ UNCHANGED <<disk, frame, viewKey, view>>

NotReady ==
  /\ disk["raw"] \in {Absent, Torn} /\ Step("raw", "down")
  /\ UNCHANGED <<disk, frame, viewKey, view>>

\* resolve_corpus
Resolve(h) ==
  /\ Step("ready", "resolved") /\ view' = h /\ UNCHANGED <<disk, frame, viewKey>>

\* activate: the same view again is the frame in memory; another one is copied
\* and read back, and only then remembered.
RememberedFirst(v) == v
RememberedLast(v) == viewKey

ActivateAgain ==
  /\ viewKey = view /\ Step("resolved", "active")
  /\ UNCHANGED <<disk, frame, viewKey, view>>

ActivateCopy ==
  /\ viewKey # view /\ Step("resolved", "copied") /\ Writes("corpus", view)
  /\ viewKey' = RememberedLast(view) /\ UNCHANGED <<frame, view>>

ActivateRead ==
  /\ Step("copied", "active") /\ frame' = disk["corpus"] /\ viewKey' = view
  /\ UNCHANGED <<disk, view>>

\* Copying or reading raises (a full disk, memory): the evaluation fails, the
\* process goes on with the next one.
ActivateRaises ==
  /\ viewKey # view \/ up = "copied"
  /\ up \in {"resolved", "copied"} /\ up' = "ready"
  /\ \/ UNCHANGED disk
     \/ up = "resolved" /\ Writes("corpus", Torn)
  /\ UNCHANGED <<frame, viewKey, view>>

EvaluationEnds == Step("active", "ready") /\ UNCHANGED <<disk, frame, viewKey, view>>

\* The process dies, in the middle of a copy or between two.
DatasetCrash ==
  /\ up # "down" /\ up' = "down"
  /\ \/ UNCHANGED disk
     \/ \E n \in DataFiles :
          up = Next1(n) /\ disk[n] = Absent /\ Writes(n, Torn)
     \/ up = "resolved" /\ viewKey # view /\ Writes("corpus", Torn)
  /\ frame' = Absent /\ viewKey' = Absent /\ view' = Absent

DatasetNext ==
  \/ StartResumes \/ LoadProject \/ LoadRaises \/ StartFresh \/ Ready \/ NotReady
  \/ \E n \in DataFiles : CopyOnce(n)
  \/ \E h \in Chunkings : Resolve(h)
  \/ ActivateAgain \/ ActivateCopy \/ ActivateRead \/ ActivateRaises
  \/ EvaluationEnds \/ DatasetCrash

DatasetSpec == DatasetInit /\ [][DatasetNext]_datasetVars

(***************************************************************************)
(* Properties.                                                              *)
(***************************************************************************)

\* Through failed copies, crashes and restarts, an evaluation runs on the corpus
\* of the view it resolved, as the frame in memory has it.
EvaluationsSeeTheirCorpus == up = "active" => frame = view

\* activate makes the view "the active corpus on disk + in memory", for the nodes
\* that read data/corpus.parquet. It does not hold: see README.
CorpusOnDiskIsActive == up = "active" => disk["corpus"] = view

=============================================================================
