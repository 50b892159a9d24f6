------------------------------ MODULE ChunkCache ------------------------------
(***************************************************************************)
(* One entry of the chunk cache, data/chunks/<hash> (chunk_cache.py): four  *)
(* files that get_or_build serves when they are complete and of the current *)
(* doc_id scheme, completes with compressor statistics, or builds beside it *)
(* and moves into place. Processes that share a project directory run it at *)
(* the same time: there is no lock, and a removal or a rewrite of the entry *)
(* happens file by file under the others' eyes.                             *)
(***************************************************************************)
EXTENDS Naturals, FiniteSets

CONSTANTS Procs, Gone      \* Gone: a file that is not there

ASSUME ChunkAssumption == Gone \notin {"old", "new", "full", "torn", "tmp", "stats"}

VARIABLES file,    \* the entry's files: Gone, "old", "new", "full" or "torn"
          at,      \* where each process is in get_or_build
          todo,    \* files its rmtree has listed and not removed
          handle,  \* the name its open statistics file has now
          served   \* what it was served: corpus and statistics

chunkVars == <<file, at, todo, handle, served>>

Artifacts == {"corpus", "stats", "meta", "scheme"}
Names == Artifacts \cup {"tmp"}      \* token_stats.json.tmp
Empty == [n \in Names |-> Gone]
Entry(v) == [n \in Names |-> IF n = "tmp" THEN Gone ELSE v]

\* An empty cache, an entry of the uuid4 scheme, or one without the
\* compressor's statistics, which "full" ones have.
ChunkInit ==
  /\ file \in {Empty, Entry("old"), Entry("new")}
  /\ at = [p \in Procs |-> "idle"] /\ todo = [p \in Procs |-> {}]
  /\ handle = [p \in Procs |-> Gone] /\ served = [p \in Procs |-> Gone]

\* _is_complete
CompleteAnyScheme(f) == \A n \in Artifacts : f[n] # Gone
CompleteEntry(f) == (\A n \in Artifacts : f[n] # Gone) /\ f["scheme"] # "old"

Goes(p, from, to) == at[p] = from /\ at' = [at EXCEPT ![p] = to]
Rest == UNCHANGED <<file, todo, handle, served>>

\* A missing or torn file raises, out of get_or_build.
RaisesAt(p, step, bad) == bad /\ Goes(p, step, "idle") /\ Rest

Lookup(p) ==
  /\ Goes(p, "idle", IF CompleteEntry(file) THEN "readStats" ELSE "build")
  /\ served' = [served EXCEPT ![p] = Gone] /\ UNCHANGED <<file, todo, handle>>

\* The hit: the statistics, and their compressor fields when they lack them.
ReadStats(p) ==
  \/ RaisesAt(p, "readStats", file["stats"] \in {Gone, "torn"})
  \/ /\ file["stats"] \notin {Gone, "torn"}
     /\ \/ Goes(p, "readStats", "open")        \* served by its path
        \/ file["stats"] # "full" /\ Goes(p, "readStats", "backfill")
     /\ Rest

\* open(tmp, "w") truncates, also the file another process is writing.
OpenTmp(p) ==
  \/ RaisesAt(p, "backfill", file["corpus"] = Gone)
  \/ /\ file["corpus"] # Gone /\ Goes(p, "backfill", "write")
     /\ file' = [file EXCEPT !["tmp"] = "torn"]
     /\ handle' = [handle EXCEPT ![p] = "tmp"] /\ UNCHANGED <<todo, served>>

\* json.dump into the open file, under the name it has by now.
WriteTmp(p) ==
  /\ Goes(p, "write", "rename")
  /\ file' = (IF handle[p] = Gone THEN file ELSE [file EXCEPT ![handle[p]] = "full"])
  /\ UNCHANGED <<todo, handle, served>>

RenameTmp(p) ==
  \/ RaisesAt(p, "rename", file["tmp"] = Gone)
  \/ /\ file["tmp"] # Gone /\ Goes(p, "rename", "open")
     /\ file' = [file EXCEPT !["stats"] = file["tmp"], !["tmp"] = Gone]
     /\ handle' = [q \in Procs |-> CASE handle[q] = "stats" -> Gone
                                     [] handle[q] = "tmp" -> "stats"
                                     [] OTHER -> handle[q]]
     /\ UNCHANGED <<todo, served>>

\* The miss: built in a directory of its own, then the entry that is there is
\* removed file by file and the directory renamed, onto none or an empty one.
StartClear(p) ==
  /\ Goes(p, "build", "clear")
  /\ todo' = [todo EXCEPT ![p] = {n \in Names : file[n] # Gone}]
  /\ UNCHANGED <<file, handle, served>>

Clear(p) ==
  \E n \in todo[p] :
    \/ RaisesAt(p, "clear", file[n] = Gone)
    \/ /\ file[n] # Gone /\ at[p] = "clear"
       /\ file' = [file EXCEPT ![n] = Gone] /\ todo' = [todo EXCEPT ![p] = @ \ {n}]
       /\ handle' = [q \in Procs |-> IF handle[q] = n THEN Gone ELSE handle[q]]
       /\ UNCHANGED <<at, served>>

InstallEntry(p) ==
  /\ todo[p] = {}
  /\ \/ RaisesAt(p, "clear", file # Empty)        \* ENOTEMPTY
     \/ /\ file = Empty /\ Goes(p, "clear", "open")
        /\ file' \in {Entry("new"), [Entry("new") EXCEPT !["stats"] = "full"]}
        /\ UNCHANGED <<todo, handle, served>>

\* The caller opens the path it was given.
OpenCorpus(p) ==
  \/ RaisesAt(p, "open", file["corpus"] = Gone)
  \/ /\ file["corpus"] # Gone /\ Goes(p, "open", "idle")
     /\ served' = [served EXCEPT ![p] = file["corpus"]]
     /\ UNCHANGED <<file, todo, handle>>

\* The process dies; the next one starts from nothing.
ChunkCrash(p) ==
  /\ at[p] # "idle" /\ at' = [at EXCEPT ![p] = "idle"]
  /\ handle' = [handle EXCEPT ![p] = Gone] /\ todo' = [todo EXCEPT ![p] = {}]
  /\ UNCHANGED <<file, served>>

ChunkNext ==
  \E p \in Procs :
    \/ Lookup(p) \/ ReadStats(p) \/ OpenTmp(p) \/ WriteTmp(p) \/ RenameTmp(p)
    \/ StartClear(p) \/ Clear(p) \/ InstallEntry(p) \/ OpenCorpus(p) \/ ChunkCrash(p)

ChunkSpec == ChunkInit /\ [][ChunkNext]_chunkVars

(***************************************************************************)
(* Property.                                                                *)
(***************************************************************************)

\* Through concurrent builds, removals, rewrites and crashes, nobody is served a
\* chunking with ids of the old scheme, which the shared indexes do not know, and
\* no rewrite of the statistics loses the rest of a served entry.
ServedCorpusIsCurrent ==
  \A p \in Procs : served[p] \in {Gone, "new"}

=============================================================================
