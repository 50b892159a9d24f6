----------------------------- MODULE FaissCache -----------------------------
(***************************************************************************)
(* vectordb/_faiss_cache.py and its callers FaissHNSW and FaissIVF: a      *)
(* FAISS index and its id map are two files of one shared directory.       *)
(* Writers extend or rebuild the pair under a file lock and publish a      *)
(* marker last; the threads of a read-only process read marker, index and  *)
(* metadata without that lock and share what they read in a process cache. *)
(*                                                                         *)
(* A file's identity is its size and mtime; the model gives every file     *)
(* written a version of its own.  What index position an id has matters,   *)
(* so contents are sequences of ids.  The process cache's byte budget is   *)
(* taken to be large enough; there is one path, hence one entry.           *)
(***************************************************************************)
EXTENDS Naturals, Sequences

CONSTANTS
    Writers,        \* processes that call add_embedding()
    Threads,        \* threads of the reading process
    Ids,            \* document ids
    Batches,        \* the batches of ids writers add
    MaxVersion,     \* bound: files written
    None            \* no file, no owner

ASSUME FaissCacheAssumption ==
    /\ None \notin Writers \cup Threads
    /\ Batches \subseteq Seq(Ids) \ {<<>>}
    /\ MaxVersion \in Nat

VARIABLES
    index,      \* the index file: its version and the ids of its vectors
    meta,       \* the metadata file: its version and its ids
    marker,     \* the ready marker: the identity of the pair it vouches for
    version,    \* the last version given
    lock,       \* the writer that holds the build lock
    writer,     \* where each writer stands in add_embedding()
    content,    \* the ids of the index a writer holds in memory
    batch,      \* the ids it was called with
    thread,     \* where each reading thread stands in load_read_only_faiss_pair()
    seen,       \* what it has read of marker and file attributes
    mutex,      \* the thread that holds _PROCESS_READ_CACHE_LOCK
    cache,      \* the entry of _PROCESS_READ_CACHE
    got         \* the entry each thread was given last

diskVars   == <<index, meta, marker, version>>
writerVars == <<lock, writer, content, batch>>
readerVars == <<thread, seen, mutex, cache, got>>
vars == <<diskVars, writerVars, readerVars>>

Files    == [version : Nat, ids : Seq(Ids)]
Identity == [index : Nat, meta : Nat, rows : Nat]
Entry    == [identity : Identity, meta : Seq(Ids), index : Seq(Ids) \cup {None}]

WriterStates == {"idle", "locked", "dropIndex", "dropMeta", "dropMarker",
                 "invalidate", "saveIndex", "saveMeta", "publish"}
ThreadStates == {"idle", "statIndex", "statMeta", "enter", "read"}

TypeOK ==
    /\ index \in Files \cup {None}
    /\ meta \in Files \cup {None}
    /\ marker \in Identity \cup {None}
    /\ version \in Nat
    /\ lock \in Writers \cup {None}
    /\ writer \in [Writers -> WriterStates]
    /\ content \in [Writers -> Seq(Ids)]
    /\ batch \in [Writers -> Batches \cup {None}]
    /\ thread \in [Threads -> ThreadStates]
    /\ seen \in [Threads -> Identity \cup {None}]
    /\ mutex \in Threads \cup {None}
    /\ cache \in Entry \cup {None}
    /\ got \in [Threads -> Entry \cup {None}]

Init ==
    /\ index = None
    /\ meta = None
    /\ marker = None
    /\ version = 0
    /\ lock = None
    /\ writer = [w \in Writers |-> "idle"]
    /\ content = [w \in Writers |-> <<>>]
    /\ batch = [w \in Writers |-> None]
    /\ thread = [t \in Threads |-> "idle"]
    /\ seen = [t \in Threads |-> None]
    /\ mutex = None
    /\ cache = None
    /\ got = [t \in Threads |-> None]

-----------------------------------------------------------------------------
\* the id map is the one the marker vouches for, and so is the index
IndexIs(id) == index # None /\ index.version = id.index
MetaIs(id)  == meta # None /\ meta.version = id.meta

\* _faiss_ready_identity_if_complete(), when nothing moves
Ready == marker # None /\ IndexIs(marker) /\ MetaIs(marker)

\* the ids of s that are not in t, in order
Missing(s, t) == SelectSeq(s, LAMBDA x : \A i \in 1..Len(t) : t[i] # x)

(***************************************************************************)
(* add_embedding(), under faiss_cache_build_lock.                          *)
(***************************************************************************)
Goes(w, where) == writer' = [writer EXCEPT ![w] = where]

Unlock(w) ==
    /\ Goes(w, "idle")
    /\ lock' = None
    /\ content' = [content EXCEPT ![w] = <<>>]
    /\ batch' = [batch EXCEPT ![w] = None]

\* Mutant: the file lock excludes nobody.
Lock_Shared(w) ==
    /\ writer[w] = "idle"
    /\ lock' = w
    /\ Goes(w, "locked")
    /\ \E b \in Batches : batch' = [batch EXCEPT ![w] = b]
    /\ UNCHANGED <<diskVars, content, readerVars>>

Lock(w) ==
    /\ writer[w] = "idle"
    /\ lock = None
    /\ lock' = w
    /\ Goes(w, "locked")
    /\ \E b \in Batches : batch' = [batch EXCEPT ![w] = b]
    /\ UNCHANGED <<diskVars, content, readerVars>>

\* The pair on disk is loaded; nothing is left to add.
NothingToAdd(w) ==
    /\ writer[w] = "locked"
    /\ Ready /\ Missing(batch[w], meta.ids) = <<>>
    /\ Unlock(w)
    /\ UNCHANGED <<diskVars, readerVars>>

\* It is loaded and extended in memory.
Extend(w) ==
    /\ writer[w] = "locked"
    /\ Ready /\ Len(index.ids) = Len(meta.ids)
    /\ Missing(batch[w], meta.ids) # <<>>
    /\ content' = [content EXCEPT ![w] = meta.ids \o Missing(batch[w], meta.ids)]
    /\ Goes(w, "invalidate")
    /\ UNCHANGED <<diskVars, lock, batch, readerVars>>

\* It is incomplete, unreadable, or of another shape than configured, and is
\* removed: index, metadata, marker.
Reject(w) ==
    /\ writer[w] = "locked"
    /\ Goes(w, "dropIndex")
    /\ UNCHANGED <<diskVars, lock, content, batch, readerVars>>

DropIndex(w) ==
    /\ writer[w] = "dropIndex"
    /\ index' = None
    /\ Goes(w, "dropMeta")
    /\ UNCHANGED <<meta, marker, version, lock, content, batch, readerVars>>

DropMeta(w) ==
    /\ writer[w] = "dropMeta"
    /\ meta' = None
    /\ Goes(w, "dropMarker")
    /\ UNCHANGED <<index, marker, version, lock, content, batch, readerVars>>

\* Then the index is built anew, of this batch alone.
DropMarker(w) ==
    /\ writer[w] = "dropMarker"
    /\ marker' = None
    /\ content' = [content EXCEPT ![w] = batch[w]]
    /\ Goes(w, "invalidate")
    /\ UNCHANGED <<index, meta, version, lock, batch, readerVars>>

(***************************************************************************)
(* atomic_save_faiss_pair(): withdraw the marker, write both files aside,  *)
(* rename them over the old ones, and publish a marker for the two.        *)
(***************************************************************************)
Invalidate(w) ==
    /\ writer[w] = "invalidate"
    /\ marker' = None
    /\ Goes(w, "saveIndex")
    /\ UNCHANGED <<index, meta, version, lock, content, batch, readerVars>>

SaveIndex(w) ==
    /\ writer[w] = "saveIndex"
    /\ version < MaxVersion
    /\ version' = version + 1
    /\ index' = [version |-> version + 1, ids |-> content[w]]
    /\ Goes(w, "saveMeta")
    /\ UNCHANGED <<meta, marker, lock, content, batch, readerVars>>

\* Mutant: the id map is written of the new ids alone.
SaveMeta_Batch(w) ==
    /\ writer[w] = "saveMeta"
    /\ version < MaxVersion
    /\ version' = version + 1
    /\ meta' = [version |-> version + 1, ids |-> batch[w]]
    /\ Goes(w, "publish")
    /\ UNCHANGED <<index, marker, lock, content, batch, readerVars>>

SaveMeta(w) ==
    /\ writer[w] = "saveMeta"
    /\ version < MaxVersion
    /\ version' = version + 1
    /\ meta' = [version |-> version + 1, ids |-> content[w]]
    /\ Goes(w, "publish")
    /\ UNCHANGED <<index, marker, lock, content, batch, readerVars>>

\* the marker is made of what stat() says of the two files
Publish(w) ==
    /\ writer[w] = "publish"
    /\ index # None /\ meta # None
    /\ marker' = [index |-> index.version, meta |-> meta.version,
                  rows |-> Len(content[w])]
    /\ Unlock(w)
    /\ UNCHANGED <<index, meta, version, readerVars>>

\* An error (disk full, a failed rename), or the process dies: either way the
\* lock is free again and the files stay as they are.
Fail(w) ==
    /\ writer[w] # "idle"
    /\ Unlock(w)
    /\ UNCHANGED <<diskVars, readerVars>>

-----------------------------------------------------------------------------
(***************************************************************************)
(* load_read_only_faiss_pair(): read the marker, look at both files, and,  *)
(* if they are the ones it vouches for, take the entry of the process      *)
(* cache or fill a new one, metadata first.                                *)
(***************************************************************************)
Moves(t, where) == thread' = [thread EXCEPT ![t] = where]

\* no pair: the caller is told so
GivesUp(t) == Moves(t, "idle") /\ seen' = [seen EXCEPT ![t] = None]

ReadMarker(t) ==
    /\ thread[t] = "idle"
    /\ marker # None
    /\ seen' = [seen EXCEPT ![t] = marker]
    /\ Moves(t, "statIndex")
    /\ UNCHANGED <<diskVars, writerVars, mutex, cache, got>>

StatIndex(t) ==
    /\ thread[t] = "statIndex"
    /\ \/ IndexIs(seen[t]) /\ Moves(t, "statMeta") /\ UNCHANGED seen
       \/ ~IndexIs(seen[t]) /\ GivesUp(t)
    /\ UNCHANGED <<diskVars, writerVars, mutex, cache, got>>

StatMeta(t) ==
    /\ thread[t] = "statMeta"
    /\ \/ MetaIs(seen[t]) /\ Moves(t, "enter") /\ UNCHANGED seen
       \/ ~MetaIs(seen[t]) /\ GivesUp(t)
    /\ UNCHANGED <<diskVars, writerVars, mutex, cache, got>>

Returns(t, entry) ==
    /\ got' = [got EXCEPT ![t] = entry]
    /\ GivesUp(t)

\* Mutant: entries are kept by path, whatever pair is there now.
Kept_ByPath(id) == IF cache # None THEN [cache EXCEPT !.identity = id] ELSE None

\* the entry of another identity is discarded first
Kept(id) == IF cache # None /\ cache.identity = id THEN cache ELSE None

\* what _parse_ready_metadata() makes of the metadata file
Parsed(id) ==
    IF meta # None /\ Len(meta.ids) = id.rows
    THEN [identity |-> id, meta |-> meta.ids, index |-> None]
    ELSE None

EntryFor(id) == IF Kept(id) # None THEN Kept(id) ELSE Parsed(id)

Enter(t) ==
    /\ thread[t] = "enter"
    /\ mutex = None
    /\ cache' = EntryFor(seen[t])
    /\ \/ cache' = None /\ GivesUp(t) /\ UNCHANGED <<mutex, got>>
       \/ cache' # None /\ cache'.index # None /\ Returns(t, cache') /\ UNCHANGED mutex
       \/ /\ cache' # None /\ cache'.index = None
          /\ mutex' = t
          /\ Moves(t, "read")
          /\ UNCHANGED <<seen, got>>
    /\ UNCHANGED <<diskVars, writerVars>>

\* The index is read, if it has as many rows as the metadata.
ReadIndex(t) ==
    /\ thread[t] = "read"
    /\ index # None /\ Len(index.ids) = Len(cache.meta)
    /\ cache' = [cache EXCEPT !.index = index.ids]
    /\ Returns(t, cache')
    /\ mutex' = None
    /\ UNCHANGED <<diskVars, writerVars>>

\* It is missing, cannot be read or has another number of rows: an error to
\* the caller; the parsed metadata stays.
ReadFails(t) ==
    /\ thread[t] = "read"
    /\ GivesUp(t)
    /\ mutex' = None
    /\ UNCHANGED <<diskVars, writerVars, cache, got>>

\* _cached_faiss_vectordb_ready(): the ingest is skipped if the pair is ready,
\* which is checked under the build lock and leaves the metadata in the cache.
Prime ==
    /\ lock = None /\ mutex = None
    /\ Ready
    /\ cache' = EntryFor(marker)
    /\ UNCHANGED <<diskVars, writerVars, thread, seen, mutex, got>>

-----------------------------------------------------------------------------
WriterStep(w) ==
    \/ Lock(w) \/ NothingToAdd(w) \/ Extend(w)
    \/ Reject(w) \/ DropIndex(w) \/ DropMeta(w) \/ DropMarker(w)
    \/ Invalidate(w) \/ SaveIndex(w) \/ SaveMeta(w) \/ Publish(w)
    \/ Fail(w)

ThreadStep(t) ==
    \/ ReadMarker(t) \/ StatIndex(t) \/ StatMeta(t)
    \/ Enter(t) \/ ReadIndex(t) \/ ReadFails(t)

Next ==
    \/ \E w \in Writers : WriterStep(w)
    \/ \E t \in Threads : ThreadStep(t)
    \/ Prime

Spec == Init /\ [][Next]_vars

-----------------------------------------------------------------------------
(***************************************************************************)
(* Properties                                                              *)
(***************************************************************************)

\* A pair the readiness check accepts was written together, wherever a writer
\* was killed or failed.
ReadyIsOnePair ==
    Ready => index.ids = meta.ids /\ marker.rows = Len(meta.ids)

\* What is resident or was handed out is never behind the disk: while the pair
\* an entry names is the one on disk, the entry is that pair.  A replacement
\* is not answered from the entry of its predecessor, and what a reader mixed
\* of two pairs, reading while one replaced the other, is not served for
\* either of them later.
EntriesAreCurrent ==
    \A e \in ({cache} \cup {got[t] : t \in Threads}) \ {None} :
        IndexIs(e.identity) /\ MetaIs(e.identity) =>
            /\ e.meta = meta.ids
            /\ e.index # None => e.index = index.ids

\* The pair as AtomicPair sees it.
Visible == IF Ready THEN [index |-> index.ids, meta |-> meta.ids] ELSE None

Promise == INSTANCE AtomicPair WITH visible <- Visible

\* Writers and their failures keep what AtomicPair promises: a pair appears
\* whole and is replaced only by being withdrawn first.
KeepsPromise == Promise!Spec

=============================================================================
