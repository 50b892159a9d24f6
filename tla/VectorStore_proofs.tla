-------------------------- MODULE VectorStore_proofs --------------------------
(***************************************************************************)
(* The FAISS stores, from the files of one pair to the corpus an evaluation *)
(* finds in them, for every number of processes, batch, bound and corpus,   *)
(* and whatever fails where.                                                *)
(*                                                                          *)
(* FaissCache: the argument is the order of atomic_save_faiss_pair().       *)
(* Between the withdrawal of the marker and its publication the holder of   *)
(* the lock is the only one that writes, and what it has written so far is  *)
(* what it holds in memory.                                                 *)
(*                                                                          *)
(* VectorIngest: the argument is that nothing is forgotten. An id of the    *)
(* corpus is in the pair, with the builder that rewrites it, or among what  *)
(* the evaluation still adds; and while a pair is away, whoever shares it   *)
(* has an id to add that its rewriter was the first to see.                 *)
(***************************************************************************)
EXTENDS FaissCache, VectorIngest, SequenceLemmas, FiniteSetTheorems, TLAPS


Saving == {"saveIndex", "saveMeta", "publish"}

\* The writer at work is the one that holds the build lock.
OneWriter ==
    /\ writer \in [Writers -> WriterStates]
    /\ content = [w \in Writers |-> content[w]]
    /\ \A w \in Writers : writer[w] # "idle" => lock = w

\* No marker stands while a pair is written.
Withdrawn == \A w \in Writers : writer[w] \in Saving => marker = None

\* What is written is what the writer holds.
Written ==
    \A w \in Writers :
        /\ writer[w] \in {"saveMeta", "publish"} => index.ids = content[w]
        /\ writer[w] = "publish" => meta.ids = content[w]

IInv == OneWriter /\ Withdrawn /\ Written /\ ReadyIsOnePair

\* The writers' invariant holds initially.
LEMMA InitIInv == Init => IInv
  BY DEF Init, IInv, OneWriter, Withdrawn, Written, ReadyIsOnePair, Ready,
         WriterStates, Saving

\* A step that leaves disk and writers alone leaves the invariant alone.
LEMMA ReadersKeepIInv ==
  ASSUME IInv, UNCHANGED <<diskVars, writerVars>>
  PROVE  IInv'
  BY DEF IInv, OneWriter, Withdrawn, Written, ReadyIsOnePair, Ready, IndexIs,
         MetaIs, diskVars, writerVars

\* A writer that leaves the lock, publishing or failing, stands nowhere.
LEMMA UnlockFacts ==
  ASSUME NEW w \in Writers, OneWriter, writer[w] # "idle", Unlock(w)
  PROVE  /\ OneWriter'
         /\ \A v \in Writers : writer'[v] = "idle"
  <1>1. \A v \in Writers : v # w => writer[v] = "idle"
    BY FaissCacheAssumption DEF OneWriter
  <1> QED BY <1>1 DEF OneWriter, Unlock, Goes, WriterStates

\* Every step of a writer keeps the writers' invariant.
LEMMA WriterKeepsIInv ==
  ASSUME NEW w \in Writers, IInv, WriterStep(w)
  PROVE  IInv'
  <1> USE DEF IInv
  <1>0. \A v \in Writers : v # w /\ writer[w] # "idle" => writer[v] = "idle"
    BY FaissCacheAssumption DEF OneWriter
  <1>1. CASE Lock(w)
    <2>1. \A v \in Writers : writer[v] = "idle"
      BY <1>1, FaissCacheAssumption DEF OneWriter, Lock
    <2>2. OneWriter'
      BY <1>1, <2>1 DEF OneWriter, Lock, Goes, WriterStates
    <2>3. \A v \in Writers : writer'[v] \in {"idle", "locked"}
      BY <1>1, <2>1 DEF OneWriter, Lock, Goes
    <2> QED BY <1>1, <2>2, <2>3
            DEF Lock, Withdrawn, Written, Saving, ReadyIsOnePair, Ready, IndexIs,
                MetaIs, diskVars
  <1>2. CASE NothingToAdd(w) \/ Fail(w)
    <2>1. writer[w] # "idle" /\ Unlock(w) /\ UNCHANGED diskVars
      BY <1>2 DEF NothingToAdd, Fail
    <2>2. OneWriter' /\ \A v \in Writers : writer'[v] = "idle"
      BY <2>1, UnlockFacts
    <2> QED BY <2>1, <2>2 DEF Withdrawn, Written, Saving, ReadyIsOnePair, Ready,
                              IndexIs, MetaIs, diskVars
  <1>3. CASE Extend(w) \/ Reject(w)
    <2>1. /\ \A v \in Writers : writer'[v] \in {"idle", "invalidate", "dropIndex"}
          /\ OneWriter'
      BY <1>0, <1>3 DEF OneWriter, Extend, Reject, Goes, WriterStates
    <2>2. UNCHANGED diskVars
      BY <1>3 DEF Extend, Reject
    <2> QED BY <2>1, <2>2 DEF Withdrawn, Written, Saving, ReadyIsOnePair, Ready,
                              IndexIs, MetaIs, diskVars
  <1>4. CASE DropIndex(w) \/ DropMeta(w) \/ DropMarker(w)
    <2>1. /\ \A v \in Writers : writer'[v] \in {"idle", "dropMeta", "dropMarker",
                                                "invalidate"}
          /\ OneWriter'
      BY <1>0, <1>4
      DEF OneWriter, DropIndex, DropMeta, DropMarker, Goes, WriterStates
    <2>2. ~Ready'
      BY <1>4 DEF DropIndex, DropMeta, DropMarker, Ready, IndexIs, MetaIs
    <2> QED BY <2>1, <2>2 DEF Withdrawn, Written, Saving, ReadyIsOnePair
  <1>5. CASE Invalidate(w)
    <2>1. /\ \A v \in Writers : writer'[v] \in {"idle", "saveIndex"}
          /\ OneWriter'
      BY <1>0, <1>5 DEF OneWriter, Invalidate, Goes, WriterStates
    <2> QED BY <1>5, <2>1 DEF Invalidate, Withdrawn, Written, ReadyIsOnePair, Ready
  <1>6. CASE SaveIndex(w)
    <2>1. /\ writer' = [writer EXCEPT ![w] = "saveMeta"]
          /\ OneWriter'
      BY <1>0, <1>6 DEF OneWriter, SaveIndex, Goes, WriterStates
    <2>2. marker' = None /\ index'.ids = content'[w]
      BY <1>6 DEF SaveIndex, Withdrawn, Saving
    <2> QED BY <1>0, <1>6, <2>1, <2>2
            DEF SaveIndex, OneWriter, Withdrawn, Written, ReadyIsOnePair, Ready
  <1>7. CASE SaveMeta(w)
    <2>1. /\ writer' = [writer EXCEPT ![w] = "publish"]
          /\ OneWriter'
      BY <1>0, <1>7 DEF OneWriter, SaveMeta, Goes, WriterStates
    <2>2. /\ marker' = None
          /\ index'.ids = content'[w]
          /\ meta'.ids = content'[w]
      BY <1>7 DEF SaveMeta, Withdrawn, Written, Saving
    <2> QED BY <1>0, <1>7, <2>1, <2>2
            DEF SaveMeta, OneWriter, Withdrawn, Written, ReadyIsOnePair, Ready
  <1>8. CASE Publish(w)
    <2>1. writer[w] # "idle" /\ Unlock(w)
      BY <1>8 DEF Publish
    <2>2. OneWriter' /\ \A v \in Writers : writer'[v] = "idle"
      BY <2>1, UnlockFacts
    <2>3. index.ids = content[w] /\ meta.ids = content[w]
      BY <1>8 DEF Publish, Written
    <2>4. ReadyIsOnePair'
      BY <1>8, <2>3 DEF Publish, ReadyIsOnePair, Ready
    <2> QED BY <2>2, <2>4 DEF Withdrawn, Written, Saving
  <1> QED BY <1>1, <1>2, <1>3, <1>4, <1>5, <1>6, <1>7, <1>8 DEF WriterStep

\* No step of a reader touches the disk or a writer.
LEMMA ReadersWriteNothing ==
  ASSUME (\E t \in Threads : ThreadStep(t)) \/ Prime
  PROVE  UNCHANGED <<diskVars, writerVars>>
  BY DEF ThreadStep, ReadMarker, StatIndex, StatMeta, Enter, ReadIndex, ReadFails, Prime

\* The writers' invariant is an invariant.
THEOREM WritersInvariant == Spec => []IInv
  <1>1. IInv /\ [Next]_vars => IInv'
    <2> SUFFICES ASSUME IInv, [Next]_vars PROVE IInv'
      OBVIOUS
    <2>1. CASE \E w \in Writers : WriterStep(w)
      BY <2>1, WriterKeepsIInv
    <2>2. CASE (\E t \in Threads : ThreadStep(t)) \/ Prime
      BY <2>2, ReadersWriteNothing, ReadersKeepIInv
    <2>3. CASE UNCHANGED vars
      BY <2>3, ReadersKeepIInv DEF vars
    <2> QED BY <2>1, <2>2, <2>3 DEF Next
  <1> QED BY InitIInv, <1>1, PTL DEF Spec

\* A pair that _faiss_ready_identity_if_complete() accepts was written
\* together, wherever a writer failed or was killed.
THEOREM ReadyPairIsWhole == Spec => []ReadyIsOnePair
  <1>1. IInv => ReadyIsOnePair
    BY DEF IInv
  <1> QED BY WritersInvariant, <1>1, PTL

\* add_embedding() with atomic_save_faiss_pair() implements AtomicPair: pairs
\* become visible whole and are withdrawn before they are replaced.
THEOREM WritersKeepPromise == Spec => KeepsPromise
  <1>1. Init => Promise!Init
    BY DEF Init, Promise!Init, Visible, Ready
  <1>2. IInv /\ IInv' /\ [Next]_vars => [Promise!Publish \/ Promise!Withdraw]_Visible
    <2> SUFFICES ASSUME IInv, IInv', [Next]_vars, Visible' # Visible
                 PROVE  Promise!Publish \/ Promise!Withdraw
      OBVIOUS
    <2>1. Visible # None => Ready /\ Visible = [index |-> index.ids, meta |-> meta.ids]
      BY DEF Visible
    <2>2. Visible' # None => /\ Ready'
                             /\ Visible' = [index |-> index'.ids, meta |-> meta'.ids]
      BY DEF Visible
    <2>3. ~UNCHANGED diskVars
      BY DEF Visible, Ready, IndexIs, MetaIs, diskVars
    <2>4. PICK w \in Writers : WriterStep(w)
      BY <2>3, ReadersWriteNothing DEF Next, vars
    <2>5. CASE Publish(w)
      <3>1. Visible = None
        BY <2>5 DEF Publish, IInv, Withdrawn, Saving, Visible, Ready
      <3>2. Visible'.index = Visible'.meta
        BY <2>2, <3>1 DEF IInv, ReadyIsOnePair
      <3> QED BY <3>1, <3>2 DEF Promise!Publish
    <2>6. CASE SaveIndex(w) \/ SaveMeta(w)
      BY <2>6 DEF SaveIndex, SaveMeta, IInv, Withdrawn, Saving, Visible, Ready
    <2>7. CASE DropIndex(w) \/ DropMeta(w) \/ DropMarker(w) \/ Invalidate(w)
      <3>1. Visible' = None
        BY <2>7 DEF DropIndex, DropMeta, DropMarker, Invalidate, Visible, Ready,
                    IndexIs, MetaIs
      <3> QED BY <3>1 DEF Promise!Withdraw
    <2>8. Publish(w) \/ SaveIndex(w) \/ SaveMeta(w) \/ DropIndex(w) \/ DropMeta(w)
            \/ DropMarker(w) \/ Invalidate(w)
      BY <2>3, <2>4 DEF WriterStep, Lock, NothingToAdd, Extend, Reject, Fail, diskVars
    <2> QED BY <2>5, <2>6, <2>7, <2>8
  <1> QED BY <1>1, <1>2, WritersInvariant, PTL DEF Spec, Promise!Spec, KeepsPromise

-----------------------------------------------------------------------------
(***************************************************************************)
(* The readers.  An entry names the pair its marker vouched for, and may   *)
(* have been read of another one meanwhile: but then the pair it names is  *)
(* gone, and its version never comes again.                                *)
(***************************************************************************)
\* Versions of files that have been written so far.
Old(id) ==
    /\ id.index \in Nat /\ id.index <= version
    /\ id.meta \in Nat /\ id.meta <= version

Versions ==
    /\ version \in Nat
    /\ index # None => index.version \in Nat /\ index.version <= version
    /\ meta # None => meta.version \in Nat /\ meta.version <= version
    /\ marker # None => Old(marker)

\* An entry, of which each part is current while the file it names is there.
Current(e) ==
    /\ e = [identity |-> e.identity, meta |-> e.meta, index |-> e.index]
    /\ Old(e.identity)
    /\ MetaIs(e.identity) => e.meta = meta.ids
    /\ IndexIs(e.identity) /\ e.index # None => e.index = index.ids

\* The mutex keeps the entry that a thread reads the index of.
ReaderInv ==
    /\ thread = [t \in Threads |-> thread[t]]
    /\ seen = [t \in Threads |-> seen[t]]
    /\ got = [t \in Threads |-> got[t]]
    /\ \A t \in Threads : thread[t] \in {"statIndex", "statMeta", "enter"} => Old(seen[t])
    /\ \A t \in Threads : thread[t] = "read" => mutex = t
    /\ mutex # None => cache # None

CacheInv ==
    /\ Versions
    /\ ReaderInv
    /\ cache # None => Current(cache)
    /\ \A t \in Threads : got[t] # None => Current(got[t])

\* A file stays, goes, or is written anew.
LEMMA WriterOnDisk ==
  ASSUME NEW w \in Writers, WriterStep(w)
  PROVE  /\ \/ index' = index \/ index' = None
            \/ index' = [version |-> version + 1, ids |-> content[w]] /\ version' = version + 1
         /\ \/ meta' = meta \/ meta' = None
            \/ meta' = [version |-> version + 1, ids |-> content[w]] /\ version' = version + 1
         /\ \/ marker' = marker \/ marker' = None
            \/ /\ index # None /\ meta # None
               /\ marker' = [index |-> index.version, meta |-> meta.version,
                             rows |-> Len(content[w])]
         /\ version' \in {version, version + 1}
         /\ UNCHANGED readerVars
  BY DEF WriterStep, Lock, NothingToAdd, Extend, Reject, DropIndex, DropMeta, DropMarker,
         Invalidate, SaveIndex, SaveMeta, Publish, Fail, diskVars

\* What a writer does leaves the entries current or names of what is gone.
LEMMA WriterKeepsCacheInv ==
  ASSUME CacheInv, NEW w \in Writers, WriterStep(w)
  PROVE  CacheInv'
  <1>1. Versions
    BY DEF CacheInv
  <1>2. \A id : Old(id) => Old(id)'
    BY <1>1, WriterOnDisk DEF Old, Versions
  <1>3. Versions'
    <2>1. version' \in Nat /\ version' >= version
      BY <1>1, WriterOnDisk DEF Versions
    <2>2. index' # None => index'.version \in Nat /\ index'.version <= version'
      BY <1>1, <2>1, WriterOnDisk DEF Versions
    <2>3. meta' # None => meta'.version \in Nat /\ meta'.version <= version'
      BY <1>1, <2>1, WriterOnDisk DEF Versions
    <2>4. marker' # None => Old(marker)'
      BY <1>1, <2>1, WriterOnDisk DEF Versions, Old
    <2> QED BY <2>1, <2>2, <2>3, <2>4 DEF Versions
  <1>4. ASSUME NEW e, Current(e) PROVE Current(e)'
    <2>1. Old(e.identity) /\ Old(e.identity)'
      BY <1>2, <1>4 DEF Current
    <2>2. MetaIs(e.identity)' => e.meta = meta'.ids
      BY <1>1, <1>4, <2>1, WriterOnDisk DEF Current, MetaIs, Versions, Old
    <2>3. IndexIs(e.identity)' /\ e.index # None => e.index = index'.ids
      BY <1>1, <1>4, <2>1, WriterOnDisk DEF Current, IndexIs, Versions, Old
    <2> QED BY <1>4, <2>1, <2>2, <2>3 DEF Current
  <1>5. UNCHANGED <<thread, seen, mutex, cache, got>>
    BY WriterOnDisk DEF readerVars
  <1>6. ReaderInv'
    BY <1>2, <1>5 DEF CacheInv, ReaderInv
  <1> QED BY <1>3, <1>4, <1>5, <1>6 DEF CacheInv

\* With the disk at rest, what was current is current.
LEMMA DiskAtRest ==
  ASSUME UNCHANGED diskVars
  PROVE  /\ Versions => Versions'
         /\ \A e : Current(e) => Current(e)'
         /\ \A id : Old(id) => Old(id)'
  BY DEF diskVars, Versions, Current, Old, MetaIs, IndexIs

\* The entry kept or parsed for an identity is current.
LEMMA EntryIsCurrent ==
  ASSUME CacheInv, NEW id, Old(id), EntryFor(id) # None
  PROVE  Current(EntryFor(id))
  <1>1. CASE Kept(id) # None
    BY <1>1 DEF EntryFor, Kept, CacheInv
  <1>2. CASE Kept(id) = None
    <2>1. EntryFor(id) = [identity |-> id, meta |-> meta.ids, index |-> None]
      BY <1>2 DEF EntryFor, Parsed
    <2> QED BY <2>1 DEF Current
  <1> QED BY <1>1, <1>2

\* What a thread reads is current when it is read.
LEMMA ThreadKeepsCacheInv ==
  ASSUME CacheInv, NEW t \in Threads, ThreadStep(t)
  PROVE  CacheInv'
  <1>1. UNCHANGED diskVars
    BY ReadersWriteNothing
  <1>2. /\ Versions' /\ ReaderInv
        /\ \A e : Current(e) => Current(e)'
        /\ \A id : Old(id) => Old(id)'
    BY <1>1, DiskAtRest DEF CacheInv
  <1>3. CASE ReadMarker(t)
    <2>1. marker # None /\ Old(marker)
      BY <1>3 DEF ReadMarker, CacheInv, Versions
    <2>2. ReaderInv'
      BY <1>2, <1>3, <2>1 DEF ReadMarker, Moves, ReaderInv
    <2> QED BY <1>2, <1>3, <2>2 DEF ReadMarker, CacheInv
  <1>4. CASE StatIndex(t) \/ StatMeta(t)
    <2>1. ReaderInv'
      BY <1>2, <1>4 DEF StatIndex, StatMeta, GivesUp, Moves, ReaderInv
    <2> QED BY <1>2, <1>4, <2>1 DEF StatIndex, StatMeta, CacheInv
  <1>5. CASE Enter(t)
    <2>1. mutex = None /\ thread[t] = "enter" /\ cache' = EntryFor(seen[t])
      BY <1>5 DEF Enter
    <2>2. Old(seen[t])
      BY <1>2, <2>1 DEF ReaderInv
    <2>3. cache' # None => Current(cache)'
      <3>1. cache' # None => Current(cache')
        BY <2>1, <2>2, EntryIsCurrent
      <3> QED BY <1>2, <3>1
    <2>4. \A u \in Threads : thread[u] # "read"
      BY <1>2, <2>1, FaissCacheAssumption DEF ReaderInv, FaissCacheAssumption
    <2>5. ReaderInv'
      BY <1>2, <1>5, <2>1, <2>4 DEF Enter, Returns, GivesUp, Moves, ReaderInv
    <2>6. \A u \in Threads : got'[u] = got[u] \/ (got'[u] = cache' /\ cache' # None)
      BY <1>2, <1>5 DEF Enter, Returns, ReaderInv
    <2>7. \A u \in Threads : got'[u] # None => Current(got[u])'
      <3> SUFFICES ASSUME NEW u \in Threads, got'[u] # None PROVE Current(got[u])'
        OBVIOUS
      <3>1. CASE got'[u] = got[u]
        <4>1. Current(got'[u])
          BY <3>1 DEF CacheInv
        <4> QED BY <1>2, <4>1
      <3>2. CASE got'[u] = cache' /\ cache' # None
        <4>1. Current(cache)' /\ got'[u] = cache'
          BY <2>3, <3>2
        <4> QED BY <4>1 DEF Current, Old, MetaIs, IndexIs
      <3> QED BY <2>6, <3>1, <3>2
    <2> QED BY <1>2, <2>3, <2>5, <2>7 DEF CacheInv
  <1>6. CASE ReadIndex(t)
    <2>1. /\ thread[t] = "read" /\ index # None /\ mutex' = None
          /\ cache' = [cache EXCEPT !.index = index.ids] /\ Returns(t, cache')
      BY <1>6 DEF ReadIndex
    <2>2. Current(cache)
      BY <1>2, <2>1, FaissCacheAssumption DEF ReaderInv, CacheInv, FaissCacheAssumption
    <2>3. cache' = [identity |-> cache.identity, meta |-> cache.meta, index |-> index.ids]
      BY <2>1, <2>2 DEF Current
    <2>4. Current(cache)'
      BY <1>1, <2>2, <2>3 DEF Current, diskVars, Old, MetaIs, IndexIs
    <2>5. \A u \in Threads : u # t => thread[u] # "read"
      BY <1>2, <2>1 DEF ReaderInv
    <2>6. ReaderInv'
      BY <1>2, <2>1, <2>5 DEF Returns, GivesUp, Moves, ReaderInv
    <2>7. \A u \in Threads : got'[u] = got[u] \/ got'[u] = cache'
      BY <1>2, <2>1 DEF Returns, ReaderInv
    <2>8. \A u \in Threads : got'[u] # None => Current(got[u])'
      <3> SUFFICES ASSUME NEW u \in Threads, got'[u] # None PROVE Current(got[u])'
        OBVIOUS
      <3>1. CASE got'[u] = got[u]
        <4>1. Current(got'[u])
          BY <3>1 DEF CacheInv
        <4> QED BY <1>2, <4>1
      <3>2. CASE got'[u] = cache'
        BY <2>4, <3>2 DEF Current, Old, MetaIs, IndexIs
      <3> QED BY <2>7, <3>1, <3>2
    <2> QED BY <1>2, <2>4, <2>6, <2>8 DEF CacheInv
  <1>7. CASE ReadFails(t)
    <2>1. \A u \in Threads : u # t => thread[u] # "read"
      BY <1>2, <1>7 DEF ReaderInv, ReadFails
    <2>2. ReaderInv'
      BY <1>2, <1>7, <2>1 DEF ReadFails, GivesUp, Moves, ReaderInv
    <2> QED BY <1>2, <1>7, <2>2 DEF ReadFails, CacheInv
  <1> QED BY <1>3, <1>4, <1>5, <1>6, <1>7 DEF ThreadStep

\* A writer that primes the cache puts the pair it has published there.
LEMMA PrimeKeepsCacheInv ==
  ASSUME CacheInv, Prime
  PROVE  CacheInv'
  <1>1. /\ UNCHANGED diskVars /\ marker # None /\ mutex = None /\ cache' = EntryFor(marker)
        /\ UNCHANGED <<thread, seen, mutex, got>>
    BY DEF Prime, Ready
  <1>2. /\ Versions' /\ Old(marker) /\ ReaderInv
        /\ \A e : Current(e) => Current(e)'
        /\ \A id : Old(id) => Old(id)'
    BY <1>1, DiskAtRest DEF CacheInv, Versions
  <1>3. cache' # None => Current(cache)'
    <2>1. cache' # None => Current(cache')
      BY <1>1, <1>2, EntryIsCurrent
    <2> QED BY <1>2, <2>1
  <1>4. ReaderInv'
    BY <1>1, <1>2 DEF ReaderInv
  <1> QED BY <1>1, <1>2, <1>3, <1>4 DEF CacheInv

\* The process cache of load_read_only_faiss_pair is never behind the disk: not for an entry
\* read while the pair was replaced, and not for one read before.
THEOREM CacheIsCurrent == Spec => []EntriesAreCurrent
  <1>1. Init => CacheInv
    BY FaissCacheAssumption DEF Init, CacheInv, Versions, ReaderInv
  <1>2. CacheInv /\ [Next]_vars => CacheInv'
    <2> SUFFICES ASSUME CacheInv, [Next]_vars PROVE CacheInv'
      OBVIOUS
    <2>1. CASE UNCHANGED vars
      <3>1. UNCHANGED diskVars /\ UNCHANGED <<thread, seen, mutex, cache, got>>
        BY <2>1 DEF vars, readerVars
      <3> QED BY <3>1, DiskAtRest DEF CacheInv, ReaderInv
    <2> QED BY <2>1, WriterKeepsCacheInv, ThreadKeepsCacheInv, PrimeKeepsCacheInv DEF Next
  <1>3. CacheInv => EntriesAreCurrent
    <2> SUFFICES ASSUME CacheInv,
                        NEW e \in ({cache} \cup {got[t] : t \in Threads}) \ {None}
                 PROVE  IndexIs(e.identity) /\ MetaIs(e.identity) =>
                          /\ e.meta = meta.ids
                          /\ e.index # None => e.index = index.ids
      BY DEF EntriesAreCurrent
    <2>1. Current(e)
      BY DEF CacheInv
    <2> QED BY <2>1 DEF Current
  <1> QED BY <1>1, <1>2, <1>3, PTL DEF Spec

-----------------------------------------------------------------------------
(***************************************************************************)
(* Ingestion. An evaluation that was not robbed of a pair by a dying builder *)
(* opens an index of exactly its corpus, whatever other builders do to the   *)
(* same pair meanwhile.                                                      *)
(***************************************************************************)

Locked == {"locked", "build", "save"}
Adding == {"encode", "add"} \cup Locked
Pickled == {"check", "load", "open"} \cup Adding
IngestSteps == {"idle", "bm25"} \cup Pickled

\* Ids of a corpus, each at most once.
IsPart(s, docs) == s \in Seq(ToSet(docs)) /\ IsInjective(s)
AreBatches(s, docs) == s \in Seq({b \in Seq(ToSet(docs)) : IsInjective(b) /\ b # <<>>})

IngestTypes ==
  /\ doing \in [Builders -> IngestSteps] /\ job \in [Builders -> IngestJobs]
  /\ lost \in [Builders -> BOOLEAN]
  /\ pickled = [p \in Builders |-> pickled[p]] /\ memory = [p \in Builders |-> memory[p]]
  /\ batches = [p \in Builders |-> batches[p]] /\ opened = [p \in Builders |-> opened[p]]
  /\ pair = [k \in Paths |-> pair[k]] /\ owner = [k \in Paths |-> owner[k]]

\* What is stored, held and still to be added is of the corpus.
StoresSound ==
  \A j \in IngestJobs :
    Shaped(pair[PathOf(j)], j) => IsPart(pair[PathOf(j)].ids, DocIds[j.corpus])
BuilderSound(p) ==
  /\ IsPart(memory[p], Docs(p))
  /\ doing[p] \in Adding => AreBatches(batches[p], Docs(p)) /\ batches[p] # <<>>

\* The build lock is with the builder that works under it.
LocksHeld ==
  \A k \in Paths : owner[k] # NoPair =>
    owner[k] \in Builders /\ doing[owner[k]] \in Locked /\ Path(owner[k]) = k

\* Under it, memory is the pair as it stands, until the pair is withdrawn.
UnderLock(p) ==
  /\ doing[p] \in Locked => owner[Path(p)] = p
  /\ doing[p] = "build" => /\ memory[p] = Loaded(p)
                           /\ ~(ToSet(Head(batches[p])) \subseteq ToSet(Loaded(p)))
  /\ doing[p] = "save" => /\ pair[Path(p)] = NoPair
                          /\ ToSet(Head(batches[p])) \subseteq ToSet(memory[p])

\* The ids that a path's index has: in its pair, or with the builder that rewrites it.
Rewriting(k) == {q \in Builders : doing[q] = "save" /\ Path(q) = k}
Held(p) == ToSet(Loaded(p)) \cup UNION {ToSet(memory[q]) : q \in Rewriting(Path(p))}
ToCome(p) == UNION {ToSet(batches[p][i]) : i \in DOMAIN batches[p]}

\* Nothing is forgotten: an id of the corpus is there or still to be added.
Progress(p) ==
  ~lost[p] =>
    /\ doing[p] \in Adding => /\ ToSet(Docs(p)) \subseteq Held(p) \cup ToCome(p)
                              /\ ToSet(memory[p]) \subseteq Held(p)
    /\ doing[p] = "open" => /\ Shaped(pair[Path(p)], job[p])
                            /\ ToSet(Docs(p)) \subseteq ToSet(Loaded(p))

\* Who rewrites a pair adds an id that nobody on the path has seen yet: so nobody has
\* finished, nor can while the pair is away.
Ignores(p, d) ==
  /\ doing[p] \in Adding => d \notin ToSet(memory[p]) /\ d \in ToCome(p)
  /\ doing[p] # "open"
Newcomer ==
  \A q \in Builders : doing[q] = "save" =>
    \E d \in ToSet(Docs(q)) : \A p \in Builders \ {q} :
      Path(p) = Path(q) /\ ~lost[p] => Ignores(p, d)

Outcome(p) ==
  /\ doing[p] \in Pickled => pickled[p] = job[p].corpus
  /\ opened[p] # NoPair =>
     /\ opened[p].sparse = job[p].corpus /\ IsPart(opened[p].dense, Docs(p))
     /\ ~lost[p] => ToSet(opened[p].dense) = ToSet(Docs(p))

IngestInv ==
  /\ IngestTypes /\ StoresSound /\ LocksHeld /\ Newcomer
  /\ \A p \in Builders : BuilderSound(p) /\ UnderLock(p) /\ Progress(p) /\ Outcome(p)

\* Membership, as the lists of ids have it.
LEMMA InList ==
  ASSUME NEW S, NEW s \in Seq(S)
  PROVE  /\ \A e : Contains(s, e) <=> e \in ToSet(s)
         /\ ToSet(s) \subseteq S /\ s \in Seq(ToSet(s)) /\ (s # <<>> <=> ToSet(s) # {})
         /\ s # <<>> => Head(s) \in ToSet(s)
<1>1. Len(s) \in Nat /\ DOMAIN s = 1 .. Len(s)
  OBVIOUS
<1>2. ToSet(s) = {s[i] : i \in 1 .. Len(s)}
  BY <1>1 DEF ToSet
<1>3. \A e : Contains(s, e) <=> e \in ToSet(s)
  BY <1>2 DEF Contains
<1>4. s \in Seq(ToSet(s)) /\ ToSet(s) \subseteq S
  BY <1>1, <1>2
<1>5. s # <<>> => 1 \in 1 .. Len(s) /\ Head(s) = s[1]
  BY <1>1
<1>6. s = <<>> => 1 .. Len(s) = {}
  BY <1>1
<1> QED BY <1>2, <1>3, <1>4, <1>5, <1>6

\* A list has a batch when it has each of its ids.
LEMMA HasFacts ==
  ASSUME NEW S, NEW s \in Seq(S), NEW t
  PROVE  Has(s, t) <=> ToSet(t) \subseteq ToSet(s)
BY InList DEF Has

\* filter_exist_ids: the ids that are not there, in their order.
LEMMA LackingFacts ==
  ASSUME NEW S, NEW s \in Seq(S), NEW t \in Seq(S)
  PROVE  /\ Lacking(s, t) \in Seq(S) /\ ToSet(Lacking(s, t)) = ToSet(s) \ ToSet(t)
         /\ IsInjective(s) => IsInjective(Lacking(s, t))
<1> DEFINE at == {i \in DOMAIN s : ~Contains(t, s[i])}
<1>1. at \in SUBSET DOMAIN s
  OBVIOUS
<1>2. Lacking(s, t) = Picked(s, at)
  BY DEF Lacking
<1>3. \A i \in DOMAIN s : i \in at <=> s[i] \notin ToSet(t)
  BY InList
<1> HIDE DEF at
<1>4. {s[i] : i \in at} = ToSet(s) \ ToSet(t)
  BY <1>1, <1>3 DEF ToSet
<1> QED BY <1>1, <1>2, <1>4, PickedFacts

\* Adding what is not there yet.
LEMMA JoinFacts ==
  ASSUME NEW S, NEW s \in Seq(S), NEW t \in Seq(S)
  PROVE  /\ s \o t \in Seq(S) /\ ToSet(s \o t) = ToSet(s) \cup ToSet(t)
         /\ IsInjective(s) /\ IsInjective(t) /\ ToSet(s) \cap ToSet(t) = {} => IsInjective(s \o t)
<1>1. /\ Len(s) \in Nat /\ Len(t) \in Nat /\ DOMAIN s = 1 .. Len(s) /\ DOMAIN t = 1 .. Len(t)
      /\ s \o t \in Seq(S) /\ DOMAIN (s \o t) = 1 .. Len(s) + Len(t)
      /\ \A i \in 1 .. Len(s) + Len(t) :
           (s \o t)[i] = IF i <= Len(s) THEN s[i] ELSE t[i - Len(s)]
  BY ConcatProperties
<1>2. PICK r : r = s \o t
  OBVIOUS
<1>3. \A i \in DOMAIN s : i \in DOMAIN r /\ r[i] = s[i]
  BY <1>1, <1>2
<1>4. \A i \in DOMAIN t : Len(s) + i \in DOMAIN r /\ r[Len(s) + i] = t[i]
  <2> TAKE i \in DOMAIN t
  <2>1. Len(s) + i \in 1 .. Len(s) + Len(t) /\ ~(Len(s) + i <= Len(s)) /\ (Len(s) + i) - Len(s) = i
    BY <1>1
  <2> QED BY <2>1, <1>1, <1>2
<1>5. \A i \in DOMAIN r : \/ i \in DOMAIN s /\ r[i] = s[i]
                          \/ i - Len(s) \in DOMAIN t /\ ~(i <= Len(s)) /\ r[i] = t[i - Len(s)]
  BY <1>1, <1>2
<1>6. ToSet(r) = ToSet(s) \cup ToSet(t)
  BY <1>3, <1>4, <1>5 DEF ToSet
<1>7. ASSUME IsInjective(s), IsInjective(t), ToSet(s) \cap ToSet(t) = {}
      PROVE  IsInjective(r)
  <2> SUFFICES ASSUME NEW i \in DOMAIN r, NEW j \in DOMAIN r, r[i] = r[j] PROVE i = j
    BY DEF IsInjective
  <2>1. \A k \in DOMAIN s, l \in DOMAIN t : s[k] # t[l]
    BY <1>7 DEF ToSet
  <2>2. \A k, l \in DOMAIN s : s[k] = s[l] => k = l
    BY <1>7 DEF IsInjective
  <2>3. \A k, l \in DOMAIN t : t[k] = t[l] => k = l
    BY <1>7 DEF IsInjective
  <2>4. i \in DOMAIN s /\ j \in DOMAIN s => i = j
    BY <2>2, <1>3
  <2>5. CASE i - Len(s) \in DOMAIN t /\ r[i] = t[i - Len(s)]
    <3>1. j - Len(s) \in DOMAIN t /\ r[j] = t[j - Len(s)]
      BY <2>1, <2>5, <1>5
    <3>2. i - Len(s) = j - Len(s)
      BY <3>1, <2>3, <2>5
    <3>3. i \in Int /\ j \in Int
      BY <1>1, <1>2
    <3> QED BY <3>2, <3>3, <1>1
  <2>6. CASE j - Len(s) \in DOMAIN t /\ r[j] = t[j - Len(s)]
    <3>1. i - Len(s) \in DOMAIN t /\ r[i] = t[i - Len(s)]
      BY <2>1, <2>6, <1>5
    <3>2. i - Len(s) = j - Len(s)
      BY <3>1, <2>3, <2>6
    <3>3. i \in Int /\ j \in Int
      BY <1>1, <1>2
    <3> QED BY <3>2, <3>3, <1>1
  <2> QED BY <2>4, <2>5, <2>6, <1>5
<1> QED BY <1>1, <1>2, <1>6, <1>7

\* As many ids as the corpus has, each of them once, are the corpus.
LEMMA AsMany ==
  ASSUME NEW S, NEW s \in Seq(S), NEW t \in Seq(ToSet(s)),
         IsInjective(s), IsInjective(t), Len(s) = Len(t)
  PROVE  ToSet(t) = ToSet(s)
<1>1. \A u, R : u \in Seq(R) /\ IsInjective(u) => IsFiniteSet(ToSet(u)) /\ Cardinality(ToSet(u)) = Len(u)
  <2> SUFFICES ASSUME NEW u, NEW R, u \in Seq(R), IsInjective(u)
               PROVE  IsFiniteSet(ToSet(u)) /\ Cardinality(ToSet(u)) = Len(u)
    OBVIOUS
  <2>1. Len(u) \in Nat /\ DOMAIN u = 1 .. Len(u) /\ u \in [1 .. Len(u) -> R]
    OBVIOUS
  <2>2. IsFiniteSet(1 .. Len(u)) /\ Cardinality(1 .. Len(u)) = Len(u)
    <3>1. PICK n \in Nat : n = Len(u)
      BY <2>1
    <3>0. 1 \in Int /\ n \in Int
      OBVIOUS
    <3>2. IsFiniteSet(1 .. n) /\ Cardinality(1 .. n) = IF 1 > n THEN 0 ELSE n - 1 + 1
      BY ONLY <3>0, FS_Interval
    <3>3. Cardinality(1 .. n) = n
      BY <3>2
    <3> QED BY <3>1, <3>2, <3>3
  <2>3. u \in Bijection(1 .. Len(u), ToSet(u))
    BY <2>1 DEF Bijection, Injection, Surjection, IsInjective, ToSet
  <2>4. ExistsBijection(1 .. Len(u), ToSet(u))
    BY <2>3 DEF ExistsBijection
  <2> QED BY <2>2, <2>4, FS_Bijection
<1>2. ToSet(t) \subseteq ToSet(s)
  BY InList
<1>3. /\ IsFiniteSet(ToSet(s)) /\ Cardinality(ToSet(s)) = Len(s)
      /\ IsFiniteSet(ToSet(t)) /\ Cardinality(ToSet(t)) = Len(t)
  BY <1>1
<1> QED BY <1>2, <1>3, FS_Subset

\* Taking the first of the batches.
LEMMA FirstBatch ==
  ASSUME NEW B, NEW b \in Seq(B), b # <<>>
  PROVE  /\ Head(b) \in B /\ Tail(b) \in Seq(B) /\ (Tail(b) = <<>> <=> Len(b) = 1)
         /\ UNION {ToSet(b[i]) : i \in DOMAIN b}
              = ToSet(Head(b)) \cup UNION {ToSet(Tail(b)[i]) : i \in DOMAIN Tail(b)}
<1>1. /\ Len(b) \in Nat /\ Len(b) # 0 /\ DOMAIN b = 1 .. Len(b) /\ Head(b) = b[1]
      /\ Tail(b) \in Seq(B) /\ Len(Tail(b)) = Len(b) - 1 /\ DOMAIN Tail(b) = 1 .. Len(b) - 1
      /\ \A i \in 1 .. Len(b) - 1 : Tail(b)[i] = b[i + 1]
  OBVIOUS
<1>2. PICK t : t = Tail(b)
  OBVIOUS
<1>3. \A i \in DOMAIN t : i + 1 \in DOMAIN b /\ t[i] = b[i + 1]
  BY <1>1, <1>2
<1>4. \A i \in DOMAIN b : i = 1 \/ (i - 1 \in DOMAIN t /\ t[i - 1] = b[i])
  <2> TAKE i \in DOMAIN b
  <2>1. i = 1 \/ (i - 1 \in 1 .. Len(b) - 1 /\ (i - 1) + 1 = i)
    BY <1>1
  <2> QED BY <2>1, <1>1, <1>2
<1>5. UNION {ToSet(b[i]) : i \in DOMAIN b} = ToSet(b[1]) \cup UNION {ToSet(t[i]) : i \in DOMAIN t}
  <2>1. 1 \in DOMAIN b
    BY <1>1
  <2> QED BY <2>1, <1>3, <1>4
<1>6. Head(b) \in B
  BY <1>1
<1>7. t = <<>> <=> Len(b) = 1
  BY <1>1, <1>2
<1> QED BY <1>1, <1>2, <1>5, <1>6, <1>7

\* The corpus of an evaluation; evaluations of one path are of one corpus and shape.
LEMMA OfTheJob ==
  ASSUME NEW j \in IngestJobs
  PROVE  /\ PathOf(j) \in Paths /\ j.lists \in Nat \ {0} /\ j.kind \in {"ivf", "hnsw"}
         /\ DocIds[j.corpus] \in Seq(ToSet(DocIds[j.corpus])) /\ DocIds[j.corpus] # <<>>
         /\ IsPart(DocIds[j.corpus], DocIds[j.corpus])
         /\ IsPart(<<>>, DocIds[j.corpus])
<1>1. IsPart(<<>>, DocIds[j.corpus])
  BY DEF IsPart, IsInjective
<1> QED BY <1>1, IngestAssumption DEF Paths, IsPart

\* What a path stands for: one corpus and one shape, whoever names it.
LEMMA OfThePath ==
  ASSUME KeyedByCorpus, NEW j \in IngestJobs, NEW k \in IngestJobs, PathOf(j) = PathOf(k)
  PROVE  /\ DocIds[j.corpus] = DocIds[k.corpus]
         /\ \A x : Shaped(x, j) <=> Shaped(x, k)
BY DEF KeyedByCorpus, PathOf, Shaped, IvfShape, HnswShape

\* A builder's step that no other builder sees: it leaves the pairs that fit an
\* evaluation, and who rewrites them.
SamePairs ==
  \A j \in IngestJobs :
    /\ Shaped(pair[PathOf(j)], j) => pair'[PathOf(j)] = pair[PathOf(j)]
    /\ Shaped(pair'[PathOf(j)], j) => pair'[PathOf(j)] = pair[PathOf(j)]
    /\ pair[PathOf(j)] = NoPair => pair'[PathOf(j)] = NoPair
SameBuilder(q) ==
  /\ doing'[q] = doing[q] /\ job'[q] = job[q] /\ memory'[q] = memory[q]
  /\ batches'[q] = batches[q] /\ opened'[q] = opened[q] /\ pickled'[q] = pickled[q]
Quiet(p) ==
  /\ SamePairs /\ doing[p] # "save" /\ doing'[p] # "save"
  /\ \A q \in Builders \ {p} :
       /\ SameBuilder(q) /\ lost'[q] = lost[q]
       /\ doing[q] \in Locked => owner'[Path(q)] = q

\* Nor does it take from a rewriter the id that is new on the path.
StillNew(p) ==
  \A q \in Builders \ {p} : \A d \in ToSet(Docs(q)) :
    /\ doing[q] = "save"
    /\ Path(p) = Path(q) /\ ~lost[p] => Ignores(p, d)
    => (Path(p)' = Path(q) /\ ~lost'[p] => Ignores(p, d)')

\* After such a step, only what the invariant says of its builder is in question.
LEMMA QuietKeeps ==
  ASSUME IngestInv, NEW p \in Builders, Quiet(p), StillNew(p), IngestTypes', LocksHeld',
         (BuilderSound(p) /\ UnderLock(p) /\ Progress(p) /\ Outcome(p))'
  PROVE  IngestInv'
<1>1. \A q \in Builders : job[q] \in IngestJobs /\ job'[q] \in IngestJobs
  BY DEF IngestInv, IngestTypes
<1>2. \A q \in Builders \ {p} : SameBuilder(q) /\ lost'[q] = lost[q]
  BY DEF Quiet
<1>3. \A q \in Builders \ {p} :
        Docs(q)' = Docs(q) /\ Path(q)' = Path(q) /\ ToCome(q)' = ToCome(q)
  BY <1>2 DEF SameBuilder, Docs, Path, ToCome
<1>4. \A q \in Builders \ {p} : Loaded(q)' = Loaded(q)
  BY <1>1, <1>2 DEF Quiet, SamePairs, SameBuilder, Loaded, Path
<1>5. \A k : Rewriting(k)' = Rewriting(k)
  BY <1>2, <1>3 DEF Quiet, SameBuilder, Rewriting
<1>6. \A q \in Builders \ {p} : Held(q)' = Held(q)
  <2> TAKE q \in Builders \ {p}
  <2>1. \A k : p \notin Rewriting(k)
    BY DEF Quiet, Rewriting
  <2>2. \A k : \A r \in Rewriting(k) : memory'[r] = memory[r]
    BY <1>2, <2>1 DEF Rewriting, SameBuilder
  <2>3. UNION {ToSet(memory'[r]) : r \in Rewriting(Path(q))}
          = UNION {ToSet(memory[r]) : r \in Rewriting(Path(q))}
    BY <2>2
  <2> QED BY <1>3, <1>4, <1>5, <2>3 DEF Held
<1>7. StoresSound'
  BY DEF StoresSound, IngestInv, Quiet, SamePairs
<1>8. ASSUME NEW q \in Builders \ {p}
      PROVE  (BuilderSound(q) /\ UnderLock(q) /\ Progress(q) /\ Outcome(q))'
  <2>1. BuilderSound(q) /\ UnderLock(q) /\ Progress(q) /\ Outcome(q)
    BY DEF IngestInv
  <2>2. /\ doing'[q] = doing[q] /\ job'[q] = job[q] /\ memory'[q] = memory[q] /\ lost'[q] = lost[q]
        /\ batches'[q] = batches[q] /\ opened'[q] = opened[q] /\ pickled'[q] = pickled[q]
        /\ Docs(q)' = Docs(q) /\ Path(q)' = Path(q) /\ ToCome(q)' = ToCome(q)
        /\ Loaded(q)' = Loaded(q) /\ Held(q)' = Held(q)
    BY <1>2, <1>3, <1>4, <1>6 DEF SameBuilder
  <2>3. BuilderSound(q)'
    BY <2>1, <2>2 DEF BuilderSound
  <2>4. UnderLock(q)'
    <3>1. doing[q] \in Locked => owner'[Path(q)] = q
      BY DEF Quiet
    <3>2. pair[Path(q)] = NoPair => pair'[Path(q)] = NoPair
      BY <1>1 DEF Quiet, SamePairs, Path
    <3> QED BY <3>1, <3>2, <2>1, <2>2 DEF UnderLock
  <2>5. Progress(q)'
    <3>1. Shaped(pair[Path(q)], job[q]) => pair'[Path(q)] = pair[Path(q)]
      BY <1>1 DEF Quiet, SamePairs, Path
    <3>2. Shaped(pair[Path(q)], job[q]) => Shaped(pair'[Path(q)], job[q])
      BY <3>1
    <3> QED BY <3>2, <2>1, <2>2 DEF Progress
  <2>6. Outcome(q)'
    BY <2>1, <2>2 DEF Outcome
  <2> QED BY <2>3, <2>4, <2>5, <2>6
<1>9. Newcomer'
  <2> SUFFICES ASSUME NEW q \in Builders, doing'[q] = "save"
               PROVE  \E d \in ToSet(Docs(q)') : \A r \in Builders \ {q} :
                        Path(r)' = Path(q)' /\ ~lost'[r] => Ignores(r, d)'
    BY DEF Newcomer
  <2>1. q # p /\ doing[q] = "save"
    BY <1>2 DEF Quiet, SameBuilder
  <2>2. PICK d \in ToSet(Docs(q)) : \A r \in Builders \ {q} :
          Path(r) = Path(q) /\ ~lost[r] => Ignores(r, d)
    BY <2>1 DEF Newcomer, IngestInv
  <2>3. ASSUME NEW r \in Builders \ {q}, Path(r)' = Path(q)', ~lost'[r]
        PROVE  Ignores(r, d)'
    <3>1. CASE r = p
      BY <3>1, <2>1, <2>2, <2>3, <1>3 DEF StillNew
    <3>2. CASE r # p
      <4>1. Ignores(r, d)
        BY <3>2, <2>1, <2>2, <2>3, <1>2, <1>3
      <4> QED BY <4>1, <3>2, <1>2, <1>3 DEF Ignores, SameBuilder
    <3> QED BY <3>1, <3>2
  <2>4. Docs(q)' = Docs(q)
    BY <2>1, <1>3
  <2> QED BY <2>3, <2>4
<1> QED BY <1>7, <1>8, <1>9 DEF IngestInv

\* What a builder knows of its corpus and of the pair on its path.
LEMMA Mine ==
  ASSUME IngestInv, NEW p \in Builders
  PROVE  /\ job[p] \in IngestJobs /\ Path(p) \in Paths /\ doing[p] \in IngestSteps
         /\ Docs(p) \in Seq(ToSet(Docs(p))) /\ ToSet(Docs(p)) # {} /\ IsPart(Docs(p), Docs(p))
         /\ IsPart(<<>>, Docs(p)) /\ IsPart(Loaded(p), Docs(p)) /\ IsPart(memory[p], Docs(p))
         /\ ~Shaped(pair[Path(p)], job[p]) => Loaded(p) = <<>>
         /\ ToSet(Loaded(p)) # {} => Shaped(pair[Path(p)], job[p])
         /\ BuilderSound(p) /\ UnderLock(p) /\ Progress(p) /\ Outcome(p)
<1>1. job[p] \in IngestJobs /\ doing[p] \in IngestSteps
  BY DEF IngestInv, IngestTypes
<1>2. BuilderSound(p) /\ UnderLock(p) /\ Progress(p) /\ Outcome(p)
  BY DEF IngestInv
<1>3. /\ Path(p) \in Paths /\ Docs(p) \in Seq(ToSet(Docs(p))) /\ Docs(p) # <<>>
      /\ IsPart(Docs(p), Docs(p)) /\ IsPart(<<>>, Docs(p))
  BY <1>1, OfTheJob DEF Path, Docs
<1>4. ToSet(Docs(p)) # {}
  BY <1>3, InList
<1>5. ~Shaped(pair[Path(p)], job[p]) => Loaded(p) = <<>>
  BY DEF Loaded
<1>6. Shaped(pair[Path(p)], job[p]) => IsPart(Loaded(p), Docs(p))
  BY <1>1 DEF IngestInv, StoresSound, Loaded, Path, Docs
<1>7. ToSet(<<>>) = {}
  BY DEF ToSet
<1> QED BY <1>1, <1>2, <1>3, <1>4, <1>5, <1>6, <1>7 DEF BuilderSound

\* Builders of one path mean one corpus, and load the same from it.
LEMMA SamePath ==
  ASSUME KeyedByCorpus, IngestInv, NEW p \in Builders, NEW q \in Builders, Path(p) = Path(q)
  PROVE  /\ Docs(p) = Docs(q) /\ Loaded(p) = Loaded(q)
         /\ \A x : Shaped(x, job[p]) <=> Shaped(x, job[q])
<1>1. job[p] \in IngestJobs /\ job[q] \in IngestJobs /\ PathOf(job[p]) = PathOf(job[q])
  BY Mine DEF Path
<1>2. Docs(p) = Docs(q) /\ \A x : Shaped(x, job[p]) <=> Shaped(x, job[q])
  BY <1>1, OfThePath DEF Docs
<1> QED BY <1>2 DEF Loaded

\* A pair has one builder under its lock.
LEMMA OneUnderLock ==
  ASSUME IngestInv, NEW p \in Builders, NEW q \in Builders, Path(p) = Path(q),
         doing[p] \in Locked, doing[q] \in Locked
  PROVE  p = q
BY Mine DEF UnderLock

\* While a pair is away to be rewritten nobody can load it.
LEMMA PairAway ==
  ASSUME KeyedByCorpus, IngestInv, NEW p \in Builders, NEW q \in Rewriting(Path(p))
  PROVE  /\ q \in Builders /\ doing[q] = "save" /\ Path(q) = Path(p) /\ pair[Path(p)] = NoPair
         /\ Loaded(p) = <<>> /\ ~Shaped(pair[Path(p)], job[p]) /\ Docs(q) = Docs(p)
         /\ doing[p] \in Locked => p = q
<1>1. q \in Builders /\ doing[q] = "save" /\ Path(q) = Path(p)
  BY DEF Rewriting
<1>2. pair[Path(p)] = NoPair
  BY <1>1, Mine DEF UnderLock
<1>3. ~Shaped(pair[Path(p)], job[p])
  BY <1>2 DEF Shaped
<1> QED BY <1>1, <1>2, <1>3, Mine, SamePath, OneUnderLock DEF Locked

\* Nobody rewrites it: what the path has is in the pair.
LEMMA NotRewritten ==
  ASSUME NEW p, Rewriting(Path(p)) = {}
  PROVE  Held(p) = ToSet(Loaded(p))
BY DEF Held

\* A step moves its builder and no other.
LEMMA StepFacts ==
  ASSUME IngestTypes, NEW p \in Builders, NEW from, NEW to, BuildStep(p, from, to)
  PROVE  doing[p] = from /\ doing'[p] = to /\ \A q \in Builders \ {p} : doing'[q] = doing[q]
BY DEF IngestTypes, BuildStep

\* A step that leaves the pairs and the locks, and all of the other builders.
LEMMA QuietStep ==
  ASSUME IngestInv, NEW p \in Builders, pair' = pair, owner' = owner,
         doing[p] \notin Locked, doing'[p] \notin Locked,
         \A q \in Builders \ {p} : SameBuilder(q) /\ lost'[q] = lost[q]
  PROVE  Quiet(p) /\ LocksHeld'
<1>1. Quiet(p)
  BY Mine DEF Quiet, SamePairs, UnderLock, Locked
<1>2. LocksHeld'
  <2> SUFFICES ASSUME NEW k \in Paths, owner[k] # NoPair
               PROVE  owner[k] \in Builders /\ doing'[owner[k]] \in Locked /\ Path(owner[k])' = k
    BY DEF LocksHeld
  <2>1. owner[k] \in Builders /\ doing[owner[k]] \in Locked /\ Path(owner[k]) = k
    BY DEF IngestInv, LocksHeld
  <2>2. SameBuilder(owner[k])
    BY <2>1
  <2> QED BY <2>1, <2>2 DEF SameBuilder, Path
<1> QED BY <1>1, <1>2

\* Where others have not moved, a builder's path has what it had.
LEMMA QuietHeld ==
  ASSUME IngestInv, NEW p \in Builders, pair' = pair, job' = job, doing[p] # "save", doing'[p] # "save",
         \A q \in Builders \ {p} : SameBuilder(q)
  PROVE  /\ Path(p)' = Path(p) /\ Docs(p)' = Docs(p)
         /\ Loaded(p)' = Loaded(p) /\ Held(p)' = Held(p) /\ Rewriting(Path(p))' = Rewriting(Path(p))
<1>1. Path(p)' = Path(p) /\ Docs(p)' = Docs(p) /\ Loaded(p)' = Loaded(p)
  BY DEF Path, Docs, Loaded
<1>2. \A q \in Builders : Path(q)' = Path(q)
  BY DEF Path
<1>3. Rewriting(Path(p))' = Rewriting(Path(p))
  BY <1>1, <1>2 DEF Rewriting, SameBuilder
<1>4. \A r \in Rewriting(Path(p)) : memory'[r] = memory[r]
  BY DEF Rewriting, SameBuilder
<1>5. UNION {ToSet(memory'[r]) : r \in Rewriting(Path(p))}
        = UNION {ToSet(memory[r]) : r \in Rewriting(Path(p))}
  BY <1>4
<1> QED BY <1>1, <1>3, <1>5 DEF Held

\* The steps before a builder loads: a new evaluation,
LEMMA NewEvaluationKeeps ==
  ASSUME KeyedByCorpus, IngestInv, NEW p \in Builders, NEW j \in IngestJobs, NewEvaluation(p, j)
  PROVE  IngestInv'
<1>1. doing[p] = "idle" /\ doing'[p] = "bm25" /\ \A q \in Builders \ {p} : doing'[q] = doing[q]
  BY StepFacts DEF IngestInv, NewEvaluation
<1>2. /\ pair' = pair /\ owner' = owner /\ pickled' = pickled /\ batches' = batches
      /\ job'[p] = j /\ memory'[p] = <<>> /\ opened'[p] = NoPair /\ lost'[p] = FALSE
      /\ \A q \in Builders \ {p} : SameBuilder(q) /\ lost'[q] = lost[q]
  BY <1>1 DEF NewEvaluation, Stored, IngestInv, IngestTypes, SameBuilder
<1>3. IngestTypes'
  BY DEF IngestInv, IngestTypes, NewEvaluation, BuildStep, Stored, IngestSteps, Locked, Adding, Pickled
<1>4. Quiet(p) /\ LocksHeld'
  BY <1>1, <1>2, QuietStep DEF Locked
<1>5. StillNew(p)
  BY <1>1 DEF StillNew, Ignores, Adding, Locked
<1>6. Docs(p)' = DocIds[j.corpus]
  BY <1>2 DEF Docs
<1>7. (BuilderSound(p) /\ UnderLock(p) /\ Progress(p) /\ Outcome(p))'
  BY <1>1, <1>2, <1>6, OfTheJob
     DEF BuilderSound, UnderLock, Progress, Outcome, Adding, Locked, Pickled
<1> QED BY <1>3, <1>4, <1>5, <1>7, QuietKeeps

\* its pickle,
LEMMA IngestBm25Keeps ==
  ASSUME KeyedByCorpus, IngestInv, NEW p \in Builders, IngestBm25(p)
  PROVE  IngestInv'
<1>1. doing[p] = "bm25" /\ doing'[p] = "check" /\ \A q \in Builders \ {p} : doing'[q] = doing[q]
  BY StepFacts DEF IngestInv, IngestBm25
<1>2. /\ pair' = pair /\ owner' = owner /\ job' = job /\ memory' = memory /\ batches' = batches
      /\ opened' = opened /\ lost' = lost /\ pickled'[p] = job[p].corpus
      /\ \A q \in Builders \ {p} : SameBuilder(q) /\ lost'[q] = lost[q]
  BY <1>1 DEF IngestBm25, Work, Pickle, IngestInv, IngestTypes, SameBuilder
<1>3. IngestTypes'
  BY DEF IngestInv, IngestTypes, IngestBm25, BuildStep, Work, IngestSteps, Locked, Adding, Pickled
<1>4. Quiet(p) /\ LocksHeld'
  BY <1>1, <1>2, QuietStep DEF Locked
<1>5. StillNew(p)
  BY <1>1 DEF StillNew, Ignores, Adding, Locked
<1>6. Docs(p)' = Docs(p)
  BY <1>2 DEF Docs
<1>7. (BuilderSound(p) /\ UnderLock(p) /\ Progress(p) /\ Outcome(p))'
  BY <1>1, <1>2, <1>6, Mine
     DEF BuilderSound, UnderLock, Progress, Outcome, Adding, Locked, Pickled
<1> QED BY <1>3, <1>4, <1>5, <1>7, QuietKeeps

\* The fast skip: as many rows as the corpus has are its rows.
LEMMA FastSkipKeeps ==
  ASSUME KeyedByCorpus, IngestInv, NEW p \in Builders, FastSkip(p)
  PROVE  IngestInv'
<1> DEFINE there == StoreOfCorpus(pair[Path(p)], job[p])
<1>1. /\ doing[p] = "check" /\ doing'[p] = (IF there THEN "open" ELSE "load")
      /\ \A q \in Builders \ {p} : doing'[q] = doing[q]
  BY StepFacts DEF IngestInv, FastSkip
<1>2. /\ pair' = pair /\ owner' = owner /\ job' = job /\ memory' = memory /\ batches' = batches
      /\ opened' = opened /\ lost' = lost /\ pickled' = pickled
      /\ \A q \in Builders \ {p} : SameBuilder(q) /\ lost'[q] = lost[q]
  BY <1>1 DEF FastSkip, Work, Stored, SameBuilder
<1>3. IngestTypes'
  BY DEF IngestInv, IngestTypes, FastSkip, BuildStep, Stored, Work, IngestSteps, Locked, Adding, Pickled
<1>4. Quiet(p) /\ LocksHeld'
  BY <1>1, <1>2, QuietStep DEF Locked
<1>5. there => Shaped(pair[Path(p)], job[p]) /\ ToSet(Loaded(p)) = ToSet(Docs(p))
  <2> HAVE there
  <2>1. Shaped(pair[Path(p)], job[p]) /\ Len(Loaded(p)) = Len(Docs(p))
    BY DEF StoreOfCorpus, Loaded, Docs
  <2>2. Loaded(p) \in Seq(ToSet(Docs(p))) /\ IsInjective(Loaded(p)) /\ IsInjective(Docs(p))
    BY Mine DEF IsPart
  <2> QED BY <2>1, <2>2, Mine, AsMany
<1>6. StillNew(p)
  <2> SUFFICES ASSUME NEW q \in Builders \ {p}, doing[q] = "save", Path(p)' = Path(q)
               PROVE  doing'[p] = "load"
    BY <1>1 DEF StillNew, Ignores, Adding, Locked
  <2>1. q \in Rewriting(Path(p))
    BY <1>2 DEF Rewriting, Path
  <2> QED BY <2>1, <1>1, <1>5, PairAway
<1>7. Docs(p)' = Docs(p) /\ Path(p)' = Path(p) /\ Loaded(p)' = Loaded(p)
  BY <1>2 DEF Docs, Path, Loaded
<1>8. (BuilderSound(p) /\ UnderLock(p) /\ Outcome(p))'
  BY <1>1, <1>2, <1>7, Mine DEF BuilderSound, UnderLock, Outcome, Adding, Locked, Pickled
<1>9. Progress(p)'
  BY <1>1, <1>2, <1>5, <1>7 DEF Progress, Adding, Locked
<1> QED BY <1>3, <1>4, <1>6, <1>8, <1>9, QuietKeeps

\* What is to be embedded is what the pair does not have.
LEMMA LoadStoreKeeps ==
  ASSUME KeyedByCorpus, IngestInv, NEW p \in Builders, LoadStore(p)
  PROVE  IngestInv'
<1> DEFINE new == Lacking(Docs(p), Loaded(p))
           to == IF new = <<>> THEN "open" ELSE IF job[p].api THEN "add" ELSE "encode"
           cut == IF job[p].api THEN Chunked(new) ELSE <<new>>
<1>1. /\ doing[p] = "load" /\ doing'[p] = to
      /\ \A q \in Builders \ {p} : doing'[q] = doing[q]
  BY StepFacts DEF IngestInv, LoadStore
<1>2. /\ pair' = pair /\ owner' = owner /\ job' = job
      /\ opened' = opened /\ lost' = lost /\ pickled' = pickled
      /\ memory'[p] = Loaded(p) /\ batches'[p] = cut
      /\ \A q \in Builders \ {p} : SameBuilder(q) /\ lost'[q] = lost[q]
  BY <1>1 DEF LoadStore, Stored, SameBuilder, IngestInv, IngestTypes
<1>3. IngestTypes'
  BY DEF IngestInv, IngestTypes, LoadStore, BuildStep, Stored, IngestSteps, Locked, Adding, Pickled
<1>4. Quiet(p) /\ LocksHeld'
  BY <1>1, <1>2, QuietStep DEF Locked
<1>5. /\ new \in Seq(ToSet(Docs(p))) /\ ToSet(new) = ToSet(Docs(p)) \ ToSet(Loaded(p))
      /\ IsInjective(new)
  BY Mine, LackingFacts DEF IsPart
<1> HIDE DEF new
<1>6. new # <<>> => /\ AreBatches(cut, Docs(p)) /\ cut # <<>>
                    /\ UNION {ToSet(cut[i]) : i \in DOMAIN cut} = ToSet(new)
  <2> HAVE new # <<>>
  <2>1. CASE job[p].api
    <3>1. PICK b : b = MakeBatch(new, EmbedBatch)
      OBVIOUS
    <3>2. EmbedBatch \in Nat \ {0}
      BY IngestAssumption
    <3>3. b \in Seq(Seq(ToSet(Docs(p))) \ {<<>>}) /\ b # <<>> /\ \E at : Cuts(b, new, at)
      <4>1. PICK S : S = ToSet(Docs(p)) /\ new \in Seq(S)
        BY <1>5
      <4>2. new \in Seq(S)
        BY <4>1
      <4>3. Pieces(b, new, S)
        BY <4>2, <3>1, <3>2, MakeBatchFacts
      <4> QED BY <4>1, <4>3 DEF Pieces
    <3>4. b \in Seq(Seq(ToSet(Docs(p))))
      BY <3>3
    <3>5. /\ UNION {ToSet(b[i]) : i \in DOMAIN b} = ToSet(new)
          /\ \A i \in DOMAIN b : IsInjective(b[i])
      BY <1>5, <3>3, <3>4, CutElements
    <3>6. AreBatches(b, Docs(p))
      <4>1. \A i \in DOMAIN b : b[i] \in {x \in Seq(ToSet(Docs(p))) : IsInjective(x) /\ x # <<>>}
        BY <3>3, <3>5
      <4> QED BY <3>3, <4>1 DEF AreBatches
    <3> QED BY <2>1, <3>1, <3>3, <3>5, <3>6 DEF Chunked
  <2>2. CASE ~job[p].api
    <3>1. cut = <<new>> /\ DOMAIN cut = {1} /\ cut[1] = new
      BY <2>2
    <3>2. AreBatches(cut, Docs(p)) /\ cut # <<>>
      <4>1. PICK B : B = {x \in Seq(ToSet(Docs(p))) : IsInjective(x) /\ x # <<>>}
        OBVIOUS
      <4>2. new \in B
        BY <1>5, <4>1
      <4>3. <<new>> \in Seq(B) /\ <<new>> # <<>>
        BY <4>2
      <4> QED BY <3>1, <4>1, <4>3 DEF AreBatches
    <3> QED BY <3>1, <3>2
  <2> QED BY <2>1, <2>2
<1> HIDE DEF cut
<1>7. /\ Docs(p)' = Docs(p) /\ Path(p)' = Path(p) /\ Loaded(p)' = Loaded(p)
      /\ ToCome(p)' = UNION {ToSet(cut[i]) : i \in DOMAIN cut}
  BY <1>2 DEF Docs, Path, Loaded, ToCome
<1>8. StillNew(p)
  <2> SUFFICES ASSUME NEW q \in Builders \ {p}, NEW d \in ToSet(Docs(q)),
                      doing[q] = "save", Path(p)' = Path(q)
               PROVE  Ignores(p, d)'
    BY DEF StillNew
  <2>1. q \in Rewriting(Path(p))
    BY <1>7 DEF Rewriting
  <2>2. Loaded(p) = <<>> /\ d \in ToSet(Docs(p))
    BY <2>1, PairAway
  <2>3. d \notin ToSet(Loaded(p)) /\ d \in ToSet(new)
    <3>1. ToSet(<<>>) = {}
      BY DEF ToSet
    <3> QED BY <3>1, <2>2, <1>5
  <2>4. new # <<>>
    BY <2>3 DEF ToSet
  <2> QED BY <2>3, <2>4, <1>1, <1>2, <1>6, <1>7 DEF Ignores
<1>9. (BuilderSound(p) /\ UnderLock(p) /\ Outcome(p))'
  <2>1. doing'[p] # "open" => new # <<>>
    BY <1>1
  <2>2. doing'[p] \notin Locked /\ doing'[p] \in Pickled /\ doing[p] \in Pickled
    BY <1>1 DEF Locked, Pickled, Adding
  <2>3. BuilderSound(p)'
    BY <2>1, <1>2, <1>6, <1>7, Mine DEF BuilderSound, Adding, Locked
  <2> QED BY <2>2, <2>3, <1>2, <1>7, Mine DEF UnderLock, Outcome, Locked
<1>10. Progress(p)'
  <2>1. ToSet(Loaded(p)) \subseteq Held(p)'
    BY <1>7 DEF Held
  <2>2. new = <<>> => ToSet(Docs(p)) \subseteq ToSet(Loaded(p))
    <3>1. ToSet(<<>>) = {}
      BY DEF ToSet
    <3> QED BY <3>1, <1>5
  <2>3. doing'[p] = "open" <=> new = <<>>
    BY <1>1
  <2>4. doing'[p] = "open" => Shaped(pair'[Path(p)'], job'[p])
    BY <2>2, <2>3, <1>2, <1>7, Mine
  <2>5. ~(doing'[p] \in Adding /\ new = <<>>)
    BY <2>3 DEF Adding, Locked
  <2> QED BY <2>1, <2>2, <2>3, <2>4, <2>5, <1>2, <1>5, <1>6, <1>7 DEF Progress
<1> QED BY <1>3, <1>4, <1>8, <1>9, <1>10, QuietKeeps

\* Encoding changes neither what is there nor what is to come.
LEMMA EncodingKeeps ==
  ASSUME KeyedByCorpus, IngestInv, NEW p \in Builders, Encode(p) \/ EncodeOom(p)
  PROVE  IngestInv'
<1>1. /\ doing[p] = "encode" /\ doing'[p] \in {"idle", "encode", "add"}
      /\ \A q \in Builders \ {p} : doing'[q] = doing[q]
  BY StepFacts DEF IngestInv, Encode, EncodeOom
<1>2. /\ pair' = pair /\ owner' = owner /\ job' = job /\ memory' = memory /\ batches' = batches
      /\ opened' = opened /\ lost' = lost /\ pickled' = pickled
      /\ \A q \in Builders \ {p} : SameBuilder(q) /\ lost'[q] = lost[q]
  BY <1>1 DEF Encode, EncodeOom, Stored, SameBuilder
<1>3. IngestTypes'
  BY <1>1, <1>2 DEF IngestInv, IngestTypes, Encode, EncodeOom, BuildStep,
     IngestSteps, Locked, Adding, Pickled
<1>4. Quiet(p) /\ LocksHeld'
  BY <1>1, <1>2, QuietStep DEF Locked
<1>5. Docs(p)' = Docs(p) /\ Path(p)' = Path(p) /\ Held(p)' = Held(p) /\ ToCome(p)' = ToCome(p)
  BY <1>1, <1>2, QuietHeld DEF ToCome
<1>6. StillNew(p)
  BY <1>1, <1>2, <1>5 DEF StillNew, Ignores, Adding
<1>7. (BuilderSound(p) /\ UnderLock(p) /\ Outcome(p))'
  BY <1>1, <1>2, <1>5, Mine DEF BuilderSound, UnderLock, Outcome, Adding, Locked, Pickled
<1>8. Progress(p)'
  BY <1>1, <1>2, <1>5, Mine DEF Progress, Adding
<1> QED BY <1>3, <1>4, <1>6, <1>7, <1>8, QuietKeeps

\* The batches of a builder, and what the first of them leaves to come.
LEMMA MyBatches ==
  ASSUME IngestInv, NEW p \in Builders, doing[p] \in Adding
  PROVE  /\ IsPart(Head(batches[p]), Docs(p)) /\ Head(batches[p]) # <<>>
         /\ ToSet(Head(batches[p])) \subseteq ToSet(Docs(p))
         /\ Len(batches[p]) # 1 => AreBatches(Tail(batches[p]), Docs(p)) /\ Tail(batches[p]) # <<>>
         /\ ToCome(p) = ToSet(Head(batches[p]))
                          \cup UNION {ToSet(Tail(batches[p])[i]) : i \in DOMAIN Tail(batches[p])}
         /\ Len(batches[p]) = 1 => ToCome(p) = ToSet(Head(batches[p]))
<1> DEFINE B == {x \in Seq(ToSet(Docs(p))) : IsInjective(x) /\ x # <<>>}
           b == batches[p]
<1>1. b \in Seq(B) /\ b # <<>>
  BY Mine DEF BuilderSound, AreBatches
<1> HIDE DEF b, B
<1>2. /\ Head(b) \in B /\ Tail(b) \in Seq(B) /\ (Tail(b) = <<>> <=> Len(b) = 1)
      /\ UNION {ToSet(b[i]) : i \in DOMAIN b}
           = ToSet(Head(b)) \cup UNION {ToSet(Tail(b)[i]) : i \in DOMAIN Tail(b)}
  BY ONLY <1>1, FirstBatch
<1>3. ToSet(Head(b)) \subseteq ToSet(Docs(p))
  BY <1>2, InList DEF B
<1>4. Len(b) = 1 => UNION {ToSet(Tail(b)[i]) : i \in DOMAIN Tail(b)} = {}
  <2>1. DOMAIN <<>> = {}
    OBVIOUS
  <2> QED BY <2>1, <1>2
<1> QED BY <1>2, <1>3, <1>4 DEF IsPart, AreBatches, ToCome, b, B

\* A batch that memory holds brings nothing new.
LEMMA SkipBatchKeeps ==
  ASSUME KeyedByCorpus, IngestInv, NEW p \in Builders, SkipBatch(p)
  PROVE  IngestInv'
<1>1. /\ doing[p] = "add" /\ doing'[p] = AfterBatch(p)
      /\ \A q \in Builders \ {p} : doing'[q] = doing[q]
  BY StepFacts DEF IngestInv, SkipBatch
<1>2. /\ pair' = pair /\ owner' = owner /\ job' = job /\ memory' = memory
      /\ opened' = opened /\ lost' = lost /\ pickled' = pickled /\ batches'[p] = Tail(batches[p])
      /\ \A q \in Builders \ {p} : SameBuilder(q) /\ lost'[q] = lost[q]
  BY <1>1 DEF SkipBatch, Stored, SameBuilder, IngestInv, IngestTypes
<1>3. IngestTypes'
  BY DEF IngestInv, IngestTypes, SkipBatch, BuildStep, Stored, AfterBatch,
     IngestSteps, Locked, Adding, Pickled
<1>4. Quiet(p) /\ LocksHeld'
  BY <1>1, <1>2, QuietStep DEF Locked, AfterBatch
<1>5. /\ Docs(p)' = Docs(p) /\ Path(p)' = Path(p) /\ Held(p)' = Held(p) /\ Loaded(p)' = Loaded(p)
      /\ ToCome(p)' = UNION {ToSet(Tail(batches[p])[i]) : i \in DOMAIN Tail(batches[p])}
  BY <1>1, <1>2, QuietHeld DEF ToCome, AfterBatch
<1>6. ToSet(Head(batches[p])) \subseteq ToSet(memory[p])
  BY Mine, HasFacts DEF SkipBatch, IsPart
<1>7. \A d : Ignores(p, d) => doing'[p] = "add" /\ Ignores(p, d)'
  <2> SUFFICES ASSUME NEW d, Ignores(p, d) PROVE doing'[p] = "add" /\ Ignores(p, d)'
    OBVIOUS
  <2>1. d \notin ToSet(memory[p]) /\ d \in ToCome(p)
    BY <1>1 DEF Ignores, Adding
  <2>2. d \notin ToSet(Head(batches[p]))
    BY <2>1, <1>6
  <2>3. doing[p] \in Adding
    BY <1>1 DEF Adding
  <2>4. Len(batches[p]) # 1 /\ d \in ToCome(p)'
    BY <2>1, <2>2, <2>3, <1>5, MyBatches
  <2> QED BY <2>1, <2>4, <1>1, <1>2 DEF Ignores, AfterBatch
<1>8. StillNew(p)
  BY <1>2, <1>5, <1>7 DEF StillNew
<1>9. doing[p] \in Adding /\ doing[p] \in Pickled /\ doing'[p] \notin Locked /\ doing'[p] \in Pickled
  BY <1>1 DEF Adding, Pickled, Locked, AfterBatch
<1>10. BuilderSound(p)'
  <2>1. doing'[p] \in Adding => Len(batches[p]) # 1
    BY <1>1 DEF AfterBatch, Adding, Locked
  <2> QED BY <2>1, <1>2, <1>5, <1>9, Mine, MyBatches DEF BuilderSound
<1>11. UnderLock(p)' /\ Outcome(p)'
  BY <1>2, <1>5, <1>9, Mine DEF UnderLock, Outcome, Locked
<1>12. Progress(p)'
  <2> SUFFICES ASSUME ~lost[p]
               PROVE  /\ doing'[p] \in Adding => /\ ToSet(Docs(p)) \subseteq Held(p) \cup ToCome(p)'
                                                 /\ ToSet(memory[p]) \subseteq Held(p)
                      /\ doing'[p] = "open" => /\ Shaped(pair[Path(p)], job[p])
                                               /\ ToSet(Docs(p)) \subseteq ToSet(Loaded(p))
    BY <1>2, <1>5 DEF Progress
  <2>1. ToSet(Docs(p)) \subseteq Held(p) \cup ToCome(p) /\ ToSet(memory[p]) \subseteq Held(p)
    BY <1>9, Mine DEF Progress
  <2>2. ToSet(Docs(p)) \subseteq Held(p) \cup ToCome(p)'
    BY <2>1, <1>5, <1>6, <1>9, MyBatches
  <2>3. ASSUME doing'[p] = "open"
        PROVE  Shaped(pair[Path(p)], job[p]) /\ ToSet(Docs(p)) \subseteq ToSet(Loaded(p))
    <3>1. Rewriting(Path(p)) = {}
      <4> SUFFICES ASSUME NEW q \in Rewriting(Path(p)) PROVE FALSE
        OBVIOUS
      <4>1. q \in Builders \ {p} /\ doing[q] = "save" /\ Path(p) = Path(q)
        BY <1>1 DEF Rewriting
      <4>2. \E d : Ignores(p, d)
        BY <4>1 DEF IngestInv, Newcomer
      <4> QED BY <4>2, <2>3, <1>7
    <3>2. Len(batches[p]) = 1
      BY <2>3, <1>1 DEF AfterBatch
    <3>3. ToSet(Docs(p)) \subseteq ToSet(Loaded(p))
      BY <3>1, <3>2, <2>1, <1>6, <1>9, MyBatches, NotRewritten
    <3> QED BY <3>3, Mine
  <2> QED BY <2>1, <2>2, <2>3
<1> QED BY <1>3, <1>4, <1>8, <1>10, <1>11, <1>12, QuietKeeps

\* The lock is taken: of the pairs nothing is known to have changed.
LEMMA LockPairKeeps ==
  ASSUME KeyedByCorpus, IngestInv, NEW p \in Builders, LockPair(p)
  PROVE  IngestInv'
<1>1. /\ doing[p] = "add" /\ doing'[p] = "locked"
      /\ \A q \in Builders \ {p} : doing'[q] = doing[q]
  BY StepFacts DEF IngestInv, LockPair
<1>2. /\ pair' = pair /\ job' = job /\ memory' = memory /\ batches' = batches
      /\ opened' = opened /\ lost' = lost /\ pickled' = pickled
      /\ owner[Path(p)] = NoPair /\ owner' = [owner EXCEPT ![Path(p)] = p]
      /\ \A q \in Builders \ {p} : SameBuilder(q) /\ lost'[q] = lost[q]
  BY <1>1 DEF LockPair, Work, SameBuilder
<1>3. IngestTypes'
  BY DEF IngestInv, IngestTypes, LockPair, BuildStep, Work,
     IngestSteps, Locked, Adding, Pickled
<1>4. owner'[Path(p)] = p /\ \A k \in Paths \ {Path(p)} : owner'[k] = owner[k]
  BY <1>2, Mine DEF IngestInv, IngestTypes
<1>5. \A q \in Builders : Path(q)' = Path(q) /\ PathOf(job'[q]) = Path(q)
  BY <1>2 DEF Path
<1>6. Quiet(p)
  <2>1. \A q \in Builders \ {p} : doing[q] \in Locked => owner'[Path(q)] = q
    <3> TAKE q \in Builders \ {p}
    <3> HAVE doing[q] \in Locked
    <3>1. owner[Path(q)] = q /\ Path(q) \in Paths /\ q # NoPair
      BY Mine, IngestAssumption DEF UnderLock
    <3> QED BY <3>1, <1>2, <1>4
  <2>2. SamePairs
    BY <1>2 DEF SamePairs
  <2> QED BY <2>1, <2>2, <1>1, <1>2 DEF Quiet
<1>7. LocksHeld'
  <2> SUFFICES ASSUME NEW k \in Paths, owner'[k] # NoPair
               PROVE  owner'[k] \in Builders /\ doing'[owner'[k]] \in Locked /\ PathOf(job'[owner'[k]]) = k
    BY DEF LocksHeld, Path
  <2>1. CASE k = Path(p)
    BY <2>1, <1>1, <1>4, <1>5 DEF Locked
  <2>2. CASE k # Path(p)
    <3>1. owner'[k] = owner[k]
      BY <2>2, <1>4
    <3>2. owner[k] \in Builders /\ doing[owner[k]] \in Locked /\ Path(owner[k]) = k
      BY <3>1 DEF IngestInv, LocksHeld
    <3>3. owner[k] # p
      BY <3>2, <1>1 DEF Locked
    <3> QED BY <3>1, <3>2, <3>3, <1>1, <1>5
  <2> QED BY <2>1, <2>2
<1>8. Docs(p)' = Docs(p) /\ Path(p)' = Path(p) /\ Held(p)' = Held(p) /\ ToCome(p)' = ToCome(p)
  BY <1>1, <1>2, QuietHeld DEF ToCome
<1>9. StillNew(p)
  BY <1>1, <1>2, <1>8 DEF StillNew, Ignores, Adding, Locked
<1>10. (BuilderSound(p) /\ UnderLock(p) /\ Outcome(p))'
  BY <1>1, <1>2, <1>4, <1>8, Mine DEF BuilderSound, UnderLock, Outcome, Adding, Locked, Pickled
<1>11. Progress(p)'
  BY <1>1, <1>2, <1>8, Mine DEF Progress, Adding, Locked
<1> QED BY <1>3, <1>6, <1>7, <1>9, <1>10, <1>11, QuietKeeps

\* Releasing the lock.
LEMMA UnlockedFacts ==
  ASSUME IngestInv, NEW p \in Builders, doing[p] \in Locked, doing'[p] \notin Locked,
         owner' = Unlocked(p), job' = job, \A q \in Builders \ {p} : doing'[q] = doing[q]
  PROVE  /\ LocksHeld' /\ owner' = [k \in Paths |-> owner'[k]]
         /\ \A q \in Builders \ {p} : doing[q] \in Locked => owner'[Path(q)] = q
<1>1. /\ owner'[Path(p)] = NoPair /\ \A k \in Paths \ {Path(p)} : owner'[k] = owner[k]
      /\ owner' = [k \in Paths |-> owner'[k]]
  BY Mine DEF IngestInv, IngestTypes, Unlocked
<1>2. owner[Path(p)] = p
  BY Mine DEF UnderLock
<1>3. \A q \in Builders : Path(q)' = Path(q) /\ PathOf(job'[q]) = Path(q) /\ Path(q) \in Paths
  BY Mine DEF Path
<1>4. \A q \in Builders \ {p} : doing[q] \in Locked => owner'[Path(q)] = q
  <2> TAKE q \in Builders \ {p}
  <2> HAVE doing[q] \in Locked
  <2>1. owner[Path(q)] = q
    BY Mine DEF UnderLock
  <2> QED BY <2>1, <1>1, <1>2, <1>3
<1>5. LocksHeld'
  <2> SUFFICES ASSUME NEW k \in Paths, owner'[k] # NoPair
               PROVE  owner'[k] \in Builders /\ doing'[owner'[k]] \in Locked /\ PathOf(job'[owner'[k]]) = k
    BY DEF LocksHeld, Path
  <2>1. k # Path(p) /\ owner'[k] = owner[k]
    BY <1>1
  <2>2. owner[k] \in Builders /\ doing[owner[k]] \in Locked /\ Path(owner[k]) = k
    BY <2>1 DEF IngestInv, LocksHeld
  <2>3. owner[k] # p
    BY <2>1, <2>2
  <2> QED BY <2>1, <2>2, <2>3, <1>3
<1> QED BY <1>1, <1>4, <1>5

\* The pair as it is replaces what was in memory; only one that does not fit goes.
LEMMA ReloadKeeps ==
  ASSUME KeyedByCorpus, IngestInv, NEW p \in Builders, Reload(p)
  PROVE  IngestInv'
<1> DEFINE there == Shaped(pair[Path(p)], job[p])
           all == there /\ Has(Loaded(p), Head(batches[p]))
           to == IF all THEN AfterBatch(p) ELSE "build"
<1>1. /\ doing[p] = "locked" /\ doing'[p] = to
      /\ \A q \in Builders \ {p} : doing'[q] = doing[q]
  BY StepFacts DEF IngestInv, Reload
<1>2. /\ job' = job /\ opened' = opened /\ lost' = lost /\ pickled' = pickled
      /\ memory'[p] = Loaded(p)
      /\ pair' = IF there THEN pair ELSE [pair EXCEPT ![Path(p)] = NoPair]
      /\ IF all THEN owner' = Unlocked(p) /\ batches' = [batches EXCEPT ![p] = Tail(@)]
                ELSE owner' = owner /\ batches' = batches
      /\ \A q \in Builders \ {p} : SameBuilder(q) /\ lost'[q] = lost[q]
  BY <1>1 DEF Reload, SameBuilder, IngestInv, IngestTypes
<1>3. /\ doing[p] \in Locked /\ doing[p] \in Adding /\ doing[p] \in Pickled /\ owner[Path(p)] = p
      /\ Path(p)' = Path(p) /\ Docs(p)' = Docs(p)
  BY <1>1, <1>2, Mine DEF UnderLock, Locked, Adding, Pickled, Path, Docs
<1>4. IngestTypes'
  BY <1>1 DEF IngestInv, IngestTypes, Reload, BuildStep, Unlocked, AfterBatch,
     IngestSteps, Locked, Adding, Pickled
<1>5. SamePairs
  <2> SUFFICES ASSUME NEW j \in IngestJobs
               PROVE  /\ Shaped(pair[PathOf(j)], j) => pair'[PathOf(j)] = pair[PathOf(j)]
                      /\ Shaped(pair'[PathOf(j)], j) => pair'[PathOf(j)] = pair[PathOf(j)]
                      /\ pair[PathOf(j)] = NoPair => pair'[PathOf(j)] = NoPair
    BY DEF SamePairs
  <2>1. CASE there \/ PathOf(j) # Path(p)
    <3>1. pair'[PathOf(j)] = pair[PathOf(j)]
      BY <2>1, <1>2, OfTheJob DEF IngestInv, IngestTypes
    <3> QED BY <3>1
  <2>2. CASE ~there /\ PathOf(j) = Path(p)
    <3>1. pair'[PathOf(j)] = NoPair
      BY <2>2, <1>2, Mine DEF IngestInv, IngestTypes
    <3>2. ~Shaped(pair[PathOf(j)], j)
      BY <2>2, Mine, OfThePath DEF Path
    <3> QED BY <3>1, <3>2 DEF Shaped
  <2> QED BY <2>1, <2>2
<1>6. Rewriting(Path(p)) = {} /\ (Rewriting(Path(p)) = {})'
  <2>1. Rewriting(Path(p)) = {}
    <3> SUFFICES ASSUME NEW q \in Rewriting(Path(p)) PROVE FALSE
      OBVIOUS
    <3> QED BY <1>1, <1>3, PairAway
  <2>2. doing'[p] # "save"
    BY <1>1 DEF AfterBatch
  <2> QED BY <2>1, <2>2, <1>1, <1>2 DEF Rewriting, Path
<1>7. Loaded(p)' = Loaded(p)
  BY <1>2, Mine DEF Loaded, Path, Shaped, IngestInv, IngestTypes
<1>8. Held(p) = ToSet(Loaded(p)) /\ Held(p)' = ToSet(Loaded(p))
  BY <1>6, <1>7 DEF Held
<1>9. Has(Loaded(p), Head(batches[p])) <=> ToSet(Head(batches[p])) \subseteq ToSet(Loaded(p))
  BY Mine, HasFacts DEF IsPart
<1>10. doing'[p] \notin Locked \/ (doing'[p] = "build" /\ owner' = owner)
  BY <1>1, <1>2 DEF AfterBatch, Locked
<1>11. LocksHeld' /\ \A q \in Builders \ {p} : doing[q] \in Locked => owner'[Path(q)] = q
  <2>1. CASE all
    <3>1. doing'[p] \notin Locked /\ owner' = Unlocked(p)
      BY <2>1, <1>1, <1>2 DEF AfterBatch, Locked
    <3>2. job' = job /\ \A q \in Builders \ {p} : doing'[q] = doing[q]
      BY <1>1, <1>2
    <3> QED BY <3>1, <3>2, <1>3, UnlockedFacts
  <2>2. CASE ~all
    <3>1. doing'[p] = "build" /\ owner' = owner
      BY <2>2, <1>1, <1>2
    <3>2. LocksHeld'
      <4> SUFFICES ASSUME NEW k \in Paths, owner[k] # NoPair
                   PROVE  /\ owner[k] \in Builders /\ doing'[owner[k]] \in Locked
                          /\ PathOf(job'[owner[k]]) = k
        BY <3>1 DEF LocksHeld, Path
      <4>1. owner[k] \in Builders /\ doing[owner[k]] \in Locked /\ Path(owner[k]) = k
        BY DEF IngestInv, LocksHeld
      <4> QED BY <4>1, <3>1, <1>1, <1>2 DEF Path, Locked
    <3> QED BY <3>1, <3>2, Mine DEF UnderLock
  <2> QED BY <2>1, <2>2
<1>12. Quiet(p)
  BY <1>1, <1>2, <1>5, <1>11 DEF Quiet, AfterBatch
<1>13. StillNew(p)
  <2> SUFFICES ASSUME NEW q \in Builders \ {p}, doing[q] = "save", Path(p)' = Path(q) PROVE FALSE
    BY DEF StillNew
  <2> QED BY <1>3, OneUnderLock DEF Locked
<1>14. all => ToCome(p)' = UNION {ToSet(Tail(batches[p])[i]) : i \in DOMAIN Tail(batches[p])}
  <2>1. all => batches'[p] = Tail(batches[p])
    BY <1>2 DEF IngestInv, IngestTypes
  <2> QED BY <2>1 DEF ToCome
<1>15. ~all => ToCome(p)' = ToCome(p) /\ batches'[p] = batches[p]
  BY <1>2 DEF ToCome
<1>16. BuilderSound(p)' /\ Outcome(p)'
  <2>1. IsPart(memory'[p], Docs(p))
    BY <1>2, Mine
  <2>2. doing'[p] \in Adding => AreBatches(batches'[p], Docs(p)) /\ batches'[p] # <<>>
    <3>1. CASE all
      <4>1. batches'[p] = Tail(batches[p])
        BY <3>1, <1>2 DEF IngestInv, IngestTypes
      <4>2. doing'[p] \in Adding => Len(batches[p]) # 1
        BY <3>1, <1>1 DEF AfterBatch, Adding, Locked
      <4> QED BY <4>1, <4>2, <1>3, MyBatches
    <3>2. CASE ~all
      BY <3>2, <1>3, <1>15, Mine DEF BuilderSound
    <3> QED BY <3>1, <3>2
  <2> QED BY <2>1, <2>2, <1>2, <1>3, Mine DEF BuilderSound, Outcome
<1>17. UnderLock(p)'
  <2>1. doing'[p] = "build" => ~all
    BY <1>1 DEF AfterBatch
  <2>2. ~all => ~(ToSet(Head(batches[p])) \subseteq ToSet(Loaded(p)))
    <3>1. ~there => ToSet(Loaded(p)) = {}
      BY Mine
    <3>2. ToSet(Head(batches[p])) # {}
      BY <1>3, MyBatches, InList DEF IsPart
    <3> QED BY <3>1, <3>2, <1>9
  <2>3. doing'[p] # "save"
    BY <1>1 DEF AfterBatch
  <2> QED BY <2>1, <2>2, <2>3, <1>2, <1>3, <1>7, <1>10, <1>15 DEF UnderLock, Locked
<1>18. Progress(p)'
  <2> SUFFICES ASSUME ~lost[p]
               PROVE  /\ doing'[p] \in Adding => /\ ToSet(Docs(p)) \subseteq Held(p)' \cup ToCome(p)'
                                                 /\ ToSet(memory'[p]) \subseteq Held(p)'
                      /\ doing'[p] = "open" => /\ Shaped(pair'[Path(p)], job[p])
                                               /\ ToSet(Docs(p)) \subseteq ToSet(Loaded(p))
    BY <1>2, <1>3, <1>7 DEF Progress
  <2>1. ToSet(Docs(p)) \subseteq ToSet(Loaded(p)) \cup ToCome(p)
    BY <1>3, <1>8, Mine DEF Progress
  <2>2. CASE all
    <3>1. ToSet(Head(batches[p])) \subseteq ToSet(Loaded(p))
      BY <2>2, <1>9
    <3>2. ToSet(Docs(p)) \subseteq ToSet(Loaded(p)) \cup ToCome(p)'
      BY <2>1, <2>2, <3>1, <1>3, <1>14, MyBatches
    <3>3. doing'[p] = "open" => ToSet(Docs(p)) \subseteq ToSet(Loaded(p))
      <4>1. doing'[p] = "open" => Len(batches[p]) = 1
        BY <2>2, <1>1 DEF AfterBatch
      <4> QED BY <4>1, <2>1, <3>1, <1>3, MyBatches
    <3> QED BY <2>2, <3>2, <3>3, <1>2, <1>8
  <2>3. CASE ~all
    BY <2>1, <2>3, <1>1, <1>2, <1>8, <1>15
  <2> QED BY <2>2, <2>3
<1> QED BY <1>4, <1>11, <1>12, <1>13, <1>16, <1>17, <1>18, QuietKeeps

\* What an evaluation opens is its corpus.
LEMMA OpenStoreKeeps ==
  ASSUME KeyedByCorpus, IngestInv, NEW p \in Builders, OpenStore(p)
  PROVE  IngestInv'
<1>1. doing[p] = "open" /\ doing'[p] = "idle" /\ \A q \in Builders \ {p} : doing'[q] = doing[q]
  BY StepFacts DEF IngestInv, OpenStore
<1>2. /\ pair' = pair /\ owner' = owner /\ pickled' = pickled /\ batches' = batches /\ job' = job
      /\ memory'[p] = <<>> /\ lost' = lost
      /\ opened'[p] = IF Shaped(pair[Path(p)], job[p])
                      THEN [dense |-> Loaded(p), sparse |-> pickled[p]] ELSE NoPair
      /\ \A q \in Builders \ {p} : SameBuilder(q) /\ lost'[q] = lost[q]
  BY <1>1 DEF OpenStore, Stored, IngestInv, IngestTypes, SameBuilder
<1>3. IngestTypes'
  BY DEF IngestInv, IngestTypes, OpenStore, BuildStep, Stored, IngestSteps, Locked, Adding, Pickled
<1>4. Quiet(p) /\ LocksHeld'
  BY <1>1, <1>2, QuietStep DEF Locked
<1>5. StillNew(p)
  BY <1>1 DEF StillNew, Ignores, Adding, Locked
<1>6. Docs(p)' = Docs(p)
  BY <1>2 DEF Docs
<1>7. (BuilderSound(p) /\ UnderLock(p) /\ Progress(p))'
  BY <1>1, <1>2, <1>6, Mine DEF BuilderSound, UnderLock, Progress, Adding, Locked
<1>8. Outcome(p)'
  <2> SUFFICES ASSUME opened'[p] # NoPair
               PROVE  /\ opened'[p].sparse = job[p].corpus /\ IsPart(opened'[p].dense, Docs(p))
                      /\ ~lost[p] => ToSet(opened'[p].dense) = ToSet(Docs(p))
    BY <1>1, <1>2, <1>6 DEF Outcome, Pickled, Adding, Locked
  <2>1. opened'[p].dense = Loaded(p) /\ opened'[p].sparse = pickled[p]
    BY <1>2
  <2>2. pickled[p] = job[p].corpus
    BY <1>1, Mine DEF Outcome, Pickled
  <2>3. IsPart(Loaded(p), Docs(p)) /\ ToSet(Loaded(p)) \subseteq ToSet(Docs(p))
    BY Mine, InList DEF IsPart
  <2>4. ~lost[p] => ToSet(Docs(p)) \subseteq ToSet(Loaded(p))
    BY <1>1, Mine DEF Progress
  <2> QED BY <2>1, <2>2, <2>3, <2>4
<1> QED BY <1>3, <1>4, <1>5, <1>7, <1>8, QuietKeeps

\* An evaluation that ends anywhere but over a withdrawn pair.
LEMMA EndsEarlyKeeps ==
  ASSUME KeyedByCorpus, IngestInv, NEW p \in Builders, NEW steps, EndsOver(p, steps), doing[p] # "save"
  PROVE  IngestInv'
<1>1. doing'[p] = "idle" /\ \A q \in Builders \ {p} : doing'[q] = doing[q]
  BY DEF EndsOver, IngestInv, IngestTypes
<1>2. /\ pair' = pair /\ pickled' = pickled /\ job' = job /\ opened' = opened /\ memory'[p] = <<>>
      /\ owner' = IF owner[Path(p)] = p THEN Unlocked(p) ELSE owner
      /\ \A q \in Builders : lost'[q] = lost[q]
      /\ \A q \in Builders \ {p} : SameBuilder(q) /\ lost'[q] = lost[q]
  BY <1>1 DEF EndsOver, SameBuilder, IngestInv, IngestTypes
<1>3. IngestTypes'
  <2>1. lost' \in [Builders -> BOOLEAN]
    BY DEF EndsOver, IngestInv, IngestTypes
  <2> QED BY <2>1 DEF IngestInv, IngestTypes, EndsOver, Unlocked, IngestSteps
<1>4. \A q \in Builders : Path(q)' = Path(q) /\ Docs(q)' = Docs(q)
  BY <1>2 DEF Path, Docs
<1>5. LocksHeld' /\ \A q \in Builders \ {p} : doing[q] \in Locked => owner'[Path(q)] = q
  <2>1. CASE doing[p] \in Locked
    <3>1. owner' = Unlocked(p)
      BY <2>1, <1>2, Mine DEF UnderLock
    <3>2. doing'[p] \notin Locked /\ job' = job
      BY <1>1, <1>2 DEF Locked
    <3> QED BY <2>1, <3>1, <3>2, <1>1, UnlockedFacts
  <2>2. CASE doing[p] \notin Locked
    <3>1. p # NoPair
      BY IngestAssumption
    <3>2. owner[Path(p)] # p
      BY <2>2, <3>1, Mine DEF IngestInv, LocksHeld
    <3>3. owner' = owner
      BY <3>2, <1>2
    <3> QED BY <2>2, <3>3, <1>1, <1>2, QuietStep, Mine DEF Locked, UnderLock
  <2> QED BY <2>1, <2>2
<1>6. Quiet(p)
  <2>1. SamePairs
    BY <1>2 DEF SamePairs
  <2> QED BY <2>1, <1>1, <1>2, <1>5 DEF Quiet
<1>7. StillNew(p)
  BY <1>1 DEF StillNew, Ignores, Adding, Locked
<1>8. (BuilderSound(p) /\ UnderLock(p) /\ Progress(p))'
  BY <1>1, <1>2, <1>4, Mine DEF BuilderSound, UnderLock, Progress, Adding, Locked
<1>9. Outcome(p)'
  BY <1>1, <1>2, <1>4, Mine DEF Outcome, Pickled, Adding, Locked
<1> QED BY <1>3, <1>5, <1>6, <1>7, <1>8, <1>9, QuietKeeps

\* A pair stays as it was for the paths that a step does not touch.
Elsewhere(p) ==
  \A k \in Paths \ {Path(p)} : pair'[k] = pair[k] /\ owner'[k] = owner[k]
OthersStay(p) ==
  /\ job' = job /\ pickled' = pickled /\ opened' = opened
  /\ \A q \in Builders \ {p} : SameBuilder(q) /\ (lost[q] => lost'[q])

\* For the builders of other paths nothing has changed.
LEMMA AwayKeeps ==
  ASSUME IngestInv, NEW p \in Builders, Elsewhere(p), OthersStay(p),
         NEW q \in Builders, Path(q) # Path(p), lost'[q] = lost[q]
  PROVE  /\ (BuilderSound(q) /\ UnderLock(q) /\ Progress(q) /\ Outcome(q))'
         /\ \A d : Ignores(q, d) => Ignores(q, d)'
<1>1. \A r \in Builders : Path(r)' = Path(r) /\ Docs(r)' = Docs(r)
  BY DEF OthersStay, Path, Docs
<1>2. q # p
  OBVIOUS
<1>3. /\ doing'[q] = doing[q] /\ job'[q] = job[q] /\ memory'[q] = memory[q] /\ lost'[q] = lost[q]
      /\ batches'[q] = batches[q] /\ opened'[q] = opened[q] /\ pickled'[q] = pickled[q]
      /\ pair'[Path(q)] = pair[Path(q)] /\ owner'[Path(q)] = owner[Path(q)]
  BY <1>2, Mine DEF OthersStay, SameBuilder, Elsewhere
<1>4. Loaded(q)' = Loaded(q) /\ ToCome(q)' = ToCome(q)
  BY <1>1, <1>3 DEF Loaded, ToCome
<1>5. Rewriting(Path(q))' = Rewriting(Path(q))
  BY <1>1 DEF Rewriting, OthersStay, SameBuilder
<1>6. Held(q)' = Held(q)
  <2>1. \A r \in Rewriting(Path(q)) : memory'[r] = memory[r]
    BY DEF Rewriting, OthersStay, SameBuilder
  <2>2. UNION {ToSet(memory'[r]) : r \in Rewriting(Path(q))}
          = UNION {ToSet(memory[r]) : r \in Rewriting(Path(q))}
    BY <2>1
  <2> QED BY <2>2, <1>1, <1>4, <1>5 DEF Held
<1>7. BuilderSound(q)' /\ Outcome(q)'
  BY <1>1, <1>3, Mine DEF BuilderSound, Outcome
<1>8. UnderLock(q)'
  BY <1>1, <1>3, <1>4, Mine DEF UnderLock
<1>9. Progress(q)'
  BY <1>1, <1>3, <1>4, <1>6, Mine DEF Progress
<1>10. \A d : Ignores(q, d) => Ignores(q, d)'
  BY <1>3, <1>4 DEF Ignores
<1> QED BY <1>7, <1>8, <1>9, <1>10

\* Nor has what they save become less new.
LEMMA AwayNewcomer ==
  ASSUME IngestInv, NEW p \in Builders, Elsewhere(p), OthersStay(p), doing[p] \in Locked,
         NEW q \in Builders \ {p}, doing'[q] = "save",
         \A r \in Builders : Path(r) # Path(p) => lost'[r] = lost[r]
  PROVE  \E d \in ToSet(Docs(q)') : \A r \in Builders \ {q} :
           Path(r)' = Path(q)' /\ ~lost'[r] => Ignores(r, d)'
<1>1. doing[q] = "save"
  BY DEF OthersStay, SameBuilder
<1>2. Path(q) # Path(p)
  BY <1>1, OneUnderLock DEF Locked
<1>3. PICK d \in ToSet(Docs(q)) : \A r \in Builders \ {q} :
        Path(r) = Path(q) /\ ~lost[r] => Ignores(r, d)
  BY <1>1 DEF Newcomer, IngestInv
<1>4. Docs(q)' = Docs(q) /\ \A r \in Builders : Path(r)' = Path(r)
  BY DEF OthersStay, Docs, Path
<1>5. ASSUME NEW r \in Builders \ {q}, Path(r)' = Path(q)', ~lost'[r]
      PROVE  Ignores(r, d)'
  BY <1>2, <1>3, <1>4, <1>5, AwayKeeps
<1> QED BY <1>4, <1>5

\* Withdrawing the pair: its ids and the new ones are in the hands of the builder.
LEMMA AddedKeeps ==
  ASSUME KeyedByCorpus, IngestInv, NEW p \in Builders, Added(p)
  PROVE  IngestInv'
<1>1. doing[p] = "build" /\ doing'[p] = "save" /\ \A q \in Builders \ {p} : doing'[q] = doing[q]
  BY StepFacts DEF IngestInv, Added
<1>2. /\ job' = job /\ opened' = opened /\ lost' = lost /\ pickled' = pickled
      /\ batches' = batches /\ owner' = owner
      /\ memory'[p] = memory[p] \o New(p) /\ pair' = [pair EXCEPT ![Path(p)] = NoPair]
      /\ \A q \in Builders \ {p} : SameBuilder(q) /\ lost'[q] = lost[q]
  BY <1>1 DEF Added, SameBuilder, IngestInv, IngestTypes
<1>3. IngestTypes'
  BY DEF IngestInv, IngestTypes, Added, BuildStep, IngestSteps, Locked, Adding, Pickled
<1>4. /\ doing[p] \in Locked /\ doing[p] \in Adding /\ doing[p] \in Pickled /\ owner[Path(p)] = p
      /\ doing'[p] \in Locked /\ doing'[p] \in Pickled
      /\ memory[p] = Loaded(p) /\ ~(ToSet(Head(batches[p])) \subseteq ToSet(Loaded(p)))
  BY <1>1, Mine DEF UnderLock, Locked, Adding, Pickled
<1>5. \A q \in Builders : Path(q)' = Path(q) /\ Docs(q)' = Docs(q)
  BY <1>2 DEF Path, Docs
<1>6. /\ pair'[Path(p)] = NoPair /\ pair' = [k \in Paths |-> pair'[k]]
      /\ \A k \in Paths \ {Path(p)} : pair'[k] = pair[k]
  BY <1>2, Mine DEF IngestInv, IngestTypes
<1>7. Elsewhere(p) /\ OthersStay(p)
  BY <1>2, <1>6 DEF Elsewhere, OthersStay
<1>8. /\ New(p) \in Seq(ToSet(Docs(p))) /\ IsInjective(New(p))
      /\ ToSet(New(p)) = ToSet(Head(batches[p])) \ ToSet(memory[p])
  <2>1. /\ memory[p] \in Seq(ToSet(Docs(p))) /\ Head(batches[p]) \in Seq(ToSet(Docs(p)))
        /\ IsInjective(Head(batches[p]))
    BY <1>4, MyBatches, Mine DEF IsPart
  <2>2. PICK S, s, t : /\ S = ToSet(Docs(p)) /\ s = Head(batches[p]) /\ t = memory[p]
                      /\ s \in Seq(S) /\ t \in Seq(S)
    BY <2>1
  <2>3. /\ Lacking(s, t) \in Seq(S) /\ ToSet(Lacking(s, t)) = ToSet(s) \ ToSet(t)
        /\ IsInjective(s) => IsInjective(Lacking(s, t))
    BY ONLY <2>2, LackingFacts
  <2> QED BY <2>1, <2>2, <2>3 DEF New
<1>9. IsPart(memory'[p], Docs(p)) /\ ToSet(memory'[p]) = ToSet(memory[p]) \cup ToSet(New(p))
  <2>1. memory[p] \in Seq(ToSet(Docs(p))) /\ IsInjective(memory[p])
    BY Mine DEF IsPart
  <2>2. ToSet(memory[p]) \cap ToSet(New(p)) = {}
    BY <1>8
  <2> QED BY <1>2, <1>8, <2>1, <2>2, JoinFacts DEF IsPart
<1>10. Rewriting(Path(p)) = {}
  <2> SUFFICES ASSUME NEW q \in Rewriting(Path(p)) PROVE FALSE
    OBVIOUS
  <2> QED BY <1>1, <1>4, PairAway
<1>11. ASSUME NEW q \in Builders, Path(q) = Path(p)
       PROVE  /\ Docs(q) = Docs(p) /\ Held(q) = ToSet(memory[p])
              /\ ToSet(memory'[p]) \subseteq Held(q)' /\ Held(q) \subseteq Held(q)'
              /\ Loaded(q) = Loaded(p) /\ (q # p => doing[q] \notin Locked)
  <2>1. Docs(q) = Docs(p) /\ Loaded(q) = Loaded(p)
    BY <1>11, SamePath
  <2>2. Held(q) = ToSet(memory[p])
    BY <2>1, <1>4, <1>10, <1>11, NotRewritten
  <2>3. p \in Rewriting(Path(q))'
    BY <1>1, <1>5, <1>11 DEF Rewriting
  <2>4. ToSet(memory'[p]) \subseteq Held(q)'
    BY <2>3 DEF Held
  <2> QED BY <2>1, <2>2, <2>4, <1>4, <1>9, <1>11, OneUnderLock
<1>12. ASSUME NEW q \in Builders, Path(q) = Path(p), ~lost[q]
       PROVE  /\ doing[q] # "open"
              /\ doing[q] \in Adding => /\ ToSet(memory[q]) \subseteq ToSet(memory[p])
                                        /\ ToSet(Docs(p)) \subseteq ToSet(memory[p]) \cup ToCome(q)
  <2>1. doing[q] # "open"
    <3> SUFFICES ASSUME doing[q] = "open" PROVE FALSE
      OBVIOUS
    <3>1. ToSet(Docs(q)) \subseteq ToSet(Loaded(q))
      BY <1>12, Mine DEF Progress
    <3>2. Docs(q) = Docs(p) /\ Loaded(q) = Loaded(p)
      BY <1>11, <1>12
    <3>3. ToSet(Head(batches[p])) \subseteq ToSet(Docs(p))
      BY <1>4, MyBatches
    <3> QED BY <3>1, <3>2, <3>3, <1>4
  <2> QED BY <2>1, <1>11, <1>12, Mine DEF Progress
<1>13. ASSUME NEW q \in Builders \ {p}, Path(q) = Path(p)
       PROVE  (BuilderSound(q) /\ UnderLock(q) /\ Progress(q) /\ Outcome(q))'
  <2>1. /\ doing'[q] = doing[q] /\ job'[q] = job[q] /\ memory'[q] = memory[q] /\ lost'[q] = lost[q]
        /\ batches'[q] = batches[q] /\ opened'[q] = opened[q] /\ pickled'[q] = pickled[q]
        /\ Docs(q)' = Docs(q) /\ Path(q)' = Path(q) /\ ToCome(q)' = ToCome(q)
    BY <1>2, <1>5 DEF SameBuilder, ToCome
  <2>2. BuilderSound(q)' /\ Outcome(q)'
    BY <2>1, Mine DEF BuilderSound, Outcome
  <2>3. UnderLock(q)'
    <3>1. doing[q] \notin Locked
      BY <1>11, <1>13
    <3> QED BY <3>1, <2>1 DEF UnderLock, Locked
  <2>4. Progress(q)'
    BY <2>1, <1>11, <1>12, <1>13, Mine DEF Progress
  <2> QED BY <2>2, <2>3, <2>4
<1>14. BuilderSound(p)' /\ Outcome(p)' /\ UnderLock(p)'
  <2>1. BuilderSound(p)'
    BY <1>2, <1>4, <1>5, <1>9, Mine DEF BuilderSound
  <2>2. Outcome(p)'
    BY <1>2, <1>4, <1>5, Mine DEF Outcome
  <2>3. UnderLock(p)'
    BY <1>1, <1>2, <1>4, <1>5, <1>6, <1>8, <1>9 DEF UnderLock
  <2> QED BY <2>1, <2>2, <2>3
<1>15. Progress(p)'
  <2>1. ToCome(p)' = ToCome(p)
    BY <1>2 DEF ToCome
  <2> QED BY <2>1, <1>1, <1>2, <1>4, <1>5, <1>11, <1>12 DEF Progress
<1>16. \A q \in Builders : (BuilderSound(q) /\ UnderLock(q) /\ Progress(q) /\ Outcome(q))'
  <2> TAKE q \in Builders
  <2>1. CASE Path(q) # Path(p)
    BY <2>1, <1>2, <1>7, AwayKeeps
  <2> QED BY <2>1, <1>13, <1>14, <1>15
<1>17. StoresSound'
  <2> SUFFICES ASSUME NEW j \in IngestJobs, Shaped(pair'[PathOf(j)], j)
               PROVE  IsPart(pair'[PathOf(j)].ids, DocIds[j.corpus])
    BY DEF StoresSound
  <2>1. PathOf(j) # Path(p)
    BY <2>1, <1>6 DEF Shaped
  <2> QED BY <2>1, <1>6, OfTheJob DEF IngestInv, StoresSound
<1>18. LocksHeld'
  <2> SUFFICES ASSUME NEW k \in Paths, owner[k] # NoPair
               PROVE  owner[k] \in Builders /\ doing'[owner[k]] \in Locked /\ PathOf(job'[owner[k]]) = k
    BY <1>2 DEF LocksHeld, Path
  <2>1. owner[k] \in Builders /\ doing[owner[k]] \in Locked /\ Path(owner[k]) = k
    BY DEF IngestInv, LocksHeld
  <2> QED BY <2>1, <1>1, <1>2, <1>4 DEF Path
<1>19. Newcomer'
  <2> SUFFICES ASSUME NEW q \in Builders, doing'[q] = "save"
               PROVE  \E d \in ToSet(Docs(q)') : \A r \in Builders \ {q} :
                        Path(r)' = Path(q)' /\ ~lost'[r] => Ignores(r, d)'
    BY DEF Newcomer
  <2>1. CASE q # p
    BY <2>1, <1>2, <1>4, <1>7, AwayNewcomer
  <2>2. CASE q = p
    <3>1. PICK d \in ToSet(Head(batches[p])) : d \notin ToSet(memory[p])
      BY <1>4
    <3>2. d \in ToSet(Docs(p))
      BY <1>4, MyBatches
    <3>3. ASSUME NEW r \in Builders \ {p}, Path(r)' = Path(p)', ~lost'[r]
          PROVE  Ignores(r, d)'
      <4>1. Path(r) = Path(p) /\ ~lost[r]
        BY <3>3, <1>2, <1>5
      <4>2. /\ doing[r] # "open"
            /\ doing[r] \in Adding => d \notin ToSet(memory[r]) /\ d \in ToCome(r)
        BY <4>1, <3>1, <3>2, <1>12
      <4> QED BY <4>2, <1>2 DEF Ignores, SameBuilder, ToCome
    <3> QED BY <2>2, <3>2, <3>3, <1>5
  <2> QED BY <2>1, <2>2
<1> QED BY <1>3, <1>16, <1>17, <1>18, <1>19 DEF IngestInv

\* What the builder holds becomes the pair: the path has what it had.
LEMMA PublishPairKeeps ==
  ASSUME KeyedByCorpus, IngestInv, NEW p \in Builders, PublishPair(p)
  PROVE  IngestInv'
<1> DEFINE x == [ids |-> memory[p], kind |-> job[p].kind, lists |-> job[p].lists]
<1>1. /\ doing[p] = "save" /\ doing'[p] = AfterBatch(p)
      /\ \A q \in Builders \ {p} : doing'[q] = doing[q]
  BY StepFacts DEF IngestInv, PublishPair
<1>2. /\ job' = job /\ opened' = opened /\ lost' = lost /\ pickled' = pickled
      /\ memory' = memory /\ owner' = Unlocked(p)
      /\ batches'[p] = Tail(batches[p]) /\ pair' = [pair EXCEPT ![Path(p)] = x]
      /\ \A q \in Builders \ {p} : SameBuilder(q) /\ lost'[q] = lost[q]
  BY <1>1 DEF PublishPair, SameBuilder, IngestInv, IngestTypes
<1>3. IngestTypes'
  BY DEF IngestInv, IngestTypes, PublishPair, BuildStep, AfterBatch, Unlocked,
     IngestSteps, Locked, Adding, Pickled
<1>4. /\ doing[p] \in Locked /\ doing[p] \in Adding /\ doing[p] \in Pickled
      /\ doing'[p] \notin Locked /\ doing'[p] \in Pickled
      /\ pair[Path(p)] = NoPair /\ ToSet(Head(batches[p])) \subseteq ToSet(memory[p])
      /\ doing'[p] = IF Len(batches[p]) = 1 THEN "open" ELSE "add"
  BY <1>1, Mine DEF UnderLock, Locked, Adding, Pickled, AfterBatch
<1>5. \A q \in Builders : Path(q)' = Path(q) /\ Docs(q)' = Docs(q)
  BY <1>2 DEF Path, Docs
<1>6. pair'[Path(p)] = x /\ \A k \in Paths \ {Path(p)} : pair'[k] = pair[k]
  BY <1>2, Mine DEF IngestInv, IngestTypes
<1>7. Elsewhere(p) /\ OthersStay(p)
  <2>1. \A k \in Paths \ {Path(p)} : owner'[k] = owner[k]
    BY <1>2, Mine DEF IngestInv, IngestTypes, Unlocked
  <2> QED BY <2>1, <1>2, <1>6 DEF Elsewhere, OthersStay
<1>8. LocksHeld' /\ \A q \in Builders \ {p} : doing[q] \in Locked => owner'[Path(q)] = q
  <2>1. job' = job /\ owner' = Unlocked(p) /\ \A q \in Builders \ {p} : doing'[q] = doing[q]
    BY <1>1, <1>2
  <2> QED BY <2>1, <1>4, UnlockedFacts
<1>9. x # NoPair /\ Shaped(x, job[p]) /\ x.ids = memory[p]
  <2>1. /\ NoPair \notin [ids : Seq(ToSet(DocIds[job[p].corpus])), kind : {job[p].kind},
                          lists : {job[p].lists}]
        /\ job[p].kind \in {"ivf", "hnsw"}
    BY Mine, IngestAssumption
  <2>2. x \in [ids : Seq(ToSet(DocIds[job[p].corpus])), kind : {job[p].kind},
               lists : {job[p].lists}]
    BY Mine DEF IsPart, Docs
  <2>3. x # NoPair
    BY <2>1, <2>2
  <2> QED BY <2>1, <2>3 DEF Shaped, IvfShape, HnswShape
<1> HIDE DEF x
<1>10. ASSUME NEW q \in Builders, Path(q) = Path(p)
       PROVE  /\ Docs(q) = Docs(p) /\ Shaped(pair'[Path(p)], job[q]) /\ Loaded(q)' = memory[p]
              /\ Held(q) = ToSet(memory[p]) /\ ToSet(memory[p]) \subseteq Held(q)'
              /\ q # p => doing[q] \notin Locked /\ (~lost[q] => doing[q] # "open")
  <2>1. Docs(q) = Docs(p) /\ Shaped(pair'[Path(p)], job[q]) /\ Loaded(q) = <<>>
    BY <1>4, <1>6, <1>9, <1>10, SamePath, Mine DEF Shaped
  <2>2. Loaded(q)' = memory[p]
    BY <2>1, <1>2, <1>5, <1>6, <1>9, <1>10 DEF Loaded
  <2>3. Rewriting(Path(p)) = {p}
    <3>1. \A r \in Rewriting(Path(p)) : r = p
      BY <1>4, PairAway
    <3>2. p \in Rewriting(Path(p))
      BY <1>1 DEF Rewriting
    <3> QED BY <3>1, <3>2
  <2>4. Held(q) = ToSet(memory[p])
    <3>1. ToSet(<<>>) = {}
      BY DEF ToSet
    <3> QED BY <3>1, <2>1, <2>3, <1>10 DEF Held
  <2>5. ToSet(memory[p]) \subseteq Held(q)'
    BY <2>2 DEF Held
  <2>6. q # p => doing[q] \notin Locked /\ (~lost[q] => doing[q] # "open")
    <3> HAVE q # p
    <3>1. doing[q] \notin Locked
      BY <1>4, <1>10, OneUnderLock
    <3>2. ~lost[q] => doing[q] # "open"
      BY <1>1, <1>10 DEF IngestInv, Newcomer, Ignores
    <3> QED BY <3>1, <3>2
  <2> QED BY <2>1, <2>2, <2>4, <2>5, <2>6
<1>11. ASSUME NEW q \in Builders \ {p}, Path(q) = Path(p)
       PROVE  (BuilderSound(q) /\ UnderLock(q) /\ Progress(q) /\ Outcome(q))'
  <2>1. /\ doing'[q] = doing[q] /\ job'[q] = job[q] /\ memory'[q] = memory[q] /\ lost'[q] = lost[q]
        /\ batches'[q] = batches[q] /\ opened'[q] = opened[q] /\ pickled'[q] = pickled[q]
        /\ Docs(q)' = Docs(q) /\ Path(q)' = Path(q) /\ ToCome(q)' = ToCome(q)
    BY <1>2, <1>5 DEF SameBuilder, ToCome
  <2>2. BuilderSound(q)' /\ Outcome(q)'
    BY <2>1, Mine DEF BuilderSound, Outcome
  <2>3. UnderLock(q)'
    <3>1. doing[q] \notin Locked
      BY <1>10, <1>11
    <3> QED BY <3>1, <2>1 DEF UnderLock, Locked
  <2>4. Progress(q)'
    BY <2>1, <1>10, <1>11, Mine DEF Progress
  <2> QED BY <2>2, <2>3, <2>4
<1>12. BuilderSound(p)' /\ Outcome(p)' /\ UnderLock(p)'
  <2>1. BuilderSound(p)'
    <3>1. doing'[p] \in Adding => Len(batches[p]) # 1
      BY <1>4 DEF Adding, Locked
    <3> QED BY <3>1, <1>2, <1>4, <1>5, MyBatches, Mine DEF BuilderSound
  <2>2. Outcome(p)'
    BY <1>2, <1>4, <1>5, Mine DEF Outcome
  <2>3. UnderLock(p)'
    BY <1>4 DEF UnderLock, Locked
  <2> QED BY <2>1, <2>2, <2>3
<1>13. Progress(p)'
  <2> SUFFICES ASSUME ~lost[p]
               PROVE  /\ ToSet(Docs(p)) \subseteq Held(p)' \cup ToCome(p)'
                      /\ ToSet(memory[p]) \subseteq Held(p)'
                      /\ doing'[p] = "open" => /\ Shaped(pair'[Path(p)], job[p])
                                               /\ ToSet(Docs(p)) \subseteq ToSet(memory[p])
    BY <1>2, <1>5, <1>10 DEF Progress
  <2>1. ToSet(Docs(p)) \subseteq ToSet(memory[p]) \cup ToCome(p)
    BY <1>4, <1>10, Mine DEF Progress
  <2>2. ToCome(p)' = UNION {ToSet(Tail(batches[p])[i]) : i \in DOMAIN Tail(batches[p])}
    BY <1>2 DEF ToCome
  <2>3. ToSet(Docs(p)) \subseteq ToSet(memory[p]) \cup ToCome(p)'
    BY <2>1, <2>2, <1>4, MyBatches
  <2>4. doing'[p] = "open" => ToSet(Docs(p)) \subseteq ToSet(memory[p])
    <3>1. doing'[p] = "open" => Len(batches[p]) = 1
      BY <1>4
    <3> QED BY <3>1, <2>1, <1>4, MyBatches
  <2> QED BY <2>3, <2>4, <1>10
<1>14. \A q \in Builders : (BuilderSound(q) /\ UnderLock(q) /\ Progress(q) /\ Outcome(q))'
  <2> TAKE q \in Builders
  <2>1. CASE Path(q) # Path(p)
    BY <2>1, <1>2, <1>7, AwayKeeps
  <2> QED BY <2>1, <1>11, <1>12, <1>13
<1>15. StoresSound'
  <2> SUFFICES ASSUME NEW j \in IngestJobs, Shaped(pair'[PathOf(j)], j)
               PROVE  IsPart(pair'[PathOf(j)].ids, DocIds[j.corpus])
    BY DEF StoresSound
  <2>1. CASE PathOf(j) # Path(p)
    BY <2>1, <1>6, OfTheJob DEF IngestInv, StoresSound
  <2>2. CASE PathOf(j) = Path(p)
    <3>1. DocIds[j.corpus] = Docs(p)
      BY <2>2, Mine, OfThePath DEF Path, Docs
    <3> QED BY <3>1, <2>2, <1>6, <1>9, Mine
  <2> QED BY <2>1, <2>2
<1>16. Newcomer'
  <2> SUFFICES ASSUME NEW q \in Builders, doing'[q] = "save"
               PROVE  \E d \in ToSet(Docs(q)') : \A r \in Builders \ {q} :
                        Path(r)' = Path(q)' /\ ~lost'[r] => Ignores(r, d)'
    BY DEF Newcomer
  <2>1. q # p
    BY <1>4 DEF Locked
  <2> QED BY <2>1, <1>2, <1>4, <1>7, AwayNewcomer
<1> QED BY <1>3, <1>8, <1>14, <1>15, <1>16 DEF IngestInv

\* Dying over a withdrawn pair takes its ids from everyone on the path.
LEMMA EndsOverPairKeeps ==
  ASSUME KeyedByCorpus, IngestInv, NEW p \in Builders, NEW steps, EndsOver(p, steps), doing[p] = "save"
  PROVE  IngestInv'
<1>1. doing'[p] = "idle" /\ \A q \in Builders \ {p} : doing'[q] = doing[q]
  BY DEF EndsOver, IngestInv, IngestTypes
<1>2. /\ pair' = pair /\ pickled' = pickled /\ job' = job /\ opened' = opened /\ memory'[p] = <<>>
      /\ \A q \in Builders \ {p} : SameBuilder(q)
      /\ \A q \in Builders : lost'[q] = (lost[q] \/ (q # p /\ Path(q) = Path(p)))
  BY <1>1 DEF EndsOver, SameBuilder, IngestInv, IngestTypes
<1>3. IngestTypes'
  <2>1. lost' \in [Builders -> BOOLEAN]
    BY DEF EndsOver, IngestInv, IngestTypes
  <2> QED BY <2>1 DEF IngestInv, IngestTypes, EndsOver, Unlocked, IngestSteps
<1>4. doing[p] \in Locked /\ doing'[p] \notin Locked /\ owner' = Unlocked(p)
  BY <1>1, Mine DEF Locked, UnderLock, EndsOver
<1>5. \A q \in Builders : Path(q)' = Path(q) /\ Docs(q)' = Docs(q)
  BY <1>2 DEF Path, Docs
<1>6. LocksHeld'
  BY <1>1, <1>2, <1>4, UnlockedFacts
<1>7. Elsewhere(p) /\ OthersStay(p)
  <2>1. \A k \in Paths \ {Path(p)} : owner'[k] = owner[k]
    BY <1>4, Mine DEF IngestInv, IngestTypes, Unlocked
  <2> QED BY <2>1, <1>2 DEF Elsewhere, OthersStay
<1>8. ASSUME NEW q \in Builders \ {p}, Path(q) = Path(p)
      PROVE  (BuilderSound(q) /\ UnderLock(q) /\ Progress(q) /\ Outcome(q))'
  <2>1. /\ doing'[q] = doing[q] /\ job'[q] = job[q] /\ memory'[q] = memory[q] /\ lost'[q]
        /\ batches'[q] = batches[q] /\ opened'[q] = opened[q] /\ pickled'[q] = pickled[q]
        /\ Docs(q)' = Docs(q)
    BY <1>2, <1>5, <1>8 DEF SameBuilder
  <2>2. BuilderSound(q)' /\ Outcome(q)'
    BY <2>1, Mine DEF BuilderSound, Outcome
  <2>3. UnderLock(q)'
    <3>1. doing[q] \notin Locked
      BY <1>4, <1>8, OneUnderLock
    <3> QED BY <3>1, <2>1 DEF UnderLock, Locked
  <2>4. Progress(q)'
    BY <2>1 DEF Progress
  <2> QED BY <2>2, <2>3, <2>4
<1>9. (BuilderSound(p) /\ UnderLock(p) /\ Progress(p) /\ Outcome(p))'
  <2>1. (BuilderSound(p) /\ UnderLock(p) /\ Progress(p))'
    BY <1>1, <1>2, <1>5, Mine DEF BuilderSound, UnderLock, Progress, Adding, Locked
  <2>2. Outcome(p)'
    BY <1>1, <1>2, <1>5, Mine DEF Outcome, Pickled, Adding, Locked
  <2> QED BY <2>1, <2>2
<1>10. \A q \in Builders : Path(q) # Path(p) => lost'[q] = lost[q]
  BY <1>2, <1>3 DEF IngestInv, IngestTypes
<1>11. \A q \in Builders : (BuilderSound(q) /\ UnderLock(q) /\ Progress(q) /\ Outcome(q))'
  <2> TAKE q \in Builders
  <2>1. CASE Path(q) # Path(p)
    BY <2>1, <1>7, <1>10, AwayKeeps
  <2> QED BY <2>1, <1>8, <1>9
<1>12. StoresSound'
  BY <1>2 DEF StoresSound, IngestInv
<1>13. Newcomer'
  <2> SUFFICES ASSUME NEW q \in Builders, doing'[q] = "save"
               PROVE  \E d \in ToSet(Docs(q)') : \A r \in Builders \ {q} :
                        Path(r)' = Path(q)' /\ ~lost'[r] => Ignores(r, d)'
    BY DEF Newcomer
  <2>1. q # p
    BY <1>1
  <2> QED BY <2>1, <1>4, <1>7, <1>10, AwayNewcomer
<1> QED BY <1>3, <1>6, <1>11, <1>12, <1>13 DEF IngestInv

\* Nothing that fits an evaluation is there at first.
LEMMA IngestInitInv == IngestInit => IngestInv
<1> SUFFICES ASSUME IngestInit PROVE IngestInv
  OBVIOUS
<1>1. /\ doing = [p \in Builders |-> "idle"] /\ memory = [p \in Builders |-> <<>>]
      /\ opened = [p \in Builders |-> NoPair] /\ lost = [p \in Builders |-> FALSE]
      /\ owner = [k \in Paths |-> NoPair] /\ batches = [p \in Builders |-> <<>>]
      /\ pickled = [p \in Builders |-> NoPair]
  BY DEF IngestInit
<1>2. IngestTypes
  <2>1. job \in [Builders -> IngestJobs]
    BY IngestAssumption DEF IngestInit
  <2>2. pair = [k \in Paths |-> pair[k]]
    BY DEF IngestInit
  <2> QED BY <2>1, <2>2, <1>1 DEF IngestTypes, IngestSteps
<1>3. StoresSound
  <2> SUFFICES ASSUME NEW j \in IngestJobs PROVE ~Shaped(pair[PathOf(j)], j)
    BY DEF StoresSound
  <2>1. PICK left \in {NoPair, [ids |-> <<"x">>, kind |-> "old", lists |-> 0]} :
          pair = [k \in Paths |-> left]
    BY DEF IngestInit
  <2>2. pair[PathOf(j)] = left /\ j.lists # 0
    BY <2>1, OfTheJob
  <2> QED BY <2>2 DEF Shaped, IvfShape, HnswShape
<1>4. ASSUME NEW p \in Builders
      PROVE  BuilderSound(p) /\ UnderLock(p) /\ Progress(p) /\ Outcome(p)
  <2>1. doing[p] = "idle" /\ memory[p] = <<>> /\ opened[p] = NoPair /\ job[p] \in IngestJobs
    BY <1>1, <1>2 DEF IngestTypes
  <2>2. IsPart(<<>>, Docs(p))
    BY <2>1, OfTheJob DEF Docs
  <2> QED BY <2>1, <2>2 DEF BuilderSound, UnderLock, Progress, Outcome, Pickled, Adding, Locked
<1>5. LocksHeld /\ Newcomer
  BY <1>1 DEF LocksHeld, Newcomer
<1> QED BY <1>2, <1>3, <1>4, <1>5 DEF IngestInv

\* Every step keeps it.
LEMMA IngestStepInv ==
  ASSUME KeyedByCorpus, IngestInv, [IngestNext]_ingestVars
  PROVE  IngestInv'
<1>1. CASE UNCHANGED ingestVars
  <2>1. /\ pair' = pair /\ owner' = owner /\ pickled' = pickled /\ doing' = doing /\ job' = job
        /\ memory' = memory /\ batches' = batches /\ opened' = opened /\ lost' = lost
    BY <1>1 DEF ingestVars
  <2>2. \A p : /\ Path(p)' = Path(p) /\ Docs(p)' = Docs(p) /\ Loaded(p)' = Loaded(p)
               /\ ToCome(p)' = ToCome(p) /\ Rewriting(Path(p))' = Rewriting(Path(p))
    BY <2>1 DEF Path, Docs, Loaded, ToCome, Rewriting
  <2>3. \A p : Held(p)' = Held(p)
    BY <2>1, <2>2 DEF Held
  <2>4. IngestTypes' /\ StoresSound' /\ LocksHeld'
    BY <2>1 DEF IngestInv, IngestTypes, StoresSound, LocksHeld, Path
  <2>5. Newcomer'
    BY <2>1, <2>2 DEF IngestInv, Newcomer, Ignores
  <2>6. \A p \in Builders : BuilderSound(p)' /\ UnderLock(p)' /\ Progress(p)' /\ Outcome(p)'
    BY <2>1, <2>2, <2>3 DEF IngestInv, BuilderSound, UnderLock, Progress, Outcome
  <2> QED BY <2>4, <2>5, <2>6 DEF IngestInv
<1>2. ASSUME NEW p \in Builders, NEW steps, EndsOver(p, steps) PROVE IngestInv'
  BY <1>2, EndsEarlyKeeps, EndsOverPairKeeps
<1>3. ASSUME NEW p \in Builders,
             \/ IngestBm25(p) \/ FastSkip(p) \/ LoadStore(p) \/ Encode(p) \/ EncodeOom(p)
             \/ SkipBatch(p) \/ LockPair(p) \/ Reload(p) \/ AddIvf(p) \/ AddHnsw(p)
             \/ PublishPair(p) \/ Untrainable(p) \/ AddFails(p) \/ BuilderDies(p) \/ OpenStore(p)
             \/ \E j \in IngestJobs : NewEvaluation(p, j)
      PROVE  IngestInv'
  <2>1. CASE IngestBm25(p)
    BY <2>1, IngestBm25Keeps
  <2>2. CASE FastSkip(p)
    BY <2>2, FastSkipKeeps
  <2>3. CASE LoadStore(p)
    BY <2>3, LoadStoreKeeps
  <2>4. CASE Encode(p) \/ EncodeOom(p)
    BY <2>4, EncodingKeeps
  <2>5. CASE SkipBatch(p)
    BY <2>5, SkipBatchKeeps
  <2>6. CASE LockPair(p)
    BY <2>6, LockPairKeeps
  <2>7. CASE Reload(p)
    BY <2>7, ReloadKeeps
  <2>8. CASE AddIvf(p) \/ AddHnsw(p)
    BY <2>8, AddedKeeps DEF AddIvf, AddHnsw
  <2>9. CASE PublishPair(p)
    BY <2>9, PublishPairKeeps
  <2>10. CASE Untrainable(p) \/ AddFails(p) \/ BuilderDies(p)
    BY <2>10, <1>2 DEF Untrainable, AddFails, BuilderDies
  <2>11. CASE OpenStore(p)
    BY <2>11, OpenStoreKeeps
  <2>12. CASE \E j \in IngestJobs : NewEvaluation(p, j)
    BY <2>12, NewEvaluationKeeps
  <2> QED BY <1>3, <2>1, <2>2, <2>3, <2>4, <2>5, <2>6, <2>7, <2>8, <2>9, <2>10, <2>11, <2>12
<1> QED BY <1>1, <1>3 DEF IngestNext

\* IngestCoversTheCorpus, for every number of builders, evaluations, corpora and batch
\* sizes: what the retrieval nodes open is the corpus, each id once, unless a builder
\* died over the pair meanwhile. The hypothesis is that no path is of two corpora,
\* which the chunk hash gives and evaluations without chunking do not.
THEOREM IngestTheorem == ASSUME KeyedByCorpus PROVE IngestSpec => []IngestCoversTheCorpus
<1>1. IngestInv => IngestCoversTheCorpus
  <2> SUFFICES ASSUME IngestInv, NEW p \in Builders
               PROVE  /\ doing[p] = "open" /\ ~lost[p] => Shaped(pair[Path(p)], job[p])
                      /\ opened[p] # NoPair =>
                         /\ opened[p].sparse = job[p].corpus
                         /\ IsInjective(opened[p].dense)
                         /\ ToSet(opened[p].dense) \subseteq ToSet(Docs(p))
                         /\ ~lost[p] => ToSet(opened[p].dense) = ToSet(Docs(p))
    BY DEF IngestCoversTheCorpus
  <2> QED BY Mine, InList DEF Progress, Outcome, IsPart
<1>2. IngestInv /\ [IngestNext]_ingestVars => IngestInv'
  BY IngestStepInv
<1> QED BY <1>1, <1>2, IngestInitInv, PTL DEF IngestSpec
=============================================================================
