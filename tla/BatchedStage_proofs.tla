------------------------- MODULE BatchedStage_proofs -------------------------
(***************************************************************************)
(* Proofs about BatchedStage, for every set of calls and every batch size. *)
(***************************************************************************)
EXTENDS BatchedStage, SequenceLemmas, FiniteSetTheorems, TLAPS

\* Type correctness: no step of a call, of the worker or of close() leaves the
\* variables' types, and _run_batch never holds more than batch_size items.
THEOREM TypeCorrect == Spec => []TypeOK
<1> USE BatchedStageAssumption DEF BatchedStageAssumption
<1>1. Init => TypeOK
  <2>1. <<>> \in Seq(Calls) /\ Len(<<>>) = 0
    BY EmptySeq
  <2>2. Init => queue \in Seq(Calls) /\ batch \in Seq(Calls) /\ Len(batch) <= BatchSize
    BY <2>1 DEF Init
  <2>3. QED
    BY <2>2 DEF Init, TypeOK, CallStates, FutStates, WorkerStates, ThreadStates, CloserStates
<1>2. TypeOK /\ [Next]_vars => TypeOK'
  <2> SUFFICES ASSUME TypeOK, [Next]_vars
               PROVE  TypeOK'
    OBVIOUS
  <2> USE DEF TypeOK, CallStates, FutStates, WorkerStates, ThreadStates, CloserStates,
              callVars, queueVars, workerVars, Notify
  <2>1. ASSUME NEW c \in Calls, Refuse(c) PROVE TypeOK'
    BY <2>1 DEF Refuse
  <2>2. ASSUME NEW c \in Calls, Submit(c) PROVE TypeOK'
    BY <2>2 DEF Submit
  <2>3. ASSUME NEW c \in Calls, Answered(c) PROVE TypeOK'
    BY <2>3 DEF Answered
  <2>4. ASSUME NEW c \in Calls, CancelCall(c) PROVE TypeOK'
    BY <2>4 DEF CancelCall
  <2>5. ASSUME NEW c \in Calls, FutureCancelled(c) PROVE TypeOK'
    BY <2>5 DEF FutureCancelled
  <2>6. ASSUME NEW c \in Calls, Unwind(c) PROVE TypeOK'
    <3>1. queue' \in Seq(Calls)
      BY <2>6, RemoveAtFacts DEF Unwind
    <3>2. QED
      BY <2>6, <3>1 DEF Unwind
  <2>7. ASSUME NEW c \in Calls, TimePasses(c) PROVE TypeOK'
    BY <2>7 DEF TimePasses
  <2>8. CASE TimerFires
    BY <2>8 DEF TimerFires
  <2>9. CASE WaitForItem
    BY <2>9 DEF WaitForItem
  <2>10. CASE WaitToFill
    <3>1. Head(queue) \in Calls
      BY <2>10, HeadTailProperties DEF WaitToFill, KeepsFilling
    <3>2. QED
      BY <2>10, <3>1 DEF WaitToFill
  <2>11. CASE StopWorker
    BY <2>11 DEF StopWorker
  <2>12. CASE TakeBatch
    <3>1. /\ BatchLen \in Nat
          /\ BatchLen <= Len(queue)
          /\ BatchLen <= BatchSize
      BY DEF BatchLen
    <3>2. batch' \in Seq(Calls) /\ Len(batch') <= BatchSize /\ queue' \in Seq(Calls)
      BY <2>12, <3>1, SubSeqProperties DEF TakeBatch
    <3>3. QED
      BY <2>12, <3>2 DEF TakeBatch
  <2>13. CASE FinishBatch
    BY <2>13 DEF FinishBatch, Resolve
  <2>14. CASE StageEnds
    BY <2>14 DEF StageEnds
  <2>15. CASE CancelWorker
    BY <2>15 DEF CancelWorker
  <2>16. CASE Close
    BY <2>16 DEF Close, Resolve
  <2>17. CASE CancelClose
    BY <2>17 DEF CancelClose
  <2>18. CASE FinishClose
    BY <2>18 DEF FinishClose
  <2>19. CASE UNCHANGED vars
    BY <2>19 DEF vars
  <2>20. QED
    BY <2>1, <2>2, <2>3, <2>4, <2>5, <2>6, <2>7, <2>8, <2>9, <2>10, <2>11, <2>12,
       <2>13, <2>14, <2>15, <2>16, <2>17, <2>18, <2>19
       DEF Next, CallStep, WorkerStep, CloseStep
<1>3. QED
  BY <1>1, <1>2, PTL DEF Spec

-----------------------------------------------------------------------------
(***************************************************************************)
(* A sleeping worker has nothing to hear of.                               *)
(***************************************************************************)
THEOREM HearsQueue == Spec => []WorkerHearsQueue
<1>1. Init => WorkerHearsQueue
  BY DEF Init, WorkerHearsQueue
<1>2. TypeOK /\ WorkerHearsQueue /\ [Next]_vars => WorkerHearsQueue'
  <2> SUFFICES ASSUME TypeOK, WorkerHearsQueue, [Next]_vars
               PROVE  WorkerHearsQueue'
    OBVIOUS
  <2> USE DEF WorkerHearsQueue, callVars, queueVars, workerVars, Notify, WorkerWaits
  <2>1. ASSUME NEW c \in Calls, Refuse(c) PROVE WorkerHearsQueue'
    BY <2>1 DEF Refuse
  <2>2. ASSUME NEW c \in Calls, Submit(c) PROVE WorkerHearsQueue'
    BY <2>2 DEF Submit
  <2>3. ASSUME NEW c \in Calls, Answered(c) PROVE WorkerHearsQueue'
    BY <2>3 DEF Answered
  <2>4. ASSUME NEW c \in Calls, CancelCall(c) PROVE WorkerHearsQueue'
    BY <2>4 DEF CancelCall
  <2>5. ASSUME NEW c \in Calls, FutureCancelled(c) PROVE WorkerHearsQueue'
    BY <2>5 DEF FutureCancelled
  <2>6. ASSUME NEW c \in Calls, Unwind(c) PROVE WorkerHearsQueue'
    BY <2>6 DEF Unwind
  <2>7. ASSUME NEW c \in Calls, TimePasses(c) PROVE WorkerHearsQueue'
    BY <2>7 DEF TimePasses
  <2>8. CASE TimerFires
    BY <2>8 DEF TimerFires
  <2>9. CASE WaitForItem
    BY <2>9 DEF WaitForItem
  <2>10. CASE WaitToFill
    BY <2>10 DEF WaitToFill, KeepsFilling
  <2>11. CASE StopWorker
    BY <2>11 DEF StopWorker
  <2>12. CASE TakeBatch
    BY <2>12 DEF TakeBatch
  <2>13. CASE FinishBatch
    BY <2>13 DEF FinishBatch
  <2>14. CASE StageEnds
    BY <2>14 DEF StageEnds
  <2>15. CASE CancelWorker
    BY <2>15 DEF CancelWorker
  <2>16. CASE Close
    BY <2>16 DEF Close
  <2>17. CASE CancelClose
    BY <2>17 DEF CancelClose
  <2>18. CASE FinishClose
    BY <2>18 DEF FinishClose
  <2>19. CASE UNCHANGED vars
    BY <2>19 DEF vars
  <2>20. QED
    BY <2>1, <2>2, <2>3, <2>4, <2>5, <2>6, <2>7, <2>8, <2>9, <2>10, <2>11, <2>12,
       <2>13, <2>14, <2>15, <2>16, <2>17, <2>18, <2>19
       DEF Next, CallStep, WorkerStep, CloseStep
<1>3. QED
  BY <1>1, <1>2, TypeCorrect, PTL DEF Spec

-----------------------------------------------------------------------------
(***************************************************************************)
(* No call is stranded.  NoStrandedCall is not inductive: that a fresh     *)
(* call is in nobody's hands yet, that only a running (or cancelled)       *)
(* worker holds a batch and that a closed service has an empty queue are   *)
(* needed with it, and that only an awaited future is pending.             *)
(***************************************************************************)
Custody ==
    /\ \A c \in Calls : Queued(c) \/ Batched(c) => call[c] \notin {"new", "refused"}
    /\ worker \notin {"running", "cancelled"} => batch = <<>>
    /\ closed => queue = <<>>
    /\ worker = "returned" => closed
    /\ \A c \in Calls : fut[c] = "pending" => call[c] = "awaiting"

StrandInv == TypeOK /\ NoStrandedCall /\ Custody

\* What appending one element does to a sequence.
LEMMA AppendFacts ==
    ASSUME NEW S, NEW s \in Seq(S), NEW e \in S
    PROVE  /\ Len(Append(s, e)) = Len(s) + 1
           /\ \A j \in 1..(Len(s) + 1) :
                Append(s, e)[j] = IF j = Len(s) + 1 THEN e ELSE s[j]
BY AppendProperties, LenProperties

\* A step that leaves the queue and the batch alone and makes no future pending
\* keeps every call in the hands it was in.
LEMMA HandsUnchanged ==
    ASSUME StrandInv, TypeOK', queue' = queue, batch' = batch,
           \A c \in Calls : fut'[c] = "pending" =>
                              fut[c] = "pending" /\ call'[c] = "awaiting",
           \A c \in Calls : call'[c] \in {"new", "refused"} =>
                              ~Queued(c) /\ ~Batched(c),
           worker' \in {"returned"} => closed' /\ queue = <<>> /\ batch = <<>>,
           worker' \notin {"running", "cancelled"} => batch = <<>>,
           closed' => queue = <<>>
    PROVE  NoStrandedCall' /\ Custody'
<1>1. \A c \in Calls : (Queued(c)' <=> Queued(c)) /\ (Batched(c)' <=> Batched(c))
  BY DEF Queued, Batched
<1>2. NoStrandedCall'
  BY <1>1 DEF NoStrandedCall, StrandInv
<1>3. Custody'
  BY <1>1 DEF Custody, StrandInv
<1>4. QED
  BY <1>2, <1>3

\* run(): the item that joins the queue is the future that became pending.
LEMMA SubmitKeepsHands ==
    ASSUME NEW c \in Calls, StrandInv, TypeOK', Submit(c)
    PROVE  NoStrandedCall' /\ Custody'
<1> USE DEF StrandInv
<1>1. /\ Len(queue) \in Nat
      /\ Len(queue') = Len(queue) + 1
      /\ \A j \in 1..(Len(queue) + 1) :
            queue'[j] = IF j = Len(queue) + 1 THEN c ELSE queue[j]
  BY AppendFacts, LenProperties DEF Submit, TypeOK
<1>2. batch' = batch /\ closed' = closed /\ worker' = worker /\ ~closed /\ call[c] = "new"
  BY DEF Submit
<1>3. ASSUME NEW d \in Calls
      PROVE  Queued(d)' <=> (Queued(d) \/ d = c)
  <2>1. ASSUME Queued(d) PROVE Queued(d)'
    <3>1. PICK i \in 1..Len(queue) : queue[i] = d
      BY <2>1 DEF Queued
    <3>2. i \in 1..Len(queue') /\ queue'[i] = d
      BY <3>1, <1>1
    <3>3. QED
      BY <3>2 DEF Queued
  <2>2. Queued(c)'
    <3>1. Len(queue') \in 1..Len(queue') /\ queue'[Len(queue')] = c
      BY <1>1
    <3>2. QED
      BY <3>1 DEF Queued
  <2>3. ASSUME Queued(d)' PROVE Queued(d) \/ d = c
    <3>1. PICK i \in 1..Len(queue') : queue'[i] = d
      BY <2>3 DEF Queued
    <3>2. CASE i = Len(queue) + 1
      BY <3>1, <3>2, <1>1
    <3>3. CASE i # Len(queue) + 1
      <4>1. i \in 1..Len(queue) /\ queue[i] = d
        BY <3>1, <3>3, <1>1
      <4>2. QED
        BY <4>1 DEF Queued
    <3>4. QED
      BY <3>2, <3>3
  <2>4. QED
    BY <2>1, <2>2, <2>3
<1>4. \A d \in Calls : Batched(d)' <=> Batched(d)
  BY <1>2 DEF Batched
<1>5. ~Queued(c) /\ ~Batched(c)
  BY <1>2 DEF Custody
<1>6. \A d \in Calls : fut'[d] = "pending" => fut[d] = "pending" \/ d = c
  BY DEF Submit, TypeOK
<1>7. \A i, j \in 1..Len(queue') : queue'[i] = queue'[j] => i = j
  <2> SUFFICES ASSUME NEW i \in 1..Len(queue'), NEW j \in 1..Len(queue'),
                      queue'[i] = queue'[j]
               PROVE  i = j
    OBVIOUS
  <2>1. \A k \in 1..Len(queue) : queue[k] # c
    BY <1>5 DEF Queued
  <2>2. CASE i \in 1..Len(queue) /\ j \in 1..Len(queue)
    BY <2>2, <1>1 DEF NoStrandedCall
  <2>3. CASE i = Len(queue) + 1 \/ j = Len(queue) + 1
    BY <2>1, <2>3, <1>1
  <2>4. QED
    BY <2>2, <2>3, <1>1
<1>8. NoStrandedCall'
  BY <1>2, <1>3, <1>4, <1>5, <1>6, <1>7 DEF NoStrandedCall, Custody
<1>9. \A d \in Calls : d # c => call'[d] = call[d]
  BY DEF Submit, TypeOK
<1>10. call'[c] = "awaiting"
  BY DEF Submit, TypeOK
<1>11. Custody'
  BY <1>2, <1>3, <1>4, <1>5, <1>6, <1>9, <1>10 DEF Custody
<1>12. QED
  BY <1>8, <1>11

\* run()'s cancellation handler takes out an item whose future is not pending,
\* and takes it out once.
LEMMA UnwindKeepsHands ==
    ASSUME NEW c \in Calls, StrandInv, TypeOK', Unwind(c)
    PROVE  NoStrandedCall' /\ Custody'
<1> USE DEF StrandInv
<1>1. /\ batch' = batch /\ closed' = closed /\ worker' = worker /\ fut' = fut
      /\ call[c] = "unwinding"
      /\ call' = [call EXCEPT ![c] = "cancelled"]
  BY DEF Unwind
<1>2. CASE \A i \in DOMAIN queue : queue[i] # c
  <2>1. queue' = queue
    BY <1>2 DEF Unwind
  <2>2. \A d \in Calls : d # c => call'[d] = call[d]
    BY <1>1 DEF TypeOK
  <2>4. call'[c] = "cancelled"
    BY <1>1 DEF TypeOK
  <2>3. QED
    BY <1>1, <2>1, <2>2, <2>4, HandsUnchanged DEF NoStrandedCall, Custody
<1>3. ASSUME NEW i \in DOMAIN queue, queue[i] = c, queue' = RemoveAt(queue, i)
      PROVE  NoStrandedCall' /\ Custody'
  <2>0. i \in 1..Len(queue) /\ Len(queue) \in Nat /\ queue \in Seq(Calls)
    BY <1>3, LenProperties DEF TypeOK
  <2>1. /\ Len(queue) \in Nat /\ i \in 1..Len(queue)
        /\ Len(queue') = Len(queue) - 1
        /\ \A j \in 1..(Len(queue) - 1) :
              queue'[j] = IF j < i THEN queue[j] ELSE queue[j + 1]
    BY <1>3, <2>0, RemoveAtFacts
  <2>2. ASSUME NEW d \in Calls, d # c, Queued(d)
        PROVE  Queued(d)'
    <3>1. PICK k \in 1..Len(queue) : queue[k] = d
      BY <2>2 DEF Queued
    <3>2. CASE k < i
      <4>1. k \in 1..Len(queue') /\ queue'[k] = d
        BY <2>1, <3>1, <3>2
      <4>2. QED
        BY <4>1 DEF Queued
    <3>3. CASE k > i
      <4>1. k - 1 \in 1..(Len(queue) - 1) /\ ~(k - 1 < i) /\ (k - 1) + 1 = k
        BY <2>1, <3>1, <3>3
      <4>2. k - 1 \in 1..Len(queue') /\ queue'[k - 1] = d
        BY <2>1, <3>1, <4>1
      <4>3. QED
        BY <4>2 DEF Queued
    <3>4. k # i
      BY <1>3, <2>2, <3>1
    <3>5. QED
      BY <2>1, <3>2, <3>3, <3>4
  <2>3. ASSUME NEW d \in Calls, Queued(d)'
        PROVE  Queued(d)
    <3>1. PICK k \in 1..Len(queue') : queue'[k] = d
      BY <2>3 DEF Queued
    <3>2. k \in 1..Len(queue) /\ k + 1 \in 1..Len(queue)
      BY <2>1, <3>1
    <3>3. queue[k] = d \/ queue[k + 1] = d
      BY <2>1, <3>1
    <3>4. QED
      BY <3>2, <3>3 DEF Queued
  <2>4. \A d \in Calls : Batched(d)' <=> Batched(d)
    BY <1>1 DEF Batched
  <2>5. ASSUME NEW j \in 1..Len(queue'), NEW k \in 1..Len(queue'),
               queue'[j] = queue'[k]
        PROVE  j = k
    <3>1. \A m, n \in 1..Len(queue) : queue[m] = queue[n] => m = n
      BY DEF NoStrandedCall
    <3>2. /\ j \in 1..(Len(queue) - 1) /\ k \in 1..(Len(queue) - 1)
          /\ j \in 1..Len(queue) /\ k \in 1..Len(queue)
          /\ j + 1 \in 1..Len(queue) /\ k + 1 \in 1..Len(queue)
      BY <2>1
    <3>3. CASE j < i /\ k < i
      BY <2>1, <2>5, <3>1, <3>2, <3>3
    <3>4. CASE j >= i /\ k >= i
      <4>1. queue[j + 1] = queue[k + 1]
        BY <2>1, <2>5, <3>2, <3>4
      <4>2. j + 1 = k + 1
        BY <3>1, <3>2, <4>1
      <4>3. QED
        BY <4>2, <3>2
    <3>5. CASE j < i /\ k >= i
      <4>1. queue[j] = queue[k + 1]
        BY <2>1, <2>5, <3>2, <3>5
      <4>2. j = k + 1
        BY <3>1, <3>2, <4>1
      <4>3. QED
        BY <4>2, <3>5, <2>1
    <3>6. CASE j >= i /\ k < i
      <4>1. queue[j + 1] = queue[k]
        BY <2>1, <2>5, <3>2, <3>6
      <4>2. j + 1 = k
        BY <3>1, <3>2, <4>1
      <4>3. QED
        BY <4>2, <3>6, <2>1
    <3>7. QED
      BY <3>3, <3>4, <3>5, <3>6, <2>1
  <2>6. fut[c] # "pending"
    BY <1>1 DEF Custody
  <2>7. \A d \in Calls : d # c => call'[d] = call[d]
    BY <1>1 DEF TypeOK
  <2>8. call'[c] = "cancelled"
    BY <1>1 DEF TypeOK
  <2>9. NoStrandedCall'
    BY <1>1, <2>2, <2>3, <2>4, <2>5, <2>6 DEF NoStrandedCall, Custody
  <2>10. closed => FALSE
    BY <2>0 DEF Custody
  <2>11. Custody'
    BY <1>1, <2>3, <2>4, <2>6, <2>7, <2>8, <2>10 DEF Custody
  <2>12. QED
    BY <2>9, <2>11
<1>4. QED
  BY <1>2, <1>3 DEF Unwind

\* _next_batch(): what leaves the queue is what the batch holds afterwards.
LEMMA TakeKeepsHands ==
    ASSUME StrandInv, TypeOK', TakeBatch
    PROVE  NoStrandedCall' /\ Custody'
<1> USE DEF StrandInv
<1>1. Len(queue) \in Nat /\ BatchLen \in 0..Len(queue)
  BY BatchedStageAssumption, LenProperties DEF BatchedStageAssumption, TypeOK, BatchLen
<1>2. /\ Len(batch') = BatchLen
      /\ \A j \in 1..BatchLen : batch'[j] = queue[j]
      /\ Len(queue') = Len(queue) - BatchLen
      /\ \A j \in 1..(Len(queue) - BatchLen) : queue'[j] = queue[BatchLen + j]
  BY <1>1, SubSeqProperties DEF TypeOK, TakeBatch
<1>3. /\ fut' = fut /\ call' = call /\ closed' = closed /\ worker' = "running"
      /\ queue # <<>>
  BY DEF TakeBatch, callVars
<1>4. batch = <<>>
  BY DEF TakeBatch, Awake, Custody
<1>5. \A c \in Calls : ~Batched(c)
  BY <1>4, EmptySeq DEF Batched
<1>6. ASSUME NEW c \in Calls, Queued(c)
      PROVE  Queued(c)' \/ Batched(c)'
  <2>1. PICK i \in 1..Len(queue) : queue[i] = c
    BY <1>6 DEF Queued
  <2>2. CASE i <= BatchLen
    <3>1. i \in 1..Len(batch') /\ batch'[i] = c
      BY <1>1, <1>2, <2>1, <2>2
    <3>2. QED
      BY <3>1 DEF Batched
  <2>3. CASE i > BatchLen
    <3>1. i - BatchLen \in 1..(Len(queue) - BatchLen) /\ BatchLen + (i - BatchLen) = i
      BY <1>1, <2>1, <2>3
    <3>2. i - BatchLen \in 1..Len(queue') /\ queue'[i - BatchLen] = c
      BY <1>2, <2>1, <3>1
    <3>3. QED
      BY <3>2 DEF Queued
  <2>4. QED
    BY <1>1, <2>2, <2>3
<1>7. ASSUME NEW c \in Calls, Queued(c)'
      PROVE  \E i \in 1..Len(queue) : queue[i] = c /\ i > BatchLen
  <2>1. PICK j \in 1..Len(queue') : queue'[j] = c
    BY <1>7 DEF Queued
  <2>2. BatchLen + j \in 1..Len(queue) /\ queue[BatchLen + j] = c /\ BatchLen + j > BatchLen
    BY <1>1, <1>2, <2>1
  <2>3. QED
    BY <2>2
<1>8. ASSUME NEW c \in Calls, Batched(c)'
      PROVE  \E i \in 1..Len(queue) : queue[i] = c /\ i <= BatchLen
  <2>1. PICK j \in 1..Len(batch') : batch'[j] = c
    BY <1>8 DEF Batched
  <2>2. j \in 1..Len(queue) /\ queue[j] = c /\ j <= BatchLen
    BY <1>1, <1>2, <2>1
  <2>3. QED
    BY <2>2
<1>9. \A c \in Calls : ~(Queued(c)' /\ Batched(c)')
  <2> SUFFICES ASSUME NEW c \in Calls, Queued(c)', Batched(c)'
               PROVE  FALSE
    OBVIOUS
  <2>1. PICK i \in 1..Len(queue) : queue[i] = c /\ i > BatchLen
    BY <1>7
  <2>2. PICK j \in 1..Len(queue) : queue[j] = c /\ j <= BatchLen
    BY <1>8
  <2>3. i = j
    BY <2>1, <2>2 DEF NoStrandedCall
  <2>4. QED
    BY <1>1, <2>1, <2>2, <2>3
<1>10. \A i, j \in 1..Len(batch') : batch'[i] = batch'[j] => i = j
  <2> SUFFICES ASSUME NEW i \in 1..Len(batch'), NEW j \in 1..Len(batch'),
                      batch'[i] = batch'[j]
               PROVE  i = j
    OBVIOUS
  <2>1. i \in 1..Len(queue) /\ j \in 1..Len(queue) /\ queue[i] = queue[j]
    BY <1>1, <1>2
  <2>2. QED
    BY <2>1 DEF NoStrandedCall
<1>11. \A i, j \in 1..Len(queue') : queue'[i] = queue'[j] => i = j
  <2> SUFFICES ASSUME NEW i \in 1..Len(queue'), NEW j \in 1..Len(queue'),
                      queue'[i] = queue'[j]
               PROVE  i = j
    OBVIOUS
  <2>1. /\ BatchLen + i \in 1..Len(queue) /\ BatchLen + j \in 1..Len(queue)
        /\ queue[BatchLen + i] = queue[BatchLen + j]
    BY <1>1, <1>2
  <2>2. BatchLen + i = BatchLen + j
    BY <2>1 DEF NoStrandedCall
  <2>3. QED
    BY <1>1, <2>2
<1>12. \A c \in Calls : Queued(c)' \/ Batched(c)' => Queued(c)
  BY <1>7, <1>8 DEF Queued
<1>13. NoStrandedCall'
  BY <1>3, <1>5, <1>6, <1>9, <1>10, <1>11 DEF NoStrandedCall
<1>14. Custody'
  BY <1>3, <1>12 DEF Custody
<1>15. QED
  BY <1>13, <1>14

\* _run_batch(): when the batch is dropped, none of its futures is pending.
LEMMA FinishKeepsHands ==
    ASSUME StrandInv, TypeOK', FinishBatch
    PROVE  NoStrandedCall' /\ Custody'
<1> USE DEF StrandInv
<1>1. /\ queue' = queue /\ closed' = closed /\ batch' = <<>> /\ worker' = "scan"
      /\ call' = call /\ worker = "running"
  BY DEF FinishBatch, queueVars
<1>2. Len(batch') = 0
  BY <1>1, EmptySeq
<1>3. \A c \in Calls : ~Batched(c)' /\ (Queued(c)' <=> Queued(c))
  BY <1>1, <1>2 DEF Batched, Queued
<1>4. ASSUME NEW c \in Calls, fut'[c] = "pending"
      PROVE  fut[c] = "pending" /\ ~Batched(c)
  <2>1. DOMAIN batch = 1..Len(batch)
    BY LenProperties DEF TypeOK
  <2>2. fut'[c] = IF fut[c] = "pending" /\ Batched(c)
                  THEN IF thread = "ok" THEN "result" ELSE "exception"
                  ELSE fut[c]
    BY <2>1 DEF FinishBatch, Resolve, Batched
  <2>3. QED
    BY <1>4, <2>2
<1>5. NoStrandedCall'
  BY <1>1, <1>2, <1>3, <1>4 DEF NoStrandedCall
<1>6. Custody'
  BY <1>1, <1>3, <1>4 DEF Custody
<1>7. QED
  BY <1>5, <1>6

\* close(): the queue is dropped and with it every pending future in it.
LEMMA CloseKeepsHands ==
    ASSUME StrandInv, TypeOK', Close
    PROVE  NoStrandedCall' /\ Custody'
<1> USE DEF StrandInv
<1>1. /\ queue' = <<>> /\ closed' /\ batch' = batch /\ worker' = worker
      /\ call' = call
  BY DEF Close
<1>2. Len(queue') = 0
  BY <1>1, EmptySeq
<1>3. \A c \in Calls : ~Queued(c)' /\ (Batched(c)' <=> Batched(c))
  BY <1>1, <1>2 DEF Batched, Queued
<1>4. ASSUME NEW c \in Calls, fut'[c] = "pending"
      PROVE  fut[c] = "pending" /\ ~Queued(c)
  <2>1. DOMAIN queue = 1..Len(queue)
    BY LenProperties DEF TypeOK
  <2>2. fut'[c] = IF fut[c] = "pending" /\ Queued(c) THEN "cancelled" ELSE fut[c]
    BY <2>1 DEF Close, Resolve, Queued
  <2>3. QED
    BY <1>4, <2>2
<1>5. NoStrandedCall'
  BY <1>1, <1>2, <1>3, <1>4 DEF NoStrandedCall, Custody
<1>6. Custody'
  BY <1>1, <1>3, <1>4 DEF Custody
<1>7. QED
  BY <1>5, <1>6

\* Who has which call in hand, through every step of run(), the worker and close().
LEMMA HandsAreKept == Spec => [](NoStrandedCall /\ Custody)
<1>1. Init => NoStrandedCall /\ Custody
  <2> SUFFICES ASSUME Init PROVE NoStrandedCall /\ Custody
    OBVIOUS
  <2>1. Len(queue) = 0 /\ Len(batch) = 0
    BY EmptySeq DEF Init
  <2>2. \A c \in Calls : ~Queued(c) /\ ~Batched(c) /\ fut[c] # "pending"
    BY <2>1 DEF Queued, Batched, Init
  <2>3. QED
    BY <2>1, <2>2 DEF NoStrandedCall, Custody, Init
<1>2. StrandInv /\ TypeOK' /\ [Next]_vars => NoStrandedCall' /\ Custody'
  <2> SUFFICES ASSUME StrandInv, TypeOK', [Next]_vars
               PROVE  NoStrandedCall' /\ Custody'
    OBVIOUS
  <2> USE DEF callVars, queueVars, workerVars
  <2>1. ASSUME NEW c \in Calls, Refuse(c) PROVE NoStrandedCall' /\ Custody'
    BY <2>1, HandsUnchanged DEF Refuse, StrandInv, NoStrandedCall, Custody, TypeOK
  <2>2. ASSUME NEW c \in Calls, Submit(c) PROVE NoStrandedCall' /\ Custody'
    BY <2>2, SubmitKeepsHands
  <2>3. ASSUME NEW c \in Calls, Answered(c) PROVE NoStrandedCall' /\ Custody'
    BY <2>3, HandsUnchanged DEF Answered, StrandInv, NoStrandedCall, Custody, TypeOK
  <2>4. ASSUME NEW c \in Calls, CancelCall(c) PROVE NoStrandedCall' /\ Custody'
    BY <2>4, HandsUnchanged DEF CancelCall, StrandInv, NoStrandedCall, Custody, TypeOK
  <2>5. ASSUME NEW c \in Calls, FutureCancelled(c) PROVE NoStrandedCall' /\ Custody'
    BY <2>5, HandsUnchanged DEF FutureCancelled, StrandInv, NoStrandedCall, Custody, TypeOK
  <2>6. ASSUME NEW c \in Calls, Unwind(c) PROVE NoStrandedCall' /\ Custody'
    BY <2>6, UnwindKeepsHands
  <2>7. ASSUME NEW c \in Calls, TimePasses(c) PROVE NoStrandedCall' /\ Custody'
    BY <2>7, HandsUnchanged DEF TimePasses, StrandInv, NoStrandedCall, Custody
  <2>8. CASE TimerFires
    BY <2>8, HandsUnchanged DEF TimerFires, StrandInv, NoStrandedCall, Custody
  <2>9. CASE WaitForItem
    BY <2>9, HandsUnchanged DEF WaitForItem, Awake, StrandInv, NoStrandedCall, Custody
  <2>10. CASE WaitToFill
    BY <2>10, HandsUnchanged DEF WaitToFill, Awake, StrandInv, NoStrandedCall, Custody
  <2>11. CASE StopWorker
    BY <2>11, HandsUnchanged DEF StopWorker, Awake, StrandInv, NoStrandedCall, Custody
  <2>12. CASE TakeBatch
    BY <2>12, TakeKeepsHands
  <2>13. CASE FinishBatch
    BY <2>13, FinishKeepsHands
  <2>14. CASE StageEnds
    BY <2>14, HandsUnchanged DEF StageEnds, StrandInv, NoStrandedCall, Custody
  <2>15. CASE CancelWorker
    BY <2>15, HandsUnchanged DEF CancelWorker, StrandInv, NoStrandedCall, Custody
  <2>16. CASE Close
    BY <2>16, CloseKeepsHands
  <2>17. CASE CancelClose
    BY <2>17, HandsUnchanged DEF CancelClose, StrandInv, NoStrandedCall, Custody
  <2>18. CASE FinishClose
    BY <2>18, HandsUnchanged DEF FinishClose, StrandInv, NoStrandedCall, Custody
  <2>19. CASE UNCHANGED vars
    BY <2>19, HandsUnchanged DEF vars, StrandInv, NoStrandedCall, Custody
  <2>20. QED
    BY <2>1, <2>2, <2>3, <2>4, <2>5, <2>6, <2>7, <2>8, <2>9, <2>10, <2>11, <2>12,
       <2>13, <2>14, <2>15, <2>16, <2>17, <2>18, <2>19
       DEF Next, CallStep, WorkerStep, CloseStep
<1>3. QED
  BY <1>1, <1>2, TypeCorrect, PTL DEF Spec, StrandInv

(***************************************************************************)
(* Every pending future is in the queue or in the running batch, never in  *)
(* both nor twice, and a worker that returned left none behind: for every  *)
(* interleaving of run(), its cancellation, the worker and close().        *)
(***************************************************************************)
THEOREM NoCallStranded == Spec => []NoStrandedCall
BY HandsAreKept, PTL

-----------------------------------------------------------------------------
\* A close() under way has closed the service, one that is over has waited for the worker
\* and its thread, and neither comes back: only a worker that is awake starts a batch.
Drained ==
    /\ closer # "idle" => closed
    /\ closer = "done" => WorkerDone /\ thread # "busy"

(***************************************************************************)
(* After close() the thread is at rest, nothing is queued, and, unless the *)
(* loop was torn down around the worker, no caller waits: however close()  *)
(* was cancelled and whenever it met a batch.                              *)
(***************************************************************************)
THEOREM CloseIsClean == Spec => []CloseLeavesNothingRunning
<1>1. Init => Drained
  BY DEF Init, Drained
<1>2. Drained /\ [Next]_vars => Drained'
  <2> SUFFICES ASSUME Drained, [Next]_vars PROVE Drained'
    OBVIOUS
  <2> USE DEF Drained, WorkerDone, WorkerWaits, Awake, callVars, queueVars, workerVars
  <2>1. ASSUME NEW c \in Calls, CallStep(c) PROVE Drained'
    BY <2>1 DEF CallStep, Refuse, Submit, Answered, CancelCall, FutureCancelled, Unwind, TimePasses
  <2>2. CASE WorkerStep
    BY <2>2 DEF WorkerStep, WaitForItem, WaitToFill, StopWorker, TakeBatch, FinishBatch
  <2>3. CASE TimerFires \/ StageEnds \/ CancelWorker
    BY <2>3 DEF TimerFires, StageEnds, CancelWorker
  <2>4. CASE CloseStep
    BY <2>4 DEF CloseStep, Close, CancelClose, FinishClose
  <2>5. CASE UNCHANGED vars
    BY <2>5 DEF vars
  <2> QED BY <2>1, <2>2, <2>3, <2>4, <2>5 DEF Next
<1>3. Drained /\ NoStrandedCall /\ Custody => CloseLeavesNothingRunning
  <2> SUFFICES ASSUME Drained, NoStrandedCall, Custody, closer = "done"
               PROVE  /\ thread # "busy" /\ queue = <<>>
                      /\ worker # "cancelled" => \A c \in Calls : fut[c] # "pending"
    BY DEF CloseLeavesNothingRunning
  <2>1. queue = <<>> /\ thread # "busy" /\ (worker = "returned" \/ worker = "cancelled")
    BY DEF Drained, Custody, WorkerDone
  <2>2. ASSUME worker # "cancelled", NEW c \in Calls PROVE fut[c] # "pending"
    <3>1. Len(queue) = 0 /\ Len(batch) = 0
      BY <2>1, <2>2, EmptySeq DEF NoStrandedCall
    <3>2. ~Queued(c) /\ ~Batched(c)
      BY <3>1 DEF Queued, Batched
    <3> QED BY <3>2 DEF NoStrandedCall
  <2> QED BY <2>1, <2>2
<1> QED BY <1>1, <1>2, <1>3, HandsAreKept, PTL DEF Spec

-----------------------------------------------------------------------------
(***************************************************************************)
(* The service implements StageCalls.  What a call has got follows from    *)
(* its coroutine and its future together, so the mapping needs, beside the *)
(* custody of pending futures, that a call has a future exactly when it    *)
(* was accepted, and that only close() closes.                             *)
(***************************************************************************)
Accepted ==
    /\ \A c \in Calls : call[c] \in {"new", "refused"} <=> fut[c] = "none"
    /\ closer = "idle" => ~closed

LEMMA AcceptedIsKept == Spec => []Accepted
<1>1. Init => Accepted
  BY DEF Init, Accepted
<1>2. TypeOK /\ Accepted /\ [Next]_vars => Accepted'
  <2> SUFFICES ASSUME TypeOK, Accepted, [Next]_vars PROVE Accepted'
    OBVIOUS
  <2> USE DEF Accepted, callVars, queueVars, workerVars
  <2>1. ASSUME NEW c \in Calls, CallStep(c) PROVE Accepted'
    BY <2>1 DEF TypeOK, CallStates, CallStep, Refuse, Submit, Answered, CancelCall,
                FutureCancelled, Unwind, TimePasses
  <2>2. CASE WaitForItem \/ WaitToFill \/ StopWorker \/ TakeBatch
    BY <2>2 DEF WaitForItem, WaitToFill, StopWorker, TakeBatch
  <2>3. CASE FinishBatch
    BY <2>3 DEF FinishBatch, Resolve
  <2>4. CASE TimerFires \/ StageEnds \/ CancelWorker \/ CancelClose \/ FinishClose
    BY <2>4 DEF TimerFires, StageEnds, CancelWorker, CancelClose, FinishClose
  <2>5. CASE Close
    BY <2>5 DEF Close, Resolve
  <2>6. CASE UNCHANGED vars
    BY <2>6 DEF vars
  <2> QED BY <2>1, <2>2, <2>3, <2>4, <2>5, <2>6 DEF Next, WorkerStep, CloseStep
<1> QED BY <1>1, <1>2, TypeCorrect, PTL DEF Spec

PromiseInv == StrandInv /\ Accepted

\* What a caller has got, read from its coroutine and its future.
Seen(at, got) ==
    IF at = "new" THEN "unsent" ELSE IF at = "refused" THEN "refused"
    ELSE IF got = "pending" THEN "open" ELSE got

LEMMA AnswerIs ==
    ASSUME PromiseInv, PromiseInv', NEW c \in Calls
    PROVE  Answer[c] = Seen(call[c], fut[c]) /\ Answer'[c] = Seen(call'[c], fut'[c])
<1>1. fut[c] = "pending" => call[c] \notin {"new", "refused"}
  BY DEF PromiseInv, StrandInv, Custody
<1>2. fut'[c] = "pending" => call'[c] \notin {"new", "refused"}
  BY DEF PromiseInv, StrandInv, Custody
<1>3. Answer[c] = Seen(call[c], fut[c])
  BY <1>1 DEF Answer, Seen
<1>4. Answer'[c] = Seen(call'[c], fut'[c])
  BY <1>2 DEF Answer, Seen
<1> QED BY <1>3, <1>4

\* No more calls are in a batch than the batch is long.
LEMMA BatchIsSmall ==
    ASSUME TypeOK, NEW S \in SUBSET Calls, \A c \in S : Batched(c)
    PROVE  Cardinality(S) <= BatchSize
<1>1. Len(batch) \in Nat /\ Len(batch) <= BatchSize /\ BatchSize \in Nat
  BY BatchedStageAssumption, LenProperties DEF TypeOK, BatchedStageAssumption
<1> DEFINE place == [c \in S |-> CHOOSE i \in 1..Len(batch) : batch[i] = c]
<1>2. \A c \in S : place[c] \in 1..Len(batch) /\ batch[place[c]] = c
  BY DEF Batched
<1>3. place \in Injection(S, 1..Len(batch))
  <2>1. place \in [S -> 1..Len(batch)]
    BY <1>2
  <2>2. \A c, d \in S : place[c] = place[d] => c = d
    BY <1>2
  <2> HIDE DEF place
  <2> QED BY <2>1, <2>2 DEF Injection, IsInjective
<1> HIDE DEF place
<1>4. IsFiniteSet(1..Len(batch)) /\ Cardinality(1..Len(batch)) = Len(batch)
  <2>1. 1 \in Int /\ Len(batch) \in Int
    BY <1>1
  <2>2. /\ IsFiniteSet(1..Len(batch))
        /\ Cardinality(1..Len(batch)) = IF 1 > Len(batch) THEN 0 ELSE Len(batch) - 1 + 1
    BY <2>1, FS_Interval
  <2> QED BY <1>1, <2>2
<1>5. Cardinality(S) <= Len(batch) /\ Cardinality(S) \in Nat
  BY <1>3, <1>4, FS_Injection, FS_CardinalityType
<1> QED BY <1>1, <1>5

\* A step that leaves the futures and _closed alone, and refuses or accepts no call, is
\* none to a caller.
LEMMA UnheardStep ==
    ASSUME PromiseInv, PromiseInv', UNCHANGED <<fut, closed>>,
           \A c \in Calls : \/ call'[c] = call[c]
                            \/ {call[c], call'[c]} \cap {"new", "refused"} = {}
    PROVE  UNCHANGED Promise!vars
<1>1. \A c \in Calls : Answer'[c] = Answer[c]
  BY AnswerIs DEF Seen
<1>2. DOMAIN Answer = Calls /\ DOMAIN Answer' = Calls
  BY DEF Answer
<1>3. Answer = [c \in Calls |-> Answer[c]] /\ Answer' = [c \in Calls |-> Answer'[c]]
  BY DEF Answer
<1> QED BY <1>1, <1>3 DEF Promise!vars

\* A step in which the calls of a set get the same answer and the others hear nothing.
LEMMA GivenStep ==
    ASSUME PromiseInv, PromiseInv', NEW S, NEW a,
           \A c \in Calls : Seen(call'[c], fut'[c]) =
                             IF c \in S THEN a ELSE Seen(call[c], fut[c])
    PROVE  Answer' = Promise!Give(S, a)
<1>1. \A c \in Calls : Answer'[c] = IF c \in S THEN a ELSE Answer[c]
  BY AnswerIs
<1>2. Answer' = [c \in Calls |-> Answer'[c]]
  BY DEF Answer
<1> QED BY <1>1, <1>2 DEF Promise!Give

\* The promised step each step of the service is.
LEMMA CallStepPromised ==
    ASSUME PromiseInv, PromiseInv', NEW c \in Calls, CallStep(c)
    PROVE  Promise!Send(c) \/ Promise!Withdraw(c) \/ UNCHANGED Promise!vars
<1>1. call \in [Calls -> CallStates] /\ fut \in [Calls -> FutStates]
      /\ (\A d \in Calls : call[d] \in {"new", "refused"} <=> fut[d] = "none")
      /\ (\A d \in Calls : fut[d] = "pending" => call[d] = "awaiting")
  BY DEF PromiseInv, StrandInv, TypeOK, Accepted, Custody
<1>2. CASE Refuse(c)
  <2>1. /\ call[c] = "new" /\ closed /\ closed' = closed /\ fut' = fut
        /\ \A d \in Calls : call'[d] = IF d = c THEN "refused" ELSE call[d]
    BY <1>1, <1>2 DEF Refuse, queueVars
  <2>2. Answer' = Promise!Give({c}, "refused")
    BY <2>1, GivenStep DEF Seen
  <2>3. Answer[c] = "unsent"
    BY <2>1, AnswerIs DEF Seen
  <2> QED BY <2>1, <2>2, <2>3 DEF Promise!Send
<1>3. CASE Submit(c)
  <2>1. /\ call[c] = "new" /\ ~closed /\ closed' = closed
        /\ \A d \in Calls : /\ call'[d] = IF d = c THEN "awaiting" ELSE call[d]
                           /\ fut'[d] = IF d = c THEN "pending" ELSE fut[d]
    BY <1>1, <1>3 DEF Submit
  <2>2. Answer' = Promise!Give({c}, "open")
    BY <2>1, GivenStep DEF Seen
  <2>3. Answer[c] = "unsent"
    BY <2>1, AnswerIs DEF Seen
  <2> QED BY <2>1, <2>2, <2>3 DEF Promise!Send
<1>4. CASE CancelCall(c)
  <2>1. /\ call[c] = "awaiting" /\ closed' = closed
        /\ \A d \in Calls : /\ call'[d] = IF d = c THEN "unwinding" ELSE call[d]
                           /\ fut'[d] = IF d = c /\ fut[d] = "pending" THEN "cancelled"
                                        ELSE fut[d]
    BY <1>1, <1>4 DEF CancelCall, queueVars
  <2>2. CASE fut[c] = "pending"
    <3>1. Answer' = Promise!Give({c}, "cancelled")
      BY <2>1, <2>2, GivenStep DEF Seen
    <3>2. Answer[c] = "open"
      BY <2>1, <2>2, AnswerIs DEF Seen
    <3> QED BY <2>1, <3>1, <3>2 DEF Promise!Withdraw
  <2>3. CASE fut[c] # "pending"
    <3>1. fut' = fut
      <4>1. fut' = [fut EXCEPT ![c] = IF @ = "pending" THEN "cancelled" ELSE @]
        BY <1>4 DEF CancelCall
      <4> QED BY <1>1, <2>3, <4>1
    <3> QED BY <2>1, <3>1, UnheardStep
  <2> QED BY <2>2, <2>3
<1>5. CASE Answered(c) \/ FutureCancelled(c) \/ Unwind(c)
  <2>1. /\ call[c] \in {"awaiting", "unwinding"} /\ fut' = fut /\ closed' = closed
        /\ call'[c] \notin {"new", "refused"} /\ \A d \in Calls : d # c => call'[d] = call[d]
    BY <1>1, <1>5 DEF Answered, FutureCancelled, Unwind, queueVars
  <2> QED BY <2>1, UnheardStep
<1>6. CASE TimePasses(c)
  <2>1. fut' = fut /\ closed' = closed /\ call' = call
    BY <1>6 DEF TimePasses, callVars, queueVars
  <2> QED BY <2>1, UnheardStep
<1> QED BY <1>2, <1>3, <1>4, <1>5, <1>6 DEF CallStep

\* _run_batch() serves together the calls of the batch that nobody has cancelled.
LEMMA FinishPromised ==
    ASSUME PromiseInv, PromiseInv', FinishBatch
    PROVE  (\E S \in SUBSET Promise!Open : Promise!Serve(S)) \/ UNCHANGED Promise!vars
<1> DEFINE S == {c \in Calls : fut[c] = "pending" /\ Batched(c)}
           a == IF thread = "ok" THEN "result" ELSE "exception"
<1>1. /\ batch \in Seq(Calls) /\ TypeOK
      /\ \A d \in Calls : fut[d] = "pending" => call[d] = "awaiting"
  BY DEF PromiseInv, StrandInv, TypeOK, Custody
<1>2. /\ call' = call /\ closed' = closed
      /\ \A d \in Calls : fut'[d] = IF d \in S THEN a ELSE fut[d]
  <2>1. DOMAIN batch = 1..Len(batch)
    BY <1>1, LenProperties
  <2> QED BY <2>1 DEF FinishBatch, Resolve, Batched, queueVars
<1>3. \A c \in S : c \in Calls /\ Batched(c) /\ fut[c] = "pending" /\ call[c] = "awaiting"
  BY <1>1
<1>4. a \in {"result", "exception"}
  OBVIOUS
<1> HIDE DEF S, a
<1>5. \A d \in Calls : Seen(call'[d], fut'[d]) = IF d \in S THEN a ELSE Seen(call[d], fut[d])
  BY <1>2, <1>3, <1>4 DEF Seen
<1>6. Answer' = Promise!Give(S, a)
  BY <1>5, GivenStep
<1>7. CASE S = {}
  <2>1. \A d \in Calls : Answer'[d] = Answer[d]
    BY <1>5, <1>7, AnswerIs
  <2>2. Answer = [d \in Calls |-> Answer[d]] /\ Answer' = [d \in Calls |-> Answer'[d]]
    BY DEF Answer
  <2>3. Answer' = Answer
    BY <2>1, <2>2
  <2> QED BY <1>2, <2>3 DEF Promise!vars
<1>8. CASE S # {}
  <2>1. \A c \in S : Answer[c] = "open"
    BY <1>3, AnswerIs DEF Seen
  <2>2. S \in SUBSET Promise!Open
    BY <1>3, <2>1 DEF Promise!Open
  <2>3. Promise!Cardinality(S) <= BatchSize
    <3>1. Promise!Cardinality(S) = Cardinality(S)
      BY Zenon DEF Promise!Cardinality, Cardinality
    <3> QED BY <1>1, <1>3, <3>1, BatchIsSmall
  <2>4. Promise!Serve(S)
    BY <1>2, <1>4, <1>6, <1>8, <2>3 DEF Promise!Serve
  <2> QED BY <2>2, <2>4
<1> QED BY <1>7, <1>8

\* close() withdraws the calls that are still queued.
LEMMA ClosePromised ==
    ASSUME PromiseInv, PromiseInv', Close
    PROVE  \E S \in SUBSET Promise!Open : Promise!Stop(S)
<1> DEFINE S == {c \in Calls : fut[c] = "pending" /\ Queued(c)}
<1>1. /\ queue \in Seq(Calls) /\ closed \in BOOLEAN
      /\ closer = "idle" => ~closed
      /\ \A d \in Calls : fut[d] = "pending" => call[d] = "awaiting"
  BY DEF PromiseInv, StrandInv, TypeOK, Custody, Accepted
<1>2. /\ call' = call /\ ~closed /\ closed' = TRUE
      /\ \A d \in Calls : fut'[d] = IF d \in S THEN "cancelled" ELSE fut[d]
  <2>1. DOMAIN queue = 1..Len(queue)
    BY <1>1, LenProperties
  <2> QED BY <1>1, <2>1 DEF Close, Resolve, Queued
<1>3. \A c \in S : c \in Calls /\ fut[c] = "pending" /\ call[c] = "awaiting"
  BY <1>1
<1> HIDE DEF S
<1>4. Answer' = Promise!Give(S, "cancelled")
  <2>1. \A d \in Calls : Seen(call'[d], fut'[d]) =
                         IF d \in S THEN "cancelled" ELSE Seen(call[d], fut[d])
    BY <1>2, <1>3 DEF Seen
  <2> QED BY <2>1, GivenStep
<1>5. S \in SUBSET Promise!Open
  <2>1. \A c \in S : Answer[c] = "open"
    BY <1>3, AnswerIs DEF Seen
  <2> QED BY <1>3, <2>1 DEF Promise!Open
<1>6. Promise!Stop(S)
  BY <1>2, <1>4 DEF Promise!Stop
<1> QED BY <1>5, <1>6

(***************************************************************************)
(* The service keeps its promise: every step of run(), the worker and      *)
(* close() is one StageCalls allows or is none to a caller.                *)
(***************************************************************************)
THEOREM ServiceKeepsPromise == Spec => KeepsPromise
<1>1. Init => Promise!Init
  <2> SUFFICES ASSUME Init PROVE Promise!Init
    OBVIOUS
  <2>1. call = [c \in Calls |-> "new"] /\ closed = FALSE /\ fut = [c \in Calls |-> "none"]
    BY DEF Init
  <2>2. Answer = [c \in Calls |-> "unsent"]
    BY <2>1 DEF Answer
  <2> QED BY <2>1, <2>2 DEF Promise!Init
<1>2. PromiseInv /\ PromiseInv' /\ [Next]_vars => [Promise!Next]_Promise!vars
  <2> SUFFICES ASSUME PromiseInv, PromiseInv', [Next]_vars
               PROVE  Promise!Next \/ UNCHANGED Promise!vars
    OBVIOUS
  <2>1. ASSUME NEW c \in Calls, CallStep(c)
        PROVE  Promise!Next \/ UNCHANGED Promise!vars
    BY <2>1, CallStepPromised DEF Promise!Next
  <2>2. CASE FinishBatch
    BY <2>2, FinishPromised DEF Promise!Next
  <2>3. CASE Close
    BY <2>3, ClosePromised DEF Promise!Next
  <2>4. CASE \/ TimerFires \/ WaitForItem \/ WaitToFill \/ StopWorker \/ TakeBatch
             \/ StageEnds \/ CancelWorker \/ CancelClose \/ FinishClose
             \/ UNCHANGED vars
    <3>1. call' = call /\ fut' = fut /\ closed' = closed
      BY <2>4 DEF TimerFires, WaitForItem, WaitToFill, StopWorker, TakeBatch, StageEnds,
                  CancelWorker, CancelClose, FinishClose, vars, callVars, queueVars
    <3> QED BY <3>1, UnheardStep
  <2> QED BY <2>1, <2>2, <2>3, <2>4 DEF Next, WorkerStep, CloseStep
<1>3. Spec => []PromiseInv
  BY TypeCorrect, HandsAreKept, AcceptedIsKept, PTL DEF PromiseInv, StrandInv
<1> QED BY <1>1, <1>2, <1>3, PTL DEF Spec, Promise!Spec, KeepsPromise

=============================================================================
