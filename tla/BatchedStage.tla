---------------------------- MODULE BatchedStage ----------------------------
(***************************************************************************)
(* BatchedPureStageService (measured/serving_runtime.py): calls of one     *)
(* pipeline stage wait in a list, one worker task takes up to batch_size   *)
(* of them - at once when the batch is full, otherwise when the oldest one *)
(* has waited timeout_s - and runs them on a private one-thread executor.  *)
(*                                                                         *)
(* The coroutines share one asyncio event loop, so what runs between two   *)
(* awaits is one action.  A condition variable wake-up, a timer and a      *)
(* cancellation are each delivered in one step and acted on by the woken   *)
(* coroutine in a later one; other coroutines may run in between.          *)
(***************************************************************************)
EXTENDS Naturals, Sequences, SequencesExt

CONSTANTS
    Calls,      \* the run() calls drivers make
    BatchSize,  \* batch_size
    Timed,      \* is timeout_s > 0
    None        \* no call

ASSUME BatchedStageAssumption ==
    /\ BatchSize \in Nat \ {0}      \* max(1, int(batch_size))
    /\ Timed \in BOOLEAN
    /\ None \notin Calls

VARIABLES
    call,       \* where each run() coroutine stands
    fut,        \* the future each call awaits
    queue,      \* self._queue
    closed,     \* self._closed
    worker,     \* where the worker task stands
    notified,   \* the waiting worker has been notified
    armed,      \* the call whose deadline the worker's timed wait is set to
    timedOut,   \* that deadline passed while the worker waited
    late,       \* the calls that have waited timeout_s
    batch,      \* the items _run_batch holds
    thread,     \* the executor's thread
    closer      \* where the close() coroutine stands

callVars   == <<call, fut>>
queueVars  == <<queue, closed>>
workerVars == <<worker, notified, armed, timedOut, batch>>
vars == <<call, fut, queue, closed, worker, notified, armed, timedOut, late,
          batch, thread, closer>>

CallStates   == {"new", "awaiting", "unwinding", "returned", "raised",
                 "cancelled", "refused"}
FutStates    == {"none", "pending", "result", "exception", "cancelled"}
WorkerStates == {"scan", "waitItem", "waitFill", "running", "returned",
                 "cancelled"}
ThreadStates == {"idle", "busy", "ok", "error"}
CloserStates == {"idle", "draining", "drainingCancelled", "done"}

WorkerDone == worker \in {"returned", "cancelled"}
WorkerWaits == worker \in {"waitItem", "waitFill"}

TypeOK ==
    /\ call \in [Calls -> CallStates]
    /\ fut \in [Calls -> FutStates]
    /\ queue \in Seq(Calls)
    /\ closed \in BOOLEAN
    /\ worker \in WorkerStates
    /\ notified \in BOOLEAN
    /\ armed \in Calls \cup {None}
    /\ timedOut \in BOOLEAN
    /\ late \in SUBSET Calls
    /\ batch \in Seq(Calls)
    /\ Len(batch) <= BatchSize
    /\ thread \in ThreadStates
    /\ closer \in CloserStates

Init ==
    /\ call = [c \in Calls |-> "new"]
    /\ fut = [c \in Calls |-> "none"]
    /\ queue = <<>>
    /\ closed = FALSE
    /\ worker = "scan"
    /\ notified = FALSE
    /\ armed = None
    /\ timedOut = FALSE
    /\ late = {}
    /\ batch = <<>>
    /\ thread = "idle"
    /\ closer = "idle"

-----------------------------------------------------------------------------
\* self._condition.notify(): heard only by a worker that is waiting
Notify == notified' = (notified \/ WorkerWaits)

(***************************************************************************)
(* run(): a closed service refuses the call; otherwise the item joins the  *)
(* queue and the worker is notified.                                       *)
(***************************************************************************)
Refuse(c) ==
    /\ call[c] = "new"
    /\ closed
    /\ call' = [call EXCEPT ![c] = "refused"]
    /\ UNCHANGED <<fut, queueVars, workerVars, late, thread, closer>>

\* Mutant: the check of _closed is made before the lock is taken.
Submit_UncheckedClosed(c) ==
    /\ call[c] = "new"
    /\ call' = [call EXCEPT ![c] = "awaiting"]
    /\ fut' = [fut EXCEPT ![c] = "pending"]
    /\ queue' = Append(queue, c)
    /\ Notify
    /\ UNCHANGED <<closed, worker, armed, timedOut, batch, late, thread, closer>>

\* Mutant: the worker is not notified of a new item.
Submit_Silent(c) ==
    /\ call[c] = "new"
    /\ ~closed
    /\ call' = [call EXCEPT ![c] = "awaiting"]
    /\ fut' = [fut EXCEPT ![c] = "pending"]
    /\ queue' = Append(queue, c)
    /\ UNCHANGED <<closed, workerVars, late, thread, closer>>

Submit(c) ==
    /\ call[c] = "new"
    /\ ~closed
    /\ call' = [call EXCEPT ![c] = "awaiting"]
    /\ fut' = [fut EXCEPT ![c] = "pending"]
    /\ queue' = Append(queue, c)
    /\ Notify
    /\ UNCHANGED <<closed, worker, armed, timedOut, batch, late, thread, closer>>

\* The await of the future returns, or raises what the future holds.
Answered(c) ==
    /\ call[c] = "awaiting"
    /\ fut[c] \in {"result", "exception"}
    /\ call' = [call EXCEPT
                  ![c] = IF fut[c] = "result" THEN "returned" ELSE "raised"]
    /\ UNCHANGED <<fut, queueVars, workerVars, late, thread, closer>>

\* The caller's task is cancelled while it awaits: Task.cancel() cancels the
\* future at once, the coroutine hears of it later.
CancelCall(c) ==
    /\ call[c] = "awaiting"
    /\ call' = [call EXCEPT ![c] = "unwinding"]
    /\ fut' = [fut EXCEPT ![c] = IF @ = "pending" THEN "cancelled" ELSE @]
    /\ UNCHANGED <<queueVars, workerVars, late, thread, closer>>

\* close() cancelled the future: the await raises CancelledError.
FutureCancelled(c) ==
    /\ call[c] = "awaiting"
    /\ fut[c] = "cancelled"
    /\ call' = [call EXCEPT ![c] = "unwinding"]
    /\ UNCHANGED <<fut, queueVars, workerVars, late, thread, closer>>

\* Mutant: the handler removes the item and wakes nobody.
Unwind_Silent(c) ==
    /\ call[c] = "unwinding"
    /\ call' = [call EXCEPT ![c] = "cancelled"]
    /\ \/ \E i \in DOMAIN queue : queue[i] = c /\ queue' = RemoveAt(queue, i)
       \/ /\ \A i \in DOMAIN queue : queue[i] # c
          /\ UNCHANGED queue
    /\ UNCHANGED <<fut, closed, workerVars, late, thread, closer>>

\* run()'s handler: take the item out of the queue if it is still there, and
\* then wake the worker, whose deadline may have been this item's.
Unwind(c) ==
    /\ call[c] = "unwinding"
    /\ call' = [call EXCEPT ![c] = "cancelled"]
    /\ \/ /\ \E i \in DOMAIN queue : queue[i] = c /\ queue' = RemoveAt(queue, i)
          /\ Notify
       \/ /\ \A i \in DOMAIN queue : queue[i] # c
          /\ UNCHANGED <<queue, notified>>
    /\ UNCHANGED <<fut, closed, worker, armed, timedOut, batch, late, thread,
                   closer>>

-----------------------------------------------------------------------------
\* timeout_s passes for a call.  Deadlines pass in the order the calls came;
\* the armed call came before every call still queued.
TimePasses(c) ==
    /\ Timed
    /\ c \notin late
    /\ \/ c = armed
       \/ /\ armed \in late \cup {None}
          /\ \E i \in DOMAIN queue : /\ queue[i] = c
                                     /\ \A j \in 1..(i - 1) : queue[j] \in late
    /\ late' = late \cup {c}
    /\ UNCHANGED <<callVars, queueVars, workerVars, thread, closer>>

\* asyncio.wait_for cancels the wait: it will end in TimeoutError, even if a
\* notification has reached it in the meantime.
TimerFires ==
    /\ worker = "waitFill"
    /\ ~timedOut
    /\ armed \in late
    /\ timedOut' = TRUE
    /\ UNCHANGED <<callVars, queueVars, worker, notified, armed, batch, late,
                   thread, closer>>

(***************************************************************************)
(* _next_batch().  The worker runs its two loops when it starts a round    *)
(* and each time it is woken.                                              *)
(***************************************************************************)
Awake ==
    \/ worker = "scan"
    \/ worker = "waitItem" /\ notified
    \/ worker = "waitFill" /\ (notified \/ timedOut)

\* the inner loop: neither full, nor closing, nor due; a timeout breaks it
\* whatever the queue holds by now
KeepsFilling ==
    /\ Timed
    /\ queue # <<>>
    /\ Len(queue) < BatchSize
    /\ ~closed
    /\ ~timedOut
    /\ Head(queue) \notin late

WaitForItem ==
    /\ Awake
    /\ queue = <<>>
    /\ ~closed
    /\ worker' = "waitItem"
    /\ notified' = FALSE
    /\ armed' = None
    /\ timedOut' = FALSE
    /\ UNCHANGED <<callVars, queueVars, batch, late, thread, closer>>

WaitToFill ==
    /\ Awake
    /\ KeepsFilling
    /\ worker' = "waitFill"
    /\ notified' = FALSE
    /\ armed' = Head(queue)
    /\ UNCHANGED <<callVars, queueVars, timedOut, batch, late, thread, closer>>

StopWorker ==
    /\ Awake
    /\ queue = <<>>
    /\ closed
    /\ worker' = "returned"
    /\ notified' = FALSE
    /\ armed' = None
    /\ timedOut' = FALSE
    /\ UNCHANGED <<callVars, queueVars, batch, late, thread, closer>>

\* n = min(len(queue), batch_size) items, handed to the executor
BatchLen == IF Len(queue) < BatchSize THEN Len(queue) ELSE BatchSize

TakeBatch ==
    /\ Awake
    /\ queue # <<>>
    /\ ~KeepsFilling
    /\ batch' = SubSeq(queue, 1, BatchLen)
    /\ queue' = SubSeq(queue, BatchLen + 1, Len(queue))
    /\ worker' = "running"
    /\ thread' = "busy"
    /\ notified' = FALSE
    /\ armed' = None
    /\ timedOut' = FALSE
    /\ UNCHANGED <<callVars, closed, late, closer>>

(***************************************************************************)
(* _run_batch(): the thread runs the stage on the whole batch; back on the *)
(* loop, every future nobody cancelled gets its part or the exception.     *)
(***************************************************************************)
StageEnds ==
    /\ thread = "busy"
    /\ thread' \in {"ok", "error"}
    /\ UNCHANGED <<callVars, queueVars, workerVars, late, closer>>

\* Mutant: results are delivered without looking at fut.cancelled().
Resolve_Blind(items, a) ==
    [c \in Calls |-> IF \E i \in DOMAIN items : items[i] = c THEN a ELSE fut[c]]

Resolve(items, a) ==
    [c \in Calls |-> IF fut[c] = "pending" /\ \E i \in DOMAIN items : items[i] = c
                     THEN a
                     ELSE fut[c]]

FinishBatch ==
    /\ worker = "running"
    /\ thread \in {"ok", "error"}
    /\ fut' = Resolve(batch, IF thread = "ok" THEN "result" ELSE "exception")
    /\ batch' = <<>>
    /\ worker' = "scan"
    /\ thread' = "idle"
    /\ UNCHANGED <<call, queueVars, notified, armed, timedOut, late, closer>>

\* The worker task is cancelled at an await (the loop is torn down).  The
\* items of a batch it was running are in nobody's hands then.
CancelWorker ==
    /\ worker \in {"waitItem", "waitFill", "running"}
    /\ worker' = "cancelled"
    /\ notified' = FALSE
    /\ armed' = None
    /\ timedOut' = FALSE
    /\ UNCHANGED <<callVars, queueVars, batch, late, thread, closer>>

\* Mutant: close() leaves the sleeping worker asleep.
Close_Silent ==
    /\ closer = "idle"
    /\ closer' = "draining"
    /\ closed' = TRUE
    /\ fut' = Resolve(queue, "cancelled")
    /\ queue' = <<>>
    /\ UNCHANGED <<call, workerVars, late, thread>>

\* Mutant: a cancelled close() does not wait for the worker any more.
FinishClose_Impatient ==
    /\ \/ closer = "drainingCancelled"
       \/ closer = "draining" /\ WorkerDone /\ thread # "busy"
    /\ closer' = "done"
    /\ UNCHANGED <<callVars, queueVars, workerVars, late, thread>>

(***************************************************************************)
(* close(): refuse new calls, cancel the queued ones, wait for the worker  *)
(* - through cancellations of close() itself - and shut the executor down, *)
(* which waits for its thread.                                             *)
(***************************************************************************)
Close ==
    /\ closer = "idle"
    /\ closer' = "draining"
    /\ closed' = TRUE
    /\ fut' = Resolve(queue, "cancelled")
    /\ queue' = <<>>
    /\ Notify
    /\ UNCHANGED <<call, worker, armed, timedOut, batch, late, thread>>

CancelClose ==
    /\ closer = "draining"
    /\ ~WorkerDone
    /\ closer' = "drainingCancelled"
    /\ UNCHANGED <<callVars, queueVars, workerVars, late, thread>>

FinishClose ==
    /\ closer \in {"draining", "drainingCancelled"}
    /\ WorkerDone
    /\ thread # "busy"
    /\ closer' = "done"
    /\ UNCHANGED <<callVars, queueVars, workerVars, late, thread>>

-----------------------------------------------------------------------------
CallStep(c) ==
    \/ Refuse(c)
    \/ Submit(c)
    \/ Answered(c)
    \/ CancelCall(c)
    \/ FutureCancelled(c)
    \/ Unwind(c)
    \/ TimePasses(c)

WorkerStep ==
    \/ WaitForItem
    \/ WaitToFill
    \/ StopWorker
    \/ TakeBatch
    \/ FinishBatch

CloseStep == Close \/ CancelClose \/ FinishClose

Next ==
    \/ \E c \in Calls : CallStep(c)
    \/ TimerFires
    \/ WorkerStep
    \/ StageEnds
    \/ CancelWorker
    \/ CloseStep

(***************************************************************************)
(* The event loop runs every ready callback, time passes, and the stage's  *)
(* pure() returns or raises.  Nothing obliges a caller to call or to be    *)
(* cancelled, nor anyone to close the service.                             *)
(***************************************************************************)
Fairness ==
    /\ WF_vars(WorkerStep)
    /\ WF_vars(TimerFires)
    /\ WF_vars(StageEnds)
    /\ WF_vars(FinishClose)
    /\ \A c \in Calls : /\ WF_vars(TimePasses(c))
                        /\ WF_vars(Answered(c) \/ FutureCancelled(c))
                        /\ WF_vars(Unwind(c))

Spec == Init /\ [][Next]_vars

FairSpec == Spec /\ Fairness

-----------------------------------------------------------------------------
(***************************************************************************)
(* Properties                                                              *)
(***************************************************************************)

\* A worker that sleeps has nothing to hear of: none is queued while it waits
\* for an item, and its timed wait is set to the head of an unfilled queue of
\* an open service.  (run() notifies after every append, close() and the
\* cancellation handler after every removal.)
WorkerHearsQueue ==
    /\ worker = "waitItem" /\ ~notified => queue = <<>> /\ ~closed
    /\ worker = "waitFill" /\ ~notified /\ ~timedOut =>
          /\ queue # <<>> /\ armed = Head(queue)
          /\ Len(queue) < BatchSize /\ ~closed

\* A future somebody may still be waiting for is in the hands of the queue or
\* of the running batch, so a worker that returned has answered every call;
\* and no call is held twice.
Queued(c)  == \E i \in 1..Len(queue) : queue[i] = c
Batched(c) == \E i \in 1..Len(batch) : batch[i] = c

NoStrandedCall ==
    /\ \A c \in Calls : fut[c] = "pending" => Queued(c) \/ Batched(c)
    /\ worker = "returned" => queue = <<>> /\ batch = <<>>
    /\ \A c \in Calls : ~(Queued(c) /\ Batched(c))
    /\ \A i, j \in 1..Len(queue) : queue[i] = queue[j] => i = j
    /\ \A i, j \in 1..Len(batch) : batch[i] = batch[j] => i = j

\* When close() is over the stage's thread runs nothing, and only a worker the
\* loop itself cancelled leaves calls unanswered.
CloseLeavesNothingRunning ==
    closer = "done" => /\ thread # "busy"
                       /\ queue = <<>>
                       /\ worker # "cancelled" =>
                             \A c \in Calls : fut[c] # "pending"

\* Each call's view of the service, as StageCalls sees it.
Answer ==
    [c \in Calls |->
        CASE call[c] = "new"      -> "unsent"
          [] call[c] = "refused"  -> "refused"
          [] fut[c] = "pending"   -> "open"
          [] OTHER                -> fut[c]]

Promise == INSTANCE StageCalls WITH answer <- Answer, accepting <- ~closed

\* The service keeps what StageCalls promises: one answer a call, whole batches
\* share their fate, at most BatchSize at a time, nothing accepted once closed.
KeepsPromise == Promise!Spec

\* Every call ends - served, cancelled or refused - unless the worker task was
\* cancelled under it.
EveryCallEnds ==
    \A c \in Calls : call[c] = "awaiting" ~>
        (call[c] \in {"returned", "raised", "cancelled"} \/ worker = "cancelled")

\* close() completes, also when it is itself cancelled half way.
CloseCompletes == closer = "draining" ~> closer = "done"

=============================================================================
