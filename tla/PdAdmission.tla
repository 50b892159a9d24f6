---------------------------- MODULE PdAdmission ----------------------------
(***************************************************************************)
(* Admission of generation requests to a pair of vLLM engines, one for     *)
(* prefill and one for decode.  A request passes three asyncio semaphores: *)
(* the stage's (LLMContinuousStageService.generate_text) and, inside it,   *)
(* one per engine role (VllmPdPair._gen_one).  It keeps its prefill permit *)
(* until it has a decode permit, because the prefill engine pins the KV    *)
(* blocks of a finished prefill until the decode engine fetches them.      *)
(*                                                                         *)
(* An acquire that finds the semaphore free does not suspend; the model    *)
(* makes it a step of its own, which only adds interleavings.              *)
(***************************************************************************)
EXTENDS Integers, Sequences, FiniteSets, SequencesExt

CONSTANTS
    Requests,       \* generate_text calls
    PrefillSeqs,    \* max_num_seqs of the prefill engine
    DecodeSeqs,     \* max_num_seqs of the decode engine
    StageLimit      \* max_inflight of the stage

ASSUME PdAdmissionAssumption ==
    /\ IsFiniteSet(Requests)
    /\ PrefillSeqs \in Nat \ {0}
    /\ DecodeSeqs \in Nat \ {0}
    /\ StageLimit \in Nat \ {0}

VARIABLES
    pc,         \* where each request stands
    hit,        \* the requests whose task was cancelled and has not unwound
    retried,    \* the requests whose current POST is already the second try
    ready,      \* the requests whose KV blocks are pinned for a later fetch
    free,       \* Semaphore._value of each gate
    line,       \* Semaphore._waiters of each gate
    granted,    \* the waiting requests whose future holds a permit
    count       \* the counters of each gate

vars == <<pc, hit, retried, ready, free, line, granted, count>>

Gates == {"stage", "prefill", "decode"}
Roles == {"prefill", "decode"}

\* _pd_role_admission_limits(): one request is fed ahead of the prefill engine
PrefillFeederSlots == 1
Limit == [g \in Gates |->
            CASE g = "stage"   -> StageLimit
              [] g = "prefill" -> PrefillSeqs + PrefillFeederSlots
              [] g = "decode"  -> DecodeSeqs]

\* A request waiting at a gate is at the gate's name.
Posting == {"prefilling", "decoding"}
Ended   == {"returned", "failed", "cancelled"}
Places  == {"new", "staged", "prefilled"} \cup Gates \cup Posting \cup Ended

Before == [stage |-> "new", prefill |-> "staged", decode |-> "prefilled"]
After  == [stage |-> "staged", prefill |-> "prefilling", decode |-> "decoding"]

\* the places at which a request holds a permit of the gate
HeldAt == [stage   |-> {"staged", "prefill", "prefilling", "prefilled",
                        "decode", "decoding"},
           prefill |-> {"prefilling", "prefilled", "decode"},
           decode  |-> {"decoding"}]

Held(q)    == {g \in Gates : pc[q] \in HeldAt[g]}
Holders(g) == {q \in Requests : pc[q] \in HeldAt[g]}
Waiting(g) == {q \in Requests : pc[q] = g}

Outcomes == {"completed", "failed", "cancelled"}
Counters == {"submitted", "waiting", "inflight"} \cup Outcomes

TypeOK ==
    /\ pc \in [Requests -> Places]
    /\ hit \in SUBSET Requests
    /\ retried \in SUBSET Requests
    /\ ready \in SUBSET Requests
    /\ free \in [Gates -> Nat]
    /\ line \in [Gates -> Seq(Requests)]
    /\ granted \in SUBSET Requests
    /\ count \in [Gates -> [Counters -> Nat]]

Init ==
    /\ pc = [q \in Requests |-> "new"]
    /\ hit = {}
    /\ retried = {}
    /\ ready = {}
    /\ free = Limit
    /\ line = [g \in Gates |-> <<>>]
    /\ granted = {}
    /\ count = [g \in Gates |-> [c \in Counters |-> 0]]

-----------------------------------------------------------------------------
(***************************************************************************)
(* asyncio.Semaphore.  A waiter whose future is done - granted, or         *)
(* cancelled - stays in line until its task runs; the others are granted   *)
(* permits in the order they came.                                         *)
(***************************************************************************)
Pending(s) == {s[i] : i \in DOMAIN s} \ (granted \cup hit)

\* locked(): also while a waiter that was not cancelled is still in line
Locked(g) ==
    \/ free[g] = 0
    \/ \E i \in DOMAIN line[g] : line[g][i] \notin hit \ granted

\* the first n waiters of the line s still without a permit (all, if fewer)
Woken(s, n) ==
    { W \in SUBSET Pending(s) :
        /\ Cardinality(W) <= n
        /\ Cardinality(W) = n \/ W = Pending(s)
        /\ \A i, j \in DOMAIN s :
              s[j] \in W /\ s[i] \in Pending(s) /\ i < j => s[i] \in W }

\* a waiter's future is taken out of the line it stands in
Leaves(q) ==
    \/ \E g \in Gates \cap {pc[q]} : \E i \in DOMAIN line[g] :
          /\ line[g][i] = q
          /\ line' = [line EXCEPT ![g] = RemoveAt(@, i)]
    \/ pc[q] \notin Gates /\ UNCHANGED line

Delta(b) == IF b THEN 1 ELSE 0

\* Mutant: a waiter that leaves the line wakes nobody.
Permits_Silent(q, back, taken, left) ==
    LET add   == [g \in Gates |-> Delta(g \in back) - Delta(g \in taken)]
        wakes == [g \in Gates |-> IF g \in left THEN 0 ELSE Delta(g \in back)]
    IN  \E s \in Woken(line'["stage"], wakes["stage"]),
           p \in Woken(line'["prefill"], wakes["prefill"]),
           d \in Woken(line'["decode"], wakes["decode"]) :
          /\ granted' = (granted \ {q}) \cup s \cup p \cup d
          /\ free' = [free EXCEPT
                        !["stage"]   = @ + add["stage"] - Cardinality(s),
                        !["prefill"] = @ + add["prefill"] - Cardinality(p),
                        !["decode"]  = @ + add["decode"] - Cardinality(d)]

\* Permits of the gates in back are released, waking one waiter each, and those
\* of the gates in taken taken; a waiter leaving a gate in left wakes as many
\* of the waiters behind it as there are permits.
Permits(q, back, taken, left) ==
    LET add   == [g \in Gates |-> Delta(g \in back) - Delta(g \in taken)]
        wakes == [g \in Gates |-> IF g \in left THEN free[g] + add[g]
                                                ELSE Delta(g \in back)]
    IN  \E s \in Woken(line'["stage"], wakes["stage"]),
           p \in Woken(line'["prefill"], wakes["prefill"]),
           d \in Woken(line'["decode"], wakes["decode"]) :
          /\ granted' = (granted \ {q}) \cup s \cup p \cup d
          /\ free' = [free EXCEPT
                        !["stage"]   = @ + add["stage"] - Cardinality(s),
                        !["prefill"] = @ + add["prefill"] - Cardinality(p),
                        !["decode"]  = @ + add["decode"] - Cardinality(d)]

Tally(up, down) ==
    count' = [g \in Gates |-> [c \in Counters |->
                count[g][c] + Delta(<<g, c>> \in up) - Delta(<<g, c>> \in down)]]

\* The prefill permit is released once the decode permit is held.
HandedBack(g) == IF g = "decode" THEN {"prefill"} ELSE {}

-----------------------------------------------------------------------------
(***************************************************************************)
(* generate_text() and _acquire_role(): a request joins the line of a gate *)
(* or takes a permit of it at once; a waiter granted a permit goes on.     *)
(***************************************************************************)
Join(q, g) ==
    /\ pc[q] = Before[g]
    /\ Locked(g)
    /\ pc' = [pc EXCEPT ![q] = g]
    /\ line' = [line EXCEPT ![g] = Append(@, q)]
    /\ Tally({<<g, "submitted">>, <<g, "waiting">>}, {})
    /\ UNCHANGED <<hit, retried, ready, free, granted>>

Pass(q, g) ==
    /\ pc[q] = Before[g]
    /\ ~Locked(g)
    /\ pc' = [pc EXCEPT ![q] = After[g]]
    /\ Tally({<<g, "submitted">>, <<g, "inflight">>}
                \cup HandedBack(g) \X {"completed"},
             HandedBack(g) \X {"inflight"})
    /\ UNCHANGED <<hit, retried, ready, line>>
    /\ Permits(q, HandedBack(g), {g}, {})

Resume(q, g) ==
    /\ pc[q] = g
    /\ q \in granted \ hit
    /\ pc' = [pc EXCEPT ![q] = After[g]]
    /\ Leaves(q)
    /\ Tally({<<g, "inflight">>} \cup HandedBack(g) \X {"completed"},
             {<<g, "waiting">>} \cup HandedBack(g) \X {"inflight"})
    /\ UNCHANGED <<hit, retried, ready>>
    /\ Permits(q, HandedBack(g), {}, {g})

(***************************************************************************)
(* The engines (vLLM, NIXL).  The prefill engine pins the KV blocks of a   *)
(* finished prefill, the decode engine fetches and so releases them.       *)
(***************************************************************************)
PrefillEngineDone(q) ==
    /\ pc[q] = "prefilling"
    /\ ready' = ready \cup {q}
    /\ UNCHANGED <<pc, hit, retried, free, line, granted, count>>

DecodeEngineFetches(q) ==
    /\ pc[q] = "decoding"
    /\ ready' = ready \ {q}
    /\ UNCHANGED <<pc, hit, retried, free, line, granted, count>>

\* _raw_post(): a stale connection is tried again, once.  A prefill done for
\* the first try is not the one the answer will name.
Retry(q) ==
    /\ pc[q] \in Posting
    /\ q \notin retried \cup hit
    /\ retried' = retried \cup {q}
    /\ ready' = IF pc[q] = "prefilling" THEN ready \ {q} ELSE ready
    /\ UNCHANGED <<pc, hit, free, line, granted, count>>

\* Mutant: the prefill permit goes back with the prefill's answer.
PrefillReturns_Releases(q) ==
    /\ pc[q] = "prefilling"
    /\ q \in ready \ hit
    /\ pc' = [pc EXCEPT ![q] = "prefilled"]
    /\ retried' = retried \ {q}
    /\ UNCHANGED <<hit, ready, line, count>>
    /\ Permits(q, {"prefill"}, {}, {})

PrefillReturns(q) ==
    /\ pc[q] = "prefilling"
    /\ q \in ready \ hit
    /\ pc' = [pc EXCEPT ![q] = "prefilled"]
    /\ retried' = retried \ {q}
    /\ UNCHANGED <<hit, ready, free, line, granted, count>>

(***************************************************************************)
(* The ends of a request.  Whatever permits it holds go back, in one step: *)
(* no await lies between the handlers.  Only the role gates count failures *)
(* and cancellations.                                                      *)
(***************************************************************************)
\* Mutant: a cancelled waiter stays counted as waiting.
End_NoFinally(q, outcome, held, back) ==
    LET counted == IF outcome = "completed" THEN held ELSE Roles \cap (held \cup {pc[q]})
    IN  /\ Tally(counted \X {outcome}, held \X {"inflight"})
        /\ hit' = hit \ {q}
        /\ retried' = retried \ {q}
        /\ ready' = ready \ {q}
        /\ Leaves(q)
        /\ Permits(q, back, {}, Gates \cap {pc[q]})

End(q, outcome, held, back) ==
    LET counted == IF outcome = "completed" THEN held ELSE Roles \cap (held \cup {pc[q]})
    IN  /\ Tally(counted \X {outcome},
                 (held \X {"inflight"}) \cup ({pc[q]} \X {"waiting"}))
        /\ hit' = hit \ {q}
        /\ retried' = retried \ {q}
        /\ ready' = ready \ {q}
        /\ Leaves(q)
        /\ Permits(q, back, {}, Gates \cap {pc[q]})

DecodeReturns(q) ==
    /\ pc[q] = "decoding"
    /\ q \notin ready \cup hit
    /\ pc' = [pc EXCEPT ![q] = "returned"]
    /\ End(q, "completed", Held(q), Held(q))

\* an HTTP error, no handle in the answer, the session's timeout, or a
\* connection lost for the second time
Fail(q) ==
    /\ pc[q] \in Posting
    /\ q \notin hit
    /\ pc' = [pc EXCEPT ![q] = "failed"]
    /\ End(q, "failed", Held(q), Held(q))

\* Task.cancel(): heard by the task later, at its await
Cancel(q) ==
    /\ pc[q] \in Gates \cup Posting
    /\ q \notin hit
    /\ hit' = hit \cup {q}
    /\ UNCHANGED <<pc, retried, ready, free, line, granted, count>>

\* Mutant: a permit granted before the cancellation is lost.
Unwind_LosesGrant(q) ==
    /\ q \in hit
    /\ pc' = [pc EXCEPT ![q] = "cancelled"]
    /\ End(q, "cancelled", Held(q), Held(q))

\* Mutant: the leases a cancelled request holds are not released.
Unwind_KeepsLeases(q) ==
    /\ q \in hit
    /\ pc' = [pc EXCEPT ![q] = "cancelled"]
    /\ End(q, "cancelled", Held(q), {})

\* A cancelled waiter that had been granted its permit gives that back too.
Unwind(q) ==
    /\ q \in hit
    /\ pc' = [pc EXCEPT ![q] = "cancelled"]
    /\ End(q, "cancelled", Held(q),
           Held(q) \cup (IF q \in granted THEN {pc[q]} ELSE {}))

-----------------------------------------------------------------------------
Gate(q)   == \E g \in Gates : Join(q, g) \/ Pass(q, g) \/ Resume(q, g)
Answer(q) == PrefillReturns(q) \/ DecodeReturns(q) \/ Fail(q)
Engine(q) == PrefillEngineDone(q) \/ DecodeEngineFetches(q)

Next == \E q \in Requests :
            \/ Gate(q)
            \/ Engine(q)
            \/ Retry(q)
            \/ Answer(q)
            \/ Cancel(q)
            \/ Unwind(q)

\* The event loop runs what is ready, and the session's total timeout ends
\* every POST.  Nothing obliges the engines to answer or a caller to call.
Fairness ==
    \A q \in Requests :
        /\ WF_vars(pc[q] # "new" /\ Gate(q))
        /\ WF_vars(Answer(q))
        /\ WF_vars(Unwind(q))

Spec == Init /\ [][Next]_vars

FairSpec == Spec /\ Fairness

-----------------------------------------------------------------------------
(***************************************************************************)
(* Properties                                                              *)
(***************************************************************************)

\* Every permit of a gate is free, on its way to a waiter, or held: none is
\* lost or made up by a cancellation that meets a grant, a failure after the
\* handoff, or the same lease released twice.
PermitsConserved ==
    \A g \in Gates :
        free[g] + Cardinality(granted \cap Waiting(g)) + Cardinality(Holders(g))
            = Limit[g]

\* The counters the saturation evidence is read from are the truth: who waits,
\* who is inside, and every role submission ends in one way only.
CountersTellTheTruth ==
    /\ \A g \in Gates : /\ count[g]["waiting"] = Cardinality(Waiting(g))
                        /\ count[g]["inflight"] = Cardinality(Holders(g))
    /\ \A r \in Roles :
          count[r]["submitted"] =
              count[r]["waiting"] + count[r]["inflight"] + count[r]["completed"]
                + count[r]["failed"] + count[r]["cancelled"]

\* A free permit never lies idle beside a waiter: some waiter in that line is
\* about to run and will pass it on.
NoIdlePermit ==
    \A g \in Gates :
        free[g] > 0 /\ Pending(line[g]) # {} =>
            \E i \in DOMAIN line[g] : line[g][i] \in granted

\* the handles of finished prefills that are not admitted to decode yet
HandlesAwaitingDecode == ready \cap Holders("prefill")

\* Finished prefills not yet admitted to decode never exceed the prefill
\* engine's capacity and its one feeder slot, however long decode is blocked;
\* with those admitted and not fetched, never both roles' limits.
HandlesBounded ==
    /\ Cardinality(HandlesAwaitingDecode) <= PrefillSeqs + PrefillFeederSlots
    /\ Cardinality(ready) <= PrefillSeqs + PrefillFeederSlots + DecodeSeqs

\* Every request that was submitted ends: the gates cannot deadlock, although
\* a request waits for decode while it holds the other two permits.
EveryRequestEnds ==
    \A q \in Requests : pc[q] \in {"stage", "staged"} ~> pc[q] \in Ended

=============================================================================
