----------------------------- MODULE ClosedLoop -----------------------------
(***************************************************************************)
(* MeasuredServingRuntime._run_closed_loop_saturated: a closed population  *)
(* of driver tasks keeps the pipeline busy.  It warms up until a fresh     *)
(* completion-rate proof stands on complete workload support, opens the    *)
(* measured window, closes it on a completion target or a wall cap, then   *)
(* collects the one answer per dataset row that quality is scored on.      *)
(*                                                                         *)
(* All of it runs on one asyncio loop; no await lies inside a section that *)
(* holds state_lock, so such a section is one step, and completion times   *)
(* are ordered as the steps are.  An invocation's completion and its       *)
(* driver's next admission are two steps here, one in the code.            *)
(***************************************************************************)
EXTENDS Naturals, FiniteSets

CONSTANTS
    Drivers,        \* driver tasks there may be: load_concurrency_hard_cap
    Initial,        \* those of the initial population
    Rows,           \* dataset rows
    Span,           \* completions of one stability span
    Target,         \* measured_target
    Explicit,       \* measured_target_explicit
    SampleCap,      \* _PERFORMANCE_TRACE_SAMPLE_CAPACITY
    MaxSeq,         \* bound: request sequence numbers
    None            \* no request

ASSUME ClosedLoopAssumption ==
    /\ Initial \subseteq Drivers /\ Initial # {}
    /\ IsFiniteSet(Drivers) /\ IsFiniteSet(Rows) /\ Rows # {}
    /\ {Span, Target, SampleCap} \subseteq Nat \ {0}
    /\ Explicit \in BOOLEAN
    /\ MaxSeq \in Nat
    /\ None \notin Nat

VARIABLES
    llm,        \* does the pipeline have a continuous-batching LLM stage
    gated,      \* warmup_queries > 0: the window waits for a warmup
    driver,     \* where each driver task stands
    hit,        \* the drivers whose task was cancelled and has not unwound
    request,    \* the request a driver runs: its qid and its row
    nextSeq,    \* next_seq, the next request's qid
    epoch,      \* the rows this epoch of the admission order has not yielded
    first,      \* first_qid_by_idx: the qid that answered a row first
    recorded,   \* the qids whose trace the recorder holds
    reservoir,  \* performance_trace_reservoir
    warmed,     \* warmup_completed
    support,    \* workload_support_complete_warmup_completed
    proof,      \* saturation_stability_proof_start_completion
    adapter,    \* where the population adapter stands
    saturation, \* self._saturation["saturated"], or that a candidate stands
    timer,      \* where the warmup timer stands
    phase,      \* measurement_started, measurement_end
    capped,     \* measured_cap has passed since the window opened
    cohort,     \* len(perfs)
    target,     \* measured_target, extensions included
    rejected,   \* warmup_failure_reason is set
    main,       \* where the main task stands
    fill        \* the request that fills each row, if any

poolVars == <<driver, hit, request, nextSeq, epoch>>
traceVars == <<first, recorded, reservoir>>
proofVars == <<warmed, support, proof, adapter, saturation, timer>>
windowVars == <<phase, capped, cohort, target, rejected>>
mainVars == <<main, fill>>
config == <<llm, gated>>
vars == <<config, poolVars, traceVars, proofVars, windowVars, mainVars>>

DriverStates == {"absent", "sleeping", "ready", "running",
                 "returned", "failed", "cancelled"}

Tasks   == {d \in Drivers : driver[d] # "absent"}
Active  == {d \in Drivers : driver[d] \in {"ready", "running"}}
Pending == {d \in Drivers : driver[d] \in {"sleeping", "ready", "running"}}
Failed  == {d \in Drivers : driver[d] = "failed"}

Winners == {first[r] : r \in Rows} \ {None}
Covered == \A r \in Rows : first[r] # None      \* quality_complete_event
Running == {d \in Drivers : driver[d] = "running"}
InFlight == {request[d].qid : d \in Running} \cup ({fill[r] : r \in Rows} \ {None})

\* stop_admission and stop_event are set together
Stopped == phase = "closed" \/ rejected

Requests == [qid : Nat, row : Rows]

PoolTypes ==
    /\ driver \in [Drivers -> DriverStates] /\ hit \subseteq Drivers
    /\ request \in [Drivers -> Requests \cup {None}]
    /\ nextSeq \in Nat
    /\ epoch \subseteq Rows /\ epoch # {}

TraceTypes ==
    /\ first \in [Rows -> Nat \cup {None}]
    /\ recorded \subseteq Nat /\ reservoir \subseteq Nat

ProofTypes ==
    /\ warmed \in Nat
    /\ support \in Nat \cup {None} /\ proof \in Nat \cup {None}
    /\ adapter \in {"ramping", "observing", "done"}
    /\ saturation \in {"none", "candidate", "saturated", "unsaturated"}
    /\ timer \in {"running", "deferred", "due", "over"}

WindowTypes ==
    /\ phase \in {"warmup", "open", "closed"}
    /\ capped \in BOOLEAN /\ rejected \in BOOLEAN
    /\ cohort \in Nat /\ target \in Nat

MainTypes ==
    /\ main \in {"run", "drain", "cancel", "fill", "clear", "done",
                 "abort", "aborted"}
    /\ fill \in [Rows -> Nat \cup {None}]

TypeOK ==
    /\ llm \in BOOLEAN /\ gated \in BOOLEAN
    /\ PoolTypes /\ TraceTypes /\ ProofTypes /\ WindowTypes /\ MainTypes

Init ==
    /\ llm \in BOOLEAN /\ gated \in BOOLEAN
    /\ driver = [d \in Drivers |-> IF d \in Initial THEN "sleeping" ELSE "absent"]
    /\ hit = {}
    /\ request = [d \in Drivers |-> None]
    /\ nextSeq = 0
    /\ epoch = Rows
    /\ first = [r \in Rows |-> None]
    /\ recorded = {}
    /\ reservoir = {}
    /\ warmed = 0
    /\ support = None
    /\ proof = None
    /\ adapter = "ramping"
    /\ saturation = "none"
    /\ timer = IF gated THEN "running" ELSE "over"
    /\ phase = IF gated THEN "warmup" ELSE "open"
    /\ capped = FALSE
    /\ cohort = 0
    /\ target = Target
    /\ rejected = FALSE
    /\ main = "run"
    /\ fill = [r \in Rows |-> None]

-----------------------------------------------------------------------------
(***************************************************************************)
(* The window.  Whether two adjacent spans of completions took about the   *)
(* same time is left open; that there are two, all after the proof's       *)
(* start, is not.                                                          *)
(***************************************************************************)
Fresh(done, start) == start # None /\ done >= start + 2 * Span

MayBeStable(done, start) == {FALSE} \cup (IF Fresh(done, start) THEN {TRUE} ELSE {})

ProofStart_Unsupported(known) == IF proof # None THEN proof ELSE 0

ProofStart(known) == IF proof # None THEN proof ELSE known

\* _warmup_gate_ready(), once a standing no-LLM candidate is taken as saturated
Opens(stable) ==
    /\ stable
    /\ adapter = "done"
    /\ saturation \in {"candidate", "saturated"}
    /\ Active = Tasks

\* start_measurement_locked(): an automatic target grows to two spans
StartMeasurement(start) ==
    /\ phase' = "open"
    /\ proof' = start
    /\ target' = IF Explicit \/ target >= 2 * Span THEN target ELSE 2 * Span

\* _maybe_start_after_warmup_locked(), with the workload support known by now
MaybeStart(stable, known) ==
    /\ saturation' = IF stable /\ saturation = "candidate" THEN "saturated" ELSE saturation
    /\ IF Opens(stable) THEN StartMeasurement(ProofStart(known))
                        ELSE UNCHANGED <<phase, proof, target>>

FinishMeasurement == phase' = "closed"

-----------------------------------------------------------------------------
(***************************************************************************)
(* A driver: a start delay, then one request after the other.              *)
(***************************************************************************)
Activate(d) ==
    /\ driver[d] = "sleeping"
    /\ d \notin hit
    /\ driver' = [driver EXCEPT ![d] = "ready"]
    /\ UNCHANGED <<config, hit, request, nextSeq, epoch, traceVars, proofVars,
                   windowVars, mainVars>>

\* next_state() gives no request: the driver returns.
Leave(d) ==
    /\ driver[d] = "ready"
    /\ d \notin hit
    /\ \/ Stopped /\ UNCHANGED phase
       \/ phase = "open" /\ capped /\ FinishMeasurement
    /\ driver' = [driver EXCEPT ![d] = "returned"]
    /\ UNCHANGED <<config, hit, request, nextSeq, epoch, traceVars, proofVars,
                   capped, cohort, target, rejected, mainVars>>

\* A row is out of the epoch; after the last one a new epoch begins.
WithoutRow(r) == IF epoch = {r} THEN Rows ELSE epoch \ {r}

\* next_state(): the next row of the epoch's permutation, under a new qid
Admit(d) ==
    /\ driver[d] = "ready"
    /\ d \notin hit
    /\ ~Stopped
    /\ ~(phase = "open" /\ capped)
    /\ nextSeq + Cardinality(Rows) < MaxSeq     \* bound; leaves room for the fill
    /\ \E r \in epoch :
          /\ request' = [request EXCEPT ![d] = [qid |-> nextSeq, row |-> r]]
          /\ epoch' = WithoutRow(r)
    /\ driver' = [driver EXCEPT ![d] = "running"]
    /\ nextSeq' = nextSeq + 1
    /\ recorded' = recorded \cup {nextSeq}
    /\ UNCHANGED <<config, hit, first, reservoir, proofVars, windowVars, mainVars>>

\* The request is over; its driver is about to ask for the next one.
Recycle(d) ==
    /\ driver' = [driver EXCEPT ![d] = "ready"]
    /\ request' = [request EXCEPT ![d] = None]
    /\ UNCHANGED <<hit, nextSeq, epoch>>

\* The first completion of a row is the one quality is scored on.
Register(d) ==
    first' = IF first[request[d].row] = None
             THEN [first EXCEPT ![request[d].row] = request[d].qid]
             ELSE first

Discard_Winners(qids) == recorded' = recorded \ qids

\* _discard_trace_qids() of what is not a winner
Discard(qids) == recorded' = recorded \ {q \in qids : \A r \in Rows : first'[r] # q}

CompleteInWarmup(d) ==
    /\ driver[d] = "running"
    /\ d \notin hit
    /\ phase = "warmup"
    /\ Recycle(d)
    /\ Register(d)
    /\ Discard({request[d].qid})
    /\ warmed' = warmed + 1
    /\ support' = IF support = None /\ \A r \in Rows : first'[r] # None
                  THEN warmed + 1
                  ELSE support
    /\ \E stable \in MayBeStable(warmed + 1, ProofStart(support')) :
          /\ MaybeStart(stable, support')
          /\ rejected' = (rejected \/ (timer = "due" /\ ~Opens(stable)))
    /\ UNCHANGED <<config, reservoir, adapter, timer, capped, cohort, mainVars>>

\* A completion inside the window joins the cohort and is offered to the
\* reservoir, which keeps a fixed number; what it turns out loses its trace.
\* At the target an automatic run may find its rate not yet stationary and
\* ask for more completions.
CompleteInWindow(d) ==
    /\ driver[d] = "running"
    /\ d \notin hit
    /\ phase = "open"
    /\ Recycle(d)
    /\ Register(d)
    /\ cohort' = cohort + 1
    /\ IF Cardinality(reservoir) < SampleCap
       THEN /\ reservoir' = reservoir \cup {request[d].qid}
            /\ UNCHANGED recorded
       ELSE \E out \in reservoir \cup {request[d].qid} :
               /\ reservoir' = (reservoir \cup {request[d].qid}) \ {out}
               /\ Discard({out})
    /\ IF cohort + 1 >= target
       THEN \/ ~Explicit /\ target' = cohort + 1 + Span /\ UNCHANGED phase
            \/ FinishMeasurement /\ UNCHANGED target
       ELSE /\ IF capped THEN FinishMeasurement ELSE UNCHANGED phase
            /\ UNCHANGED target
    /\ UNCHANGED <<config, proofVars, capped, rejected, mainVars>>

CompleteAfterWindow(d) ==
    /\ driver[d] = "running"
    /\ d \notin hit
    /\ phase = "closed"
    /\ Recycle(d)
    /\ Register(d)
    /\ Discard({request[d].qid})
    /\ UNCHANGED <<config, reservoir, proofVars, windowVars, mainVars>>

RequestFails_EndsDriver(d) ==
    /\ driver[d] = "running"
    /\ d \notin hit
    /\ recorded' = recorded \ {request[d].qid}
    /\ request' = [request EXCEPT ![d] = None]
    /\ driver' = [driver EXCEPT ![d] = "returned"]
    /\ UNCHANGED <<config, hit, nextSeq, epoch, first, reservoir, proofVars,
                   windowVars, mainVars>>

\* A failed request is dropped and its driver goes on; a fatal failure (CUDA
\* out of memory) ends the driver.
RequestFails(d) ==
    /\ driver[d] = "running"
    /\ d \notin hit
    /\ recorded' = recorded \ {request[d].qid}
    /\ request' = [request EXCEPT ![d] = None]
    /\ driver' \in {[driver EXCEPT ![d] = end] : end \in {"ready", "failed"}}
    /\ UNCHANGED <<config, hit, nextSeq, epoch, first, reservoir, proofVars,
                   windowVars, mainVars>>

Unwind(d) ==
    /\ d \in hit
    /\ driver' = [driver EXCEPT ![d] = "cancelled"]
    /\ hit' = hit \ {d}
    /\ request' = [request EXCEPT ![d] = None]
    /\ recorded' = IF driver[d] = "running" THEN recorded \ {request[d].qid}
                                            ELSE recorded
    /\ UNCHANGED <<config, nextSeq, epoch, first, reservoir, proofVars, windowVars,
                   mainVars>>

-----------------------------------------------------------------------------
(***************************************************************************)
(* The monitors: population adapter, warmup timer, measured timer.  They   *)
(* live until the main task is past its try block.                         *)
(***************************************************************************)
MonitorsLive == main \notin {"done", "aborted"}

RampOver == \A d \in Drivers : driver[d] # "sleeping"

\* The initial ramp, or the last increment, is complete.  Without an LLM stage
\* the adapter leaves a standing candidate, tries the gate and is done;
\* otherwise it observes the stages.
AdapterSeesRamp ==
    /\ MonitorsLive
    /\ adapter = "ramping"
    /\ RampOver /\ Active = Tasks /\ ~Stopped
    /\ IF llm
       THEN /\ adapter' = "observing"
            /\ UNCHANGED <<saturation, phase, proof, target>>
       ELSE /\ adapter' = "done"
            /\ \E stable \in MayBeStable(warmed, support) :
                  IF stable /\ phase = "warmup"
                  THEN /\ saturation' = "saturated"
                       /\ StartMeasurement(support)
                  ELSE /\ saturation' = "candidate"
                       /\ UNCHANGED <<phase, proof, target>>
    /\ UNCHANGED <<config, poolVars, traceVars, warmed, support, timer, capped,
                   cohort, rejected, mainVars>>

\* No backlog anywhere: more drivers, below the cap.
Grow(S) ==
    /\ MonitorsLive
    /\ adapter = "observing"
    /\ phase = "warmup"
    /\ warmed > 0
    /\ S # {} /\ \A d \in S : driver[d] = "absent"
    /\ driver' = [d \in Drivers |-> IF d \in S THEN "sleeping" ELSE driver[d]]
    /\ adapter' = "ramping"
    /\ UNCHANGED <<config, hit, request, nextSeq, epoch, traceVars, warmed, support,
                   proof, saturation, timer, windowVars, mainVars>>

\* _verdict(saturated): a backlog stood while two spans completed, all after
\* its own start and after workload support; the window opens at once.
VerdictSaturated ==
    /\ MonitorsLive
    /\ adapter = "observing"
    /\ phase = "warmup" /\ ~Stopped
    /\ Active = Tasks
    /\ support # None
    /\ \E start \in support..warmed :
          /\ Fresh(warmed, start)
          /\ StartMeasurement(start)
    /\ saturation' = "saturated"
    /\ adapter' = "done"
    /\ UNCHANGED <<config, poolVars, traceVars, warmed, support, timer, capped, cohort,
                   rejected, mainVars>>

\* _verdict("cap_hit"): still no backlog at the population cap
VerdictUnsaturated ==
    /\ MonitorsLive
    /\ adapter = "observing"
    /\ phase = "warmup" /\ ~Stopped
    /\ Active = Drivers
    /\ Fresh(warmed, support)
    /\ saturation' = "unsaturated"
    /\ adapter' = "done"
    /\ rejected' = TRUE
    /\ UNCHANGED <<config, poolVars, traceVars, warmed, support, proof, timer,
                   phase, capped, cohort, target, mainVars>>

\* A ramp that lost drivers, a stop, or a verdict on an incomplete population
\* ends the adapter without one.
AdapterGivesUp ==
    /\ MonitorsLive
    /\ adapter \in {"ramping", "observing"}
    /\ RampOver
    /\ Stopped \/ Active # Tasks
    /\ adapter' = "done"
    /\ UNCHANGED <<config, poolVars, traceVars, warmed, support, proof, saturation,
                   timer, windowVars, mainVars>>

\* warmup_timer(): at the reference cap the gate is tried; at the abort
\* deadline it is tried again and the attempt rejected.
WarmupDeadline ==
    /\ MonitorsLive
    /\ timer = "deferred"
    /\ timer' = "due"
    /\ UNCHANGED <<config, poolVars, traceVars, warmed, support, proof, adapter,
                   saturation, windowVars, mainVars>>

WarmupTimer ==
    /\ MonitorsLive
    /\ timer \in {"running", "due"}
    /\ \/ /\ phase # "warmup"
          /\ timer' = "over"
          /\ UNCHANGED <<saturation, phase, proof, target, rejected>>
       \/ /\ phase = "warmup"
          /\ \E stable \in MayBeStable(warmed, ProofStart(support)) :
                /\ MaybeStart(stable, support)
                /\ timer' = IF Opens(stable) \/ timer = "due" THEN "over" ELSE "deferred"
                /\ rejected' = (rejected \/ (timer = "due" /\ ~Opens(stable)))
    /\ UNCHANGED <<config, poolVars, traceVars, warmed, support, adapter, capped,
                   cohort, mainVars>>

MeasuredCapPasses ==
    /\ phase = "open"
    /\ ~capped
    /\ capped' = TRUE
    /\ UNCHANGED <<config, poolVars, traceVars, proofVars, phase, cohort, target,
                   rejected, mainVars>>

MeasuredTimer ==
    /\ MonitorsLive
    /\ phase = "open" /\ capped
    /\ FinishMeasurement
    /\ UNCHANGED <<config, poolVars, traceVars, proofVars, capped, cohort, target,
                   rejected, mainVars>>

-----------------------------------------------------------------------------
(***************************************************************************)
(* The main task.                                                          *)
(***************************************************************************)
\* Every unfinished driver is cancelled; it will hear of it at its await.
CancelDrivers(next) ==
    /\ hit' = hit \cup Pending
    /\ main' = next

Others == <<config, driver, request, epoch, proofVars, windowVars>>

\* The window closed: some rows may still lack an answer.
WindowEnds ==
    /\ main = "run"
    /\ phase = "closed" /\ ~rejected
    /\ \/ Covered /\ CancelDrivers("clear")
       \/ ~Covered /\ main' = "drain" /\ UNCHANGED hit
    /\ UNCHANGED <<Others, nextSeq, traceVars, fill>>

Reject ==
    /\ main = "run"
    /\ rejected
    /\ CancelDrivers("abort")
    /\ UNCHANGED <<Others, nextSeq, traceVars, fill>>

\* A driver's exception is re-raised where its task is awaited, at the latest
\* when the drivers have been cancelled.
DriverFailureSeen ==
    /\ main \in {"run", "drain"}
    /\ Failed # {}
    /\ CancelDrivers("abort")
    /\ UNCHANGED <<Others, nextSeq, traceVars, fill>>

DrainEnds_Covered ==
    /\ main = "drain"
    /\ Covered
    /\ CancelDrivers("clear")
    /\ UNCHANGED <<Others, nextSeq, traceVars, fill>>

\* drain_driver_completions(): until every row is answered, no driver is left,
\* or the grace has passed
DrainEnds ==
    /\ main = "drain"
    /\ CancelDrivers(IF Covered THEN "clear" ELSE "cancel")
    /\ UNCHANGED <<Others, nextSeq, traceVars, fill>>

DriversCancelled_Unread ==
    /\ main \in {"cancel", "clear"}
    /\ main' = IF main = "cancel" THEN "fill" ELSE "done"
    /\ UNCHANGED <<Others, hit, nextSeq, traceVars, fill>>

\* cancel_drivers() waits for them, for a while
DriversCancelled ==
    /\ main \in {"cancel", "clear"}
    /\ IF Failed # {} THEN CancelDrivers("abort")
       ELSE /\ main' = IF main = "cancel" THEN "fill" ELSE "done"
            /\ UNCHANGED hit
    /\ UNCHANGED <<Others, nextSeq, traceVars, fill>>

\* finish_missing_quality_rows(): the rows no driver answered, without a warmup;
\* one that fails leaves the others running
FillStarts(r) ==
    /\ main = "fill"
    /\ first[r] = None /\ fill[r] = None
    /\ fill' = [fill EXCEPT ![r] = nextSeq]
    /\ nextSeq' = nextSeq + 1
    /\ recorded' = recorded \cup {nextSeq}
    /\ UNCHANGED <<Others, hit, first, reservoir, main>>

FillDone(r) ==
    /\ fill[r] # None
    /\ main \in {"fill", "abort"}
    /\ first' = [first EXCEPT ![r] = fill[r]]
    /\ fill' = [fill EXCEPT ![r] = None]
    /\ UNCHANGED <<Others, hit, nextSeq, recorded, reservoir, main>>

FillFails(r) ==
    /\ fill[r] # None
    /\ main = "fill"
    /\ CancelDrivers("abort")
    /\ UNCHANGED <<Others, nextSeq, traceVars, fill>>

FillEnds ==
    /\ main = "fill"
    /\ Covered
    /\ CancelDrivers("clear")
    /\ UNCHANGED <<Others, nextSeq, traceVars, fill>>

\* The abort path waits a while for the drivers it cancelled, then the monitors
\* are cancelled and the services closed.
Aborted ==
    /\ main = "abort"
    /\ main' = "aborted"
    /\ UNCHANGED <<Others, hit, nextSeq, traceVars, fill>>

-----------------------------------------------------------------------------
Complete(d) == CompleteInWarmup(d) \/ CompleteInWindow(d) \/ CompleteAfterWindow(d)

DriverStep(d) ==
    \/ Activate(d)
    \/ Leave(d)
    \/ Admit(d)
    \/ Complete(d)
    \/ RequestFails(d)
    \/ Unwind(d)

MonitorStep ==
    \/ AdapterSeesRamp
    \/ VerdictSaturated
    \/ VerdictUnsaturated
    \/ AdapterGivesUp
    \/ WarmupDeadline
    \/ WarmupTimer
    \/ MeasuredCapPasses
    \/ MeasuredTimer

MainStep ==
    \/ WindowEnds
    \/ Reject
    \/ DriverFailureSeen
    \/ DrainEnds
    \/ DriversCancelled
    \/ FillEnds
    \/ Aborted
    \/ \E r \in Rows : FillStarts(r) \/ FillDone(r) \/ FillFails(r)

Next ==
    \/ \E d \in Drivers : DriverStep(d)
    \/ \E S \in SUBSET Drivers : Grow(S)
    \/ MonitorStep
    \/ MainStep

(***************************************************************************)
(* The loop runs what is ready, time passes, and every request ends, if    *)
(* only by its HTTP timeout.  The adapter is not obliged to a verdict.     *)
(***************************************************************************)
Fairness ==
    /\ WF_vars(WarmupDeadline) /\ WF_vars(WarmupTimer)
    /\ WF_vars(MeasuredCapPasses) /\ WF_vars(MeasuredTimer)
    /\ WF_vars(MainStep)

Spec == Init /\ [][Next]_vars

FairSpec == Spec /\ Fairness

-----------------------------------------------------------------------------
(***************************************************************************)
(* Properties                                                              *)
(***************************************************************************)

\* The traces the result will need - of each row's first answer and of the
\* performance sample - are always in the recorder, and, until an attempt is
\* aborted, nothing else is but the requests in flight: completions are pruned
\* at once, whatever phase they fall into, so traces cannot pile up.
TraceCustody ==
    /\ Winners \cup reservoir \subseteq recorded
    /\ main \notin {"abort", "aborted"} =>
          recorded \subseteq Winners \cup reservoir \cup InFlight

\* The window opens only on proof: every row was answered, two whole spans
\* completed after that and after the proof's start, and every driver ever
\* started is active - no sleeper, none lost.
WindowOpensOnProof ==
    [][ phase = "warmup" /\ phase' = "open" =>
          /\ Covered'
          /\ Fresh(warmed', proof') /\ proof' >= support'
          /\ Active' = Tasks' ]_vars

\* While the window is open the population is closed: no driver joins it and,
\* but for a fatal failure, none leaves before the window ends.
ClosedPopulation ==
    [][ phase = "open" /\ main = "run" /\ ~rejected =>
          /\ Tasks' = Tasks
          /\ phase' = "open" => Active \subseteq Active' \cup Failed' ]_vars

\* A result exists only for an attempt whose window opened and closed, that
\* was not rejected and lost no driver to a fatal failure; it has an answer for
\* every row, no two rows share one, and the sample is as large as it can be.
ResultIsSound ==
    main = "done" =>
        /\ phase = "closed" /\ (gated => proof # None)
        /\ ~rejected
        /\ Failed = {}
        /\ Covered
        /\ \A r, s \in Rows : first[r] = first[s] => r = s
        /\ Cardinality(reservoir) = IF cohort < SampleCap THEN cohort ELSE SampleCap

\* Every attempt ends, with a result or aborted.
AttemptEnds == <>(main \in {"done", "aborted"})

\* What the comment on the abort path says: "cancel and CONSUME every remaining
\* driver before the caller tears services down".
NoDriverOutlivesAbort == main = "aborted" => Pending \subseteq hit

=============================================================================
