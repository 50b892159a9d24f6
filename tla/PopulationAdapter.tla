-------------------------- MODULE PopulationAdapter ---------------------------
(***************************************************************************)
(* The population adapter of the closed loop: it samples the stages in      *)
(* epochs of five, tracks one bottleneck candidate, grows the population     *)
(* while there is none, and ends warmup with a verdict whose proof is two    *)
(* spans of completions (serving_runtime.py, population_adapter). ClosedLoop *)
(* takes the verdict as a nondeterministic choice; here is how it comes.     *)
(*                                                                          *)
(* The candidates are numbered in the order they are looked at: an engine's *)
(* own backlog, a P/D gate's, a worker stage's, a collocated gate's. Which  *)
(* of them an epoch finds, and whether two spans were of one rate, is open. *)
(* Completion k is the k-th of the warmup; time is whether half the warmup  *)
(* cap has passed.                                                          *)
(***************************************************************************)
EXTENDS Naturals

CONSTANTS Candidates,    \* 1..k
          Preferred,     \* stage-cycle span of each candidate
          MinSpan,       \* smallest span of the wall budget
          Population,    \* initial and largest number of drivers
          MaxDone,       \* bound: completions of the warmup
          Never          \* None

ASSUME AdapterAssumption ==
  /\ Candidates \subseteq Nat \ {0} /\ Preferred \in [Candidates -> Nat \ {0}]
  /\ {MinSpan, MaxDone} \subseteq Nat \ {0} /\ Never \notin Nat
  /\ Population \in (Nat \ {0}) \X Nat /\ Population[1] <= Population[2]

VARIABLES adapter,   \* ramping, sampling, over or failed
          llm,       \* there is an LLM stage
          done,      \* completions so far
          support,   \* completions when every row had been answered
          late,      \* half of the warmup cap has passed
          drivers,   \* population
          epoch,     \* completions when the current epoch began
          cand, start, eff,   \* tracked candidate, its start, its frozen span
          supportEpoch,       \* the support the tracking was reset for
          verdict,
          held       \* history: where each candidate's unbroken presence began

adapterVars == <<adapter, llm, done, support, late, drivers, epoch, cand, start, eff,
                 supportEpoch, verdict, held>>

Hi(a, b) == IF a >= b THEN a ELSE b
Lo(a, b) == IF a <= b THEN a ELSE b

AdapterInit ==
  /\ adapter = "ramping" /\ llm \in BOOLEAN /\ done = 0 /\ support = Never
  /\ late = FALSE /\ drivers = Population[1] /\ epoch = 0
  /\ cand = Never /\ start = 0 /\ eff = Never /\ supportEpoch = Never
  /\ verdict = Never /\ held = [c \in Candidates |-> Never]

(***************************************************************************)
(* The loop around it.                                                      *)
(***************************************************************************)
\* A completion of the warmup, perhaps of the last row nobody had answered.
WarmupCompletes ==
  /\ adapter \in {"ramping", "sampling"} /\ done < MaxDone /\ done' = done + 1
  /\ support' \in (IF support = Never THEN {Never, done'} ELSE {support})
  /\ UNCHANGED <<adapter, llm, late, drivers, epoch, cand, start, eff, supportEpoch,
                 verdict, held>>

HalfCapPasses ==
  /\ ~late /\ late' = TRUE
  /\ UNCHANGED <<adapter, llm, done, support, drivers, epoch, cand, start, eff,
                 supportEpoch, verdict, held>>

\* The attempt is stopped or its window opened: the adapter returns.
AdapterStopped ==
  /\ adapter \in {"ramping", "sampling"} /\ adapter' = "over"
  /\ UNCHANGED <<llm, done, support, late, drivers, epoch, cand, start, eff,
                 supportEpoch, verdict, held>>

(***************************************************************************)
(* Proofs and verdicts.                                                     *)
(***************************************************************************)
\* _completion_rate_stable: two disjoint spans after the start, of one rate.
RateStable(w, from, steady) == done - from >= 2 * w /\ steady

\* _fresh_candidate_rate_stable
FreshProof(w, s, steady) ==
  support # Never /\ RateStable(w, Hi(support, s), steady)

\* _verdict: it raises unless the proof it is given is one.
GiveVerdict(c, w, s) ==
  LET from == Hi(IF support = Never THEN 0 ELSE support, s) IN
  /\ adapter' = IF support # Never /\ done - from >= 2 * w THEN "over" ELSE "failed"
  /\ verdict' = [candidate |-> c, span |-> w, from |-> from]

(***************************************************************************)
(* An epoch ends with the candidates it found in at least three of its      *)
(* samples. The next one begins at once.                                    *)
(***************************************************************************)
Sampled(current) ==
  /\ adapter = "sampling" /\ done > 0 /\ epoch' = done
  /\ held' = [c \in Candidates |-> IF c \notin current THEN Never
                                   ELSE IF held[c] = Never THEN epoch ELSE held[c]]
  /\ UNCHANGED <<llm, done, support, late>>

\* Support became complete during it: the proof starts anew, and a candidate that
\* is still there keeps only its frozen span.
SupportEpoch(current) ==
  /\ Sampled(current) /\ support # Never /\ supportEpoch # support
  /\ supportEpoch' = support /\ start' = support
  /\ IF cand \in current THEN UNCHANGED <<cand, eff>> ELSE cand' = Never /\ eff' = Never
  /\ UNCHANGED <<adapter, drivers, verdict>>

NoSupportNews == support = Never \/ supportEpoch = support

\* A candidate that is gone is replaced by the first one present, from the start
\* of the epoch that shows it.
SwitchKeepsStart(c) == start
SwitchStart(c) == IF c = cand THEN start ELSE epoch
SwitchSpan(c) == IF c = cand THEN eff ELSE Never
Tracked(c, current) == IF cand \in current THEN c = cand ELSE \A d \in current : c <= d

\* _wall_budget_stability_span: at least MinSpan, at most the preferred span and
\* half of the candidate's completions; the measured budget may leave less.
Budgets(c, s) == MinSpan .. Lo(Preferred[c], (done - s) \div 2)

CandidateEpoch(current) ==
  /\ Sampled(current) /\ NoSupportNews
  /\ \E c \in current :
     /\ Tracked(c, current) /\ cand' = c /\ start' = SwitchStart(c)
     /\ LET s == SwitchStart(c) e == SwitchSpan(c) IN
        \E steady \in BOOLEAN :
          \/ /\ e = Never /\ FreshProof(Preferred[c], s, steady)
             /\ eff' = e /\ GiveVerdict(c, Preferred[c], s)
          \/ /\ ~(e = Never /\ FreshProof(Preferred[c], s, steady))
             /\ \E w \in (IF e = Never /\ late THEN {Never} \cup Budgets(c, s) ELSE {e}),
                  again \in BOOLEAN :
                /\ eff' = w
                /\ IF w # Never /\ FreshProof(w, s, again)
                   THEN GiveVerdict(c, w, s)
                   ELSE UNCHANGED <<adapter, verdict>>
  /\ UNCHANGED <<drivers, supportEpoch>>

\* No candidate: more drivers, up to the cap; at the cap, a verdict against the
\* attempt once the rate has settled after support.
NextIncrements == 1 .. Lo(drivers, Population[2] - drivers)
Fallback == CHOOSE w \in {Preferred[c] : c \in Candidates} :
              \A c \in Candidates : Preferred[c] <= w

QuietEpoch ==
  /\ Sampled({}) /\ NoSupportNews
  /\ cand' = Never /\ start' = done /\ eff' = Never
  /\ IF drivers = Population[2]
     THEN /\ \/ UNCHANGED <<adapter, verdict>>
             \/ /\ support # Never /\ RateStable(Fallback, support, TRUE)
                /\ GiveVerdict(Never, Fallback, support)
          /\ UNCHANGED drivers
     ELSE /\ \E n \in NextIncrements : drivers' = drivers + n
          /\ adapter' = "ramping" /\ UNCHANGED verdict
  /\ UNCHANGED supportEpoch

\* The drivers are up, for the first time or after an increment. Without an LLM
\* stage nothing is to be saturated.
RampCompletes ==
  /\ adapter = "ramping"
  /\ adapter' = IF llm THEN "sampling" ELSE "over"
  /\ cand' = Never /\ start' = done /\ eff' = Never /\ epoch' = done
  /\ UNCHANGED <<llm, done, support, late, drivers, supportEpoch, verdict, held>>

AdapterNext ==
  \/ WarmupCompletes \/ HalfCapPasses \/ AdapterStopped \/ RampCompletes \/ QuietEpoch
  \/ \E current \in SUBSET Candidates : SupportEpoch(current) \/ CandidateEpoch(current)

AdapterSpec == AdapterInit /\ [][AdapterNext]_adapterVars

(***************************************************************************)
(* Property.                                                                *)
(***************************************************************************)

\* A verdict never fails its own checks, and the proof it carries is two whole
\* spans, after every row had been answered and while its candidate was present
\* in every epoch: no completion under another bottleneck, or of the first pass
\* over the workload, is counted, whatever appears and vanishes meanwhile.
SaturationProofIsFresh ==
  /\ adapter # "failed"
  /\ verdict # Never =>
       /\ support # Never /\ verdict.from >= support
       /\ done - verdict.from >= 2 * verdict.span
       /\ IF verdict.candidate = Never THEN drivers = Population[2]
          ELSE held[verdict.candidate] # Never /\ verdict.from >= held[verdict.candidate]

=============================================================================
