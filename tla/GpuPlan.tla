-------------------------------- MODULE GpuPlan --------------------------------
(***************************************************************************)
(* How a measured trial shares its cards: the utilization planned for each  *)
(* vLLM engine from the layout (vllm_deployment.py), what the launch makes  *)
(* of it from the memory that is free then (gpu_mem.py), and the sizes of   *)
(* gates and population that go with an engine (serving_runtime.py). The    *)
(* in-process quality engine plans for itself (nodes/generator/vllm.py).    *)
(*                                                                          *)
(* Utilizations are in thousandths, sizes in GiB, free memory in            *)
(* thousandths of one: u of a card of Total GiB is u * Total. Sizes are     *)
(* chosen so that weight floors are whole thousandths.                      *)
(***************************************************************************)
EXTENDS Lists, FiniteSetsExt

CONSTANTS CardIds,
          Total,     \* GiB of a card
          Layouts,   \* sequences of launches: cards, the cards of the plan, weights
          AuxStages, \* HF stages, each a process of its own
          Reserve,   \* _HF_AUX_RESERVE_GIB with the component overrides
          Stale      \* GiB an evicted engine may still hold

ASSUME GpuAssumption ==
  /\ Total \in Nat \ {0} /\ Stale \in Nat /\ Reserve \in [AuxStages -> Nat]
  /\ IsFiniteSet(CardIds) /\ IsFiniteSet(AuxStages)
  /\ \A l \in Layouts :
       /\ l \in Seq([cards : (SUBSET CardIds) \ {{}}, spans : SUBSET CardIds, weights : Nat])
       /\ \A i \in DOMAIN l : l[i].cards \subseteq l[i].spans

VARIABLES layout,    \* the launches of the trial
          occupants, \* gpu_occupants: HF stages of each card
          loaded,    \* of them, in memory
          stale,     \* cards an evicted engine has not left yet
          claims     \* utilizations of the launches so far; <<0>> at the end: refused

gpuVars == <<layout, occupants, loaded, stale, claims>>

SmallerOf(a, b) == IF a <= b THEN a ELSE b
LargerOf(a, b) == IF a >= b THEN a ELSE b

(***************************************************************************)
(* The plan.                                                                *)
(***************************************************************************)
\* _device_tenant_counts, _hf_aux_reserve_gib: on the tightest of its cards.
Tenants(c) == Cardinality({i \in DOMAIN layout : c \in layout[i].cards})
AuxOn(c) == SumOver(Reserve, occupants[c])
AuxForgotten(spans) == 0
AuxReserve(spans) == Max({AuxOn(c) : c \in spans})

\* _coresident_util: at most 0.90, shared among the engines, never less than 0.05.
Budget(spans) ==
  IF AuxReserve(spans) = 0 THEN 900
  ELSE SmallerOf(900, LargerOf(50, ((Total - AuxReserve(spans) - 4) * 1000) \div Total))
Planned(i) ==
  LET spans == layout[i].spans IN
  LargerOf(50, Budget(spans) \div Max({Tenants(c) : c \in spans}))

\* _unified_parallelism: what the layout says if it multiplies to n.
UnifiedParallelism(n, tp, pp) ==
  LET p == IF pp < 1 \/ n % pp # 0 \/ pp > n THEN 1 ELSE pp IN
  IF tp * p = n THEN <<tp, p>> ELSE <<n \div p, p>>

\* _role_parallelism: <<>> is TrialInvalid.
RoleParallelism(n, tp, pp) == IF n > 0 /\ tp * pp = n THEN <<tp, pp>> ELSE <<>>

(***************************************************************************)
(* The launch.                                                              *)
(***************************************************************************)
Granted == {i \in 1 .. Len(claims) : claims[i] > 0}
EnginesOn(c) == {i \in Granted : c \in layout[i].cards}
\* _free_total_gib, of one card.
Free(c) == (1000 - SumOver(claims, EnginesOn(c))) * Total
           - 1000 * SumOver(Reserve, loaded[c])
           - (IF c \in stale THEN 1000 * Stale ELSE 0)
Rounded(x) == (2 * x + Total) \div (2 * Total)

\* _weight_floor_util: the whole model, however many cards share it; 0 when the
\* name gives no size.
WeightFloor(weights) ==
  IF weights = 0 THEN 0 ELSE SmallerOf(950, ((weights + 4) * 1000) \div Total)

\* effective_util: the wait for memory to settle is over.
EffectiveUtil(free, requested, weights) ==
  LET reserve == IF free < (Total - 2) * 1000 THEN 24000 ELSE 300
      floor == WeightFloor(weights)
      fit == LargerOf(50, SmallerOf(requested, Rounded(free - reserve))) IN
  IF free >= requested * Total + reserve
  THEN IF floor <= Rounded(free) THEN LargerOf(requested, floor) ELSE requested
  ELSE IF floor > 0 /\ fit < floor THEN SmallerOf(floor, Rounded(free)) ELSE fit

\* vLLM's own check at startup: free >= util * total, of a util above 0. A refusal
\* ends the trial.
Refused == claims # <<>> /\ claims[Len(claims)] = 0
Launch ==
  LET i == Len(claims) + 1
      free == Min({Free(c) : c \in layout[i].cards})
      util == EffectiveUtil(free, Planned(i), layout[i].weights) IN
  /\ ~Refused /\ i <= Len(layout)
  /\ claims' = Append(claims, IF util > 0 /\ free >= util * Total THEN util ELSE 0)
  /\ UNCHANGED <<layout, occupants, loaded, stale>>

\* An aux process loads its model when it is first used.
AuxLoads(c) ==
  /\ ~Refused /\ \E a \in occupants[c] \ loaded[c] : loaded' = [loaded EXCEPT ![c] = @ \cup {a}]
  /\ UNCHANGED <<layout, occupants, stale, claims>>

StaleLeaves(c) ==
  /\ ~Refused /\ c \in stale /\ stale' = stale \ {c}
  /\ UNCHANGED <<layout, occupants, loaded, claims>>

GpuInit ==
  /\ layout \in Layouts /\ occupants \in [CardIds -> SUBSET AuxStages]
  /\ loaded = [c \in CardIds |-> {}] /\ stale \in SUBSET CardIds /\ claims = <<>>
GpuNext == Launch \/ \E c \in CardIds : AuxLoads(c) \/ StaleLeaves(c)

(***************************************************************************)
(* The in-process engine of the quality path.                               *)
(***************************************************************************)
\* _adapt_engine_resources: the smallest doubling that fits in 0.92 of a card, on
\* at most four.
Need(weights, tp) == (weights * 1000) \div tp + 5000
FitsCard(weights, tp, total) == Need(weights, tp) <= 920 * total
AdaptedTp(weights, tp, total, cards) ==
  LET reach == {t \in {tp, 2 * tp, 4 * tp} : t = tp \/ t <= SmallerOf(4, cards)}
      fits == {t \in reach : FitsCard(weights, t, total)} IN
  IF fits = {} THEN Max(reach) ELSE Min(fits)
AdaptedUtil(weights, tp, total, util) ==
  LargerOf(util, SmallerOf(920, Need(weights, tp) \div total))

(***************************************************************************)
(* Gates and population.                                                    *)
(***************************************************************************)
\* _admission_slack, _stage_max_inflight of a collocated engine.
Slack(seqs) == LargerOf(1, (LargerOf(1, seqs) + 4) \div 5)
StageGate(seqs, cap) == SmallerOf(LargerOf(1, cap), seqs + Slack(seqs))

\* _measured_load_concurrency and _measured_population_hard_cap, with no explicit
\* numbers but perhaps a load factor.
LoadConcurrency(batch, decode, factor) == LargerOf(1, LargerOf(batch, decode)) * LargerOf(1, factor)
HardCap(initial, react) == LargerOf(initial, (IF react THEN 16 ELSE 4) * initial)

\* _next_population_increment, of a mean fill in hundredths.
NextIncrement(population, cap, fill) ==
  LET remaining == LargerOf(0, cap - population)
      f == LargerOf(fill, 5)
      proposed == SmallerOf(population, LargerOf(0, (population * (100 - f)) \div f)) IN
  SmallerOf(LargerOf(1, proposed), remaining)

\* _collocated_outer_backlog_engine_cap: only an unclamped, full gate with waiters
\* is evidence; 0 is None.
OuterBacklogCap(seqs, gate, inflight, waiting) ==
  IF gate = seqs + Slack(seqs) /\ inflight = gate /\ waiting > 0 THEN seqs ELSE 0

(***************************************************************************)
(* Properties.                                                              *)
(***************************************************************************)

AsPlanned(c) ==
  EnginesOn(c) # {} /\ \A i \in EnginesOn(c) : claims[i] <= Planned(i) /\ Planned(i) > 50

\* Whatever loads when, a card with engines holds all of them and every HF stage that
\* is ever to come onto it: the plan does not depend on the order of loading, unless an
\* engine's weights raised it above its plan or the plan is the floor of 0.05.
CardsHoldTheirTenants ==
  \A c \in CardIds : AsPlanned(c) =>
    SumOver(claims, EnginesOn(c)) * Total + 1000 * AuxOn(c) <= 1000 * Total

\* A launch is refused only on a card that is full: less is free than 0.05 of it or
\* than the weights need, whoever holds the rest, an evicted engine included.
RefusalsAreGenuine ==
  \A i \in DOMAIN claims : claims[i] = 0 =>
    LET free == Min({Free(c) : c \in layout[i].cards}) IN
    free < 50 * Total \/ free < WeightFloor(layout[i].weights) * Total

\* Sizes that go together: TP and PP multiply to the devices, and what a
\* role accepts a single engine would not change; the in-process engine
\* takes the smallest TP that fits; an increment grows the population and stays
\* within its cap; and by default the population never clamps an engine's gate, so
\* a backlog behind it can be seen.
SizesAgree ==
  /\ \A n \in 1 .. 8, tp, pp \in 0 .. 8 :
       LET u == UnifiedParallelism(n, tp, pp) IN
       /\ u[1] * u[2] = n
       /\ RoleParallelism(n, tp, pp) \in {<<>>, u}
  /\ \A w \in {1, 14, 28, 60}, total \in {24, 80}, n \in 1 .. 4, tp \in {1, 2} :
       LET t == AdaptedTp(w, tp, total, n) IN
       /\ \A s \in {1, 2, 4} : s < t /\ s >= tp => ~FitsCard(w, s, total)
       /\ FitsCard(w, t, total) => Need(w, t) \div total <= AdaptedUtil(w, t, total, 400)
  /\ \A p \in 1 .. 6, cap \in 1 .. 9, fill \in {0, 30, 99, 100} :
       p < cap => NextIncrement(p, cap, fill) \in 1 .. (cap - p)
  /\ \A batch, decode \in 1 .. 8, factor \in {1, 4}, react \in BOOLEAN :
       LET gate == StageGate(decode, HardCap(LoadConcurrency(batch, decode, factor), react)) IN
       OuterBacklogCap(decode, gate, gate, 1) = decode

PlansFitTheCards ==
  /\ CardsHoldTheirTenants /\ RefusalsAreGenuine
  /\ claims = <<>> /\ stale = CardIds /\ occupants = [c \in CardIds |-> {}] => SizesAgree

=============================================================================
