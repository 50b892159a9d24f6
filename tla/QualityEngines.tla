---------------------------- MODULE QualityEngines ----------------------------
(***************************************************************************)
(* The in-process vLLM engines of the quality path: the Vllm generator node *)
(* (nodes/generator/vllm.py), the slot that keeps one engine across         *)
(* evaluations (engine_slot.py), the sweep between evaluations              *)
(* (static_rag_evaluator.py) and the environment variable                   *)
(* CUDA_VISIBLE_DEVICES every engine's workers inherit.                     *)
(*                                                                          *)
(* Evaluations run one after the other and use one node at a time. What     *)
(* interleaves is the collector: a node whose call raised stays alive as    *)
(* long as somebody holds the exception, and runs __del__ at any time after.*)
(*                                                                          *)
(* Cards are 0..Cards-1, logical as torch numbers them and physical, for    *)
(* the variable is unset when the process starts; an engine needs the whole *)
(* of each of its cards. Node n builds engine n.                            *)
(***************************************************************************)
EXTENDS Naturals, Sequences, FiniteSets, SequencesExt

CONSTANTS Nodes,     \* generator nodes, in the order they are made: 1..k
          Cards,     \* number of cards
          Key,       \* startup key of each node: model and engine arguments
          Width,     \* tensor_parallel_size of each node after the adaptation
          Aux,       \* the nodes that serve query expansion
          NoNode     \* Python's None

ASSUME QualityEnginesAssumption ==
  /\ Nodes \subseteq Nat /\ NoNode \notin Nodes /\ Cards \in Nat \ {0}
  /\ Width \in [Nodes -> 1..Cards] /\ Aux \subseteq Nodes

VARIABLES env,       \* CUDA_VISIBLE_DEVICES, <<>> when it is unset
          phase,     \* of each node
          prev, set, \* each node's snapshot of env and its own pin
          cores,     \* cards of the live EngineCore processes of each engine
          engine,    \* the engine each node generates with
          slot,      \* the engine the quality slot holds
          pids,      \* the engines whose cores the slot has recorded
          broken,    \* engines that raised an engine-dead error
          running    \* an evaluation is running

enginesVars == <<env, phase, prev, set, cores, engine, slot, pids, broken, running>>

NoPin == <<Cards>>   \* None: this node has not touched the variable

EnginesInit ==
  /\ env = <<>> /\ phase = [n \in Nodes |-> "new"]
  /\ prev = [n \in Nodes |-> NoPin] /\ set = [n \in Nodes |-> NoPin]
  /\ cores = [n \in Nodes |-> {}]
  /\ engine = [n \in Nodes |-> NoNode]
  /\ slot = NoNode /\ pids = {} /\ broken = {} /\ running = FALSE

Alive(e) == cores[e] # {}
Occupied(cs) == UNION {cs[e] : e \in Nodes}
Slotted(n) == n \notin Aux /\ Width[n] = 1
InUse == {n \in Nodes : phase[n] \in {"placed", "built"}}

(***************************************************************************)
(* The slot.                                                                *)
(***************************************************************************)
\* _engine_alive: no recorded cores means the object is trusted.
SlotHit(n) == slot # NoNode /\ Key[slot] = Key[n] /\ \A e \in pids : Alive(e)

\* clear kills the recorded cores; teardown of the object may leave others.
Cleared(cs) == [e \in Nodes |-> IF e \in pids \cup {slot} THEN {} ELSE cs[e]]

\* _force_kill_engine_core_orphans: every core but the slot's.
Reaped(cs, keep) == [e \in Nodes |-> IF e \in keep THEN cs[e] ELSE {}]

(***************************************************************************)
(* Placement and the pin.                                                   *)
(***************************************************************************)
\* The emptiest cards: sort(reverse=True) of (free, index) prefers the last.
Emptiest(cs, k) ==
  LET order == [c \in 0..Cards - 1 |-> c + IF c \in Occupied(cs) THEN 0 ELSE Cards]
  IN CHOOSE s \in SUBSET (0..Cards - 1) :
       Cardinality(s) = k /\ \A a \in s, b \in (0..Cards - 1) \ s : order[a] > order[b]

Fits(cs, k) == Emptiest(cs, k) \cap Occupied(cs) = {}

Sorted(s) == SetToSortSeq(s, <)

\* _chosen_to_physical: through the variable, unless it is shorter than torch's view.
Physical(s) ==
  IF Len(env) >= Cards THEN [i \in DOMAIN Sorted(s) |-> env[Sorted(s)[i] + 1]]
                       ELSE Sorted(s)

\* _maybe_pin_cvd: ids of visible cards are kept, others index the visible
\* ones, clamped to the last.
Pin(ids) ==
  IF env = <<>> \/ ToSet(ids) \subseteq ToSet(env) THEN ids
  ELSE [i \in DOMAIN ids |-> IF ids[i] < Len(env) THEN env[ids[i] + 1] ELSE Last(env)]

\* _restore_cvd: only while the variable still holds this node's pin.
EnvAfterRestore(n) == IF prev[n] # NoPin /\ env = set[n] THEN prev[n] ELSE env
Restore(n) == env' = EnvAfterRestore(n) /\ prev' = [prev EXCEPT ![n] = NoPin]

(***************************************************************************)
(* An evaluation and its nodes.                                             *)
(***************************************************************************)
SweepNothing == cores
Sweep == Reaped(cores, pids)

EvalStarts ==
  /\ ~running /\ running' = TRUE
  /\ \A n \in Nodes : phase[n] # "garbage"     \* gc.collect
  /\ cores' = Sweep
  /\ UNCHANGED <<env, phase, prev, set, engine, slot, pids, broken>>

EvalEnds ==
  /\ running /\ InUse = {} /\ running' = FALSE
  /\ UNCHANGED <<env, phase, prev, set, cores, engine, slot, pids, broken>>

\* _adapt_engine_resources: a live engine of the same key needs no placement;
\* otherwise free cards are looked for, then the slot is cleared, then orphans
\* are reaped, and after the deadline it goes on with what there is.
Place(n) ==
  /\ running /\ InUse = {} /\ phase[n] = "new"
  /\ \A m \in Nodes : m < n => phase[m] # "new"
  /\ phase' = [phase EXCEPT ![n] = "placed"]
  /\ IF Slotted(n) /\ SlotHit(n)
     THEN UNCHANGED <<env, prev, set, cores, slot, pids>>
     ELSE LET clear == ~Fits(cores, Width[n]) /\ slot # NoNode
              c1 == IF clear THEN Cleared(cores) ELSE cores
              c2 == IF Fits(c1, Width[n]) THEN c1
                    ELSE Reaped(c1, IF clear THEN {} ELSE pids)
          IN /\ cores' = c2
             /\ slot' = (IF clear THEN NoNode ELSE slot)
             /\ pids' = (IF clear THEN {} ELSE pids)
             /\ prev' = [prev EXCEPT ![n] = env]
             /\ set' = [set EXCEPT ![n] = Pin(Physical(Emptiest(c2, Width[n])))]
             /\ env' = set'[n]
  /\ UNCHANGED <<engine, broken, running>>

\* LLM(...): its workers see the cards of the variable. It fails when it finds
\* them occupied, or for reasons of its own, with or without leaving a core.
Launched(n, cs) ==
  LET mine == {env[i] : i \in 1..(IF Len(env) < Width[n] THEN Len(env) ELSE Width[n])}
  IN IF Cardinality(mine) = Width[n] /\ mine \cap Occupied(cs) = {} THEN mine ELSE {}

\* The slot's get: the engine it holds, or a build after it was torn down.
Build(n) ==
  /\ phase[n] = "placed"
  /\ IF Slotted(n) /\ SlotHit(n)
     THEN /\ engine' = [engine EXCEPT ![n] = slot] /\ phase' = [phase EXCEPT ![n] = "built"]
          /\ UNCHANGED <<cores, slot, pids>>
     ELSE LET cs == IF Slotted(n) /\ slot # NoNode THEN Cleared(cores) ELSE cores IN
          /\ Launched(n, cs) # {}
          /\ cores' = [cs EXCEPT ![n] = Launched(n, cs)]
          /\ engine' = [engine EXCEPT ![n] = n] /\ phase' = [phase EXCEPT ![n] = "built"]
          /\ IF Slotted(n) THEN slot' = n /\ pids' = {n} ELSE UNCHANGED <<slot, pids>>
  /\ UNCHANGED <<env, prev, set, broken, running>>

\* The exception leaves run_evaluator and the evaluation; it holds the node.
Raises(n) == phase' = [phase EXCEPT ![n] = "held"] /\ running' = FALSE

\* _build_inprocess_engine restores the variable before the exception goes on.
BuildFails(n) ==
  /\ phase[n] = "placed" /\ ~(Slotted(n) /\ SlotHit(n))
  /\ LET cs == IF Slotted(n) /\ slot # NoNode THEN Cleared(cores) ELSE cores IN
     cores' \in {cs, [cs EXCEPT ![n] = Launched(n, cs)]}
  /\ IF Slotted(n) THEN slot' = NoNode /\ pids' = {} ELSE UNCHANGED <<slot, pids>>
  /\ Restore(n)
  /\ Raises(n)
  /\ UNCHANGED <<set, engine, broken>>

\* An engine-dead error: the slot is invalidated, the variable restored.
InvalidatesNothing(n) == FALSE
Invalidates(n) == Slotted(n) /\ slot # NoNode
GenerateDies(n) ==
  /\ phase[n] = "built"
  /\ broken' = broken \cup {engine[n]}
  /\ IF Invalidates(n) THEN cores' = Cleared(cores) /\ slot' = NoNode /\ pids' = {}
                       ELSE UNCHANGED <<cores, slot, pids>>
  /\ Restore(n)
  /\ Raises(n)
  /\ UNCHANGED <<set, engine>>

\* The node's call raises otherwise: out of the generation the variable is
\* restored as well, outside it nothing is undone.
CallFails(n) ==
  /\ phase[n] = "built" /\ Raises(n)
  /\ Restore(n) \/ UNCHANGED <<env, prev>>
  /\ UNCHANGED <<set, cores, engine, slot, pids, broken>>

\* __del__: an engine the slot owns is left alone; one's own is torn down and
\* the cores the slot does not keep are reaped.
Finalised(n) ==
  /\ Restore(n)
  /\ cores' = IF engine[n] = NoNode \/ Slotted(n) THEN cores ELSE Reaped(cores, pids)
  /\ phase' = [phase EXCEPT ![n] = "gone"]
  /\ UNCHANGED <<set, engine, slot, pids, broken, running>>

\* run_evaluator: del instance, gc.collect.
Drop(n) == phase[n] = "built" /\ Alive(engine[n]) /\ Finalised(n)

Release(n) ==
  /\ phase[n] = "held" /\ phase' = [phase EXCEPT ![n] = "garbage"]
  /\ UNCHANGED <<env, prev, set, cores, engine, slot, pids, broken, running>>

Collect(n) == phase[n] = "garbage" /\ Finalised(n)

CoreDies(e) ==
  /\ Alive(e) /\ cores' = [cores EXCEPT ![e] = {}]
  /\ UNCHANGED <<env, phase, prev, set, engine, slot, pids, broken, running>>

EnginesNext ==
  \/ EvalStarts \/ EvalEnds
  \/ \E n \in Nodes : \/ Place(n) \/ Build(n) \/ BuildFails(n) \/ GenerateDies(n)
                      \/ CallFails(n) \/ Drop(n) \/ Release(n) \/ Collect(n)
                      \/ CoreDies(n)

EnginesSpec == EnginesInit /\ [][EnginesNext]_enginesVars

(***************************************************************************)
(* Properties.                                                              *)
(***************************************************************************)

\* The slot never holds two engines, nor one beside a core of an engine it gave
\* up, failed to build or was told is dead (get: "two engines never co-reside").
SlotEnginesNeverCoreside ==
  Cardinality({n \in Nodes : Slotted(n) /\ Alive(n)}) <= 1

\* An engine that raised an engine-dead error is never handed out again, although
\* its process may live and pass the liveness probe.
BrokenEnginesAreNotReused ==
  [][\A n \in Nodes : engine'[n] # engine[n] => engine'[n] \notin broken]_enginesVars

=============================================================================
