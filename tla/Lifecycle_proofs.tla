--------------------------- MODULE Lifecycle_proofs ---------------------------
(***************************************************************************)
(* What outlives a run, and what the next one finds of it.                  *)
(*                                                                          *)
(* Deployment: a measured run's deployments, for any trials, keys, cards and*)
(* ports: who is held in the cache at every point of a trial, which process *)
(* groups the run has a handle of, and which port blocks they sit on.       *)
(*                                                                          *)
(* The parts of a quality evaluation that hand results from one run to the  *)
(* next, each a specification of its own: the corpus (Dataset), the store   *)
(* of answers and scores (QualityReuse), the chunk cache (ChunkCache) and   *)
(* the engine slot (QualityEngines).                                        *)
(*                                                                          *)
(* None of the invariants that TLC checks in these modules is inductive;    *)
(* each gets its strengthening here.                                        *)
(***************************************************************************)
EXTENDS Deployment, Dataset, QualityReuse, ChunkCache, QualityEngines,
        WellFoundedInduction, FiniteSetTheorems, TLAPS

-----------------------------------------------------------------------------
(***************************************************************************)
(* The invariant.                                                          *)
(***************************************************************************)
\* The cache when the main slot has key m and the aux slot key a, or none.
Filled(m, a) ==
  [vllm |-> ({m, a} \cap Keys) \ Pairs,
   pd   |-> {m, a} \cap Pairs,
   uni  |-> [s \in Slots |-> LET k == IF s = "main" THEN m ELSE a
                             IN IF k \in Pairs THEN NoKey ELSE k],
   pair |-> [s \in Slots |-> LET k == IF s = "main" THEN m ELSE a
                             IN IF k \in Pairs THEN k ELSE NoKey]]

Launching == pc \in {"register", "spawn", "health"}
Registered == pc \in {"spawn", "health"}
Serving == pc \in {"stages", "serve", "gate"}

\* How far the trial is says what the cache holds: at first nothing, the main
\* engine while the aux engine is launched, and then both.
CacheFollows ==
  /\ pc \in {"off", "idle", "warm", "prepare", "returned"} => cache = Filled(NoKey, NoKey)
  /\ Launching /\ launch.slot = "main" => cache = Filled(NoKey, NoKey)
  /\ Launching /\ launch.slot = "aux" => cache = Filled(trial.main, NoKey)
  /\ Serving => cache = Filled(trial.main, trial.aux)
  /\ \E m, a \in Keys \cup {NoKey} : cache = Filled(m, a)

Launches == [slot : Slots, key : Keys \cup {NoKey}, role : 1..2]

\* The engine being launched is the trial's, and not one the cache holds.
LaunchFollows ==
  /\ launch \in Launches
  /\ pc \notin {"off", "idle"} => trial \in Trials
  /\ Launching => \/ launch.slot = "main" /\ launch.key = trial.main
                  \/ launch.slot = "aux" /\ launch.key = trial.aux /\ trial.aux # NoKey
  /\ Launching => launch.role \in DOMAIN Roles(launch.key)
  /\ pc = "register" => launch.role = 1
  /\ Registered => launch.key \notin Held(cache)

\* In-process models and stage children are there only while their trial is.
TrialFollows ==
  /\ pc \in {"prepare", "register", "spawn", "health", "stages", "serve", "gate"} =>
       hf \in {"none", "cached"} /\ (hf = "cached" => trial.hf)
  /\ pc \in {"warm", "raise"} => hf \in {"none", "cached"}
  /\ pc = "warm" => hf = "none"
  /\ pc \notin {"stages", "serve", "raise", "finally", "returned"} => kids = 0

\* The roles of the engine being launched that have been spawned.
Spawned ==
  IF pc = "health" THEN UnitsOf(launch.key)
  ELSE IF pc = "spawn" THEN {<<launch.key, Roles(launch.key)[i]>> : i \in 1..(launch.role - 1)}
  ELSE {}

\* The run has a handle of every process group that is there: the cache's engines
\* and the one being launched.
Handles == Owned = UnitsOfAll(Held(cache)) \cup Spawned

LivePairs == (Held(cache) \cup (IF Registered THEN {launch.key} ELSE {})) \cap Pairs

\* A port block once claimed is kept, so that no live pair sits on one of a pair in
\* teardown, nor on that of another live pair.
Ports ==
  /\ corpses \subseteq claimed /\ block \in [Pairs -> Nat]
  /\ \A k \in LivePairs : block[k] \in claimed /\ block[k] \notin corpses
  /\ \A k, l \in LivePairs : block[k] = block[l] => k = l

GroupStates == [api : {"none", "booting", "up", "dead", "reaped"}, workers : BOOLEAN,
                line : {"none", "written", "read"}]
GroupTypes == group \in [Units -> GroupStates]

DeploymentInv ==
  /\ GroupTypes /\ CacheFollows /\ LaunchFollows /\ TrialFollows /\ Handles /\ Ports

-----------------------------------------------------------------------------
(***************************************************************************)
(* What the cache's operations do to it.                                   *)
(***************************************************************************)
LEMMA TrialTypes ==
  ASSUME NEW t \in Trials
  PROVE  /\ t.main \in Keys /\ t.aux \in Keys \cup {NoKey} /\ t.hf \in BOOLEAN
         /\ t.kids \in 0..2
  BY DeploymentAssumption

LEMMA FilledFacts ==
  ASSUME NEW m \in Keys \cup {NoKey}, NEW a \in Keys \cup {NoKey}
  PROVE  /\ Held(Filled(m, a)) = {m, a} \cap Keys
         /\ Serves(Filled(m, a), "main") = m /\ Serves(Filled(m, a), "aux") = a
         /\ Filled(m, NoKey).uni["aux"] = NoKey /\ Filled(m, NoKey).pair["aux"] = NoKey
         /\ Filled(NoKey, a).uni["main"] = NoKey /\ Filled(NoKey, a).pair["main"] = NoKey
         /\ EmptyCache = Filled(NoKey, NoKey)
<1>0. NoKey \notin Keys /\ NoKey \notin Pairs /\ Pairs \subseteq Keys
  BY DeploymentAssumption
<1>1. Held(Filled(m, a)) = {m, a} \cap Keys
  BY <1>0 DEF Held, Filled
<1>2. /\ Serves(Filled(m, a), "main") = m /\ Serves(Filled(m, a), "aux") = a
  BY <1>0 DEF Serves, Filled, Slots
<1>3. /\ Filled(m, NoKey).uni["aux"] = NoKey /\ Filled(m, NoKey).pair["aux"] = NoKey
      /\ Filled(NoKey, a).uni["main"] = NoKey /\ Filled(NoKey, a).pair["main"] = NoKey
  BY <1>0 DEF Filled, Slots
<1>4. EmptyCache = Filled(NoKey, NoKey)
  BY <1>0 DEF EmptyCache, Filled, Slots
<1> QED BY <1>1, <1>2, <1>3, <1>4

LEMMA NoLaunchTyped == NoLaunch \in Launches
  BY DEF NoLaunch, Launches, Slots

\* The lowest free port block exists.
LEMMA LowestBlock ==
  ASSUME NEW S \in SUBSET Nat, S # {}
  PROVE  \E x \in S : \A y \in S : x <= y
<1>1. PICK x \in S : \A y \in S : <<y, x>> \notin OpToRel(<, Nat)
  BY WFMin, NatLessThanWellFounded
<1>2. \A y \in S : ~(y < x)
  BY <1>1 DEF OpToRel
<1> QED BY <1>2

\* Nobody has to make room in a slot that is empty.
LEMMA RoomIsThere ==
  ASSUME NEW c, NEW s \in Slots, NEW k \in Keys, c.uni[s] = NoKey, c.pair[s] = NoKey
  PROVE  MakeRoom(c, s, k) = c
  BY DeploymentAssumption DEF MakeRoom, EvictPd

LEMMA BindFills ==
  ASSUME NEW m \in Keys \cup {NoKey}, NEW k \in Keys
  PROVE  /\ Bind(Filled(NoKey, NoKey), "main", k) = Filled(k, NoKey)
         /\ Bind(Filled(m, NoKey), "aux", k) = Filled(m, k)
<1>0. NoKey \notin Keys /\ NoKey \notin Pairs /\ Pairs \subseteq Keys
  BY DeploymentAssumption
<1>1. Bind(Filled(NoKey, NoKey), "main", k) = Filled(k, NoKey)
  BY <1>0 DEF Bind, Filled, Slots
<1>2. Bind(Filled(m, NoKey), "aux", k) = Filled(m, k)
  BY <1>0 DEF Bind, Filled, Slots
<1> QED BY <1>1, <1>2

LEMMA NoStaleAux ==
  ASSUME NEW m \in Keys \cup {NoKey}
  PROVE  EvictAux(Filled(m, NoKey)) = Filled(m, NoKey)
  BY FilledFacts DEF EvictAux, EvictPd

-----------------------------------------------------------------------------
(***************************************************************************)
(* Units, groups and blocks.                                               *)
(***************************************************************************)
LEMMA RolesFacts ==
  ASSUME NEW k
  PROVE  /\ Len(Roles(k)) \in 1..2 /\ DOMAIN Roles(k) = 1..Len(Roles(k))
         /\ \A i, j \in DOMAIN Roles(k) : Roles(k)[i] = Roles(k)[j] => i = j
<1>1. CASE k \in Pairs
  BY <1>1 DEF Roles
<1>2. CASE k \notin Pairs
  BY <1>2 DEF Roles
<1> QED BY <1>1, <1>2

LEMMA UnitsFacts ==
  /\ \A k : \A u \in UnitsOf(k) : u[1] = k
  /\ \A k \in Keys : UnitsOf(k) \subseteq Units
  /\ \A k : \E u : u \in UnitsOf(k)
  /\ \A K \in SUBSET Keys : UnitsOfAll(K) \subseteq Units
<1>1. ASSUME NEW k
      PROVE  \E u : u \in UnitsOf(k)
  <2>1. 1 \in DOMAIN Roles(k)
    BY RolesFacts
  <2> QED BY <2>1 DEF UnitsOf
<1> QED BY <1>1 DEF UnitsOf, Units, UnitsOfAll

LEMMA UnitsOfAllFacts ==
  ASSUME NEW K, NEW L
  PROVE  /\ UnitsOfAll(K) \ UnitsOfAll(L) = UnitsOfAll(K \ L)
         /\ UnitsOfAll(K) \cup UnitsOfAll(L) = UnitsOfAll(K \cup L)
         /\ UnitsOfAll(K) \ UnitsOfAll(K \ L) = UnitsOfAll(K \cap L)
         /\ \A u \in UnitsOfAll(K) : u[1] \in K
         /\ UnitsOfAll({}) = {}
         /\ \A k : UnitsOfAll({k}) = UnitsOf(k)
  BY UnitsFacts DEF UnitsOfAll

LEMMA ShutdownFacts ==
  ASSUME GroupTypes, NEW dead \in SUBSET Units, Shutdown(dead)
  PROVE  GroupTypes' /\ Owned' = Owned \ dead
<1>1. NoGroup \in GroupStates
  BY DEF NoGroup, GroupStates
<1>2. group' = [u \in Units |-> IF u \in dead THEN NoGroup ELSE group[u]]
  BY DEF Shutdown
<1> QED BY <1>1, <1>2 DEF GroupTypes, Owned

\* When engines are shut down, the blocks of those that are no longer live may
\* linger, and no other's.
LEMMA PortsAfterShutdown ==
  ASSUME Ports, NEW gone, Shutdown(UnitsOfAll(gone)), gone \cap Pairs \subseteq LivePairs,
         LivePairs' \subseteq LivePairs \ gone, claimed' = claimed, block' = block
  PROVE  Ports'
<1>1. corpses' \subseteq corpses \cup {block[k] : k \in gone \cap Pairs}
  BY UnitsOfAllFacts DEF Shutdown
<1> QED BY <1>1 DEF Ports

LEMMA PortsKept ==
  ASSUME Ports, LivePairs' \subseteq LivePairs, claimed' = claimed, block' = block,
         corpses' \subseteq corpses
  PROVE  Ports'
  BY DEF Ports

-----------------------------------------------------------------------------
(***************************************************************************)
(* Steps that touch neither the engines nor the cache.                     *)
(***************************************************************************)
LEMMA EngineVars ==
  ASSUME DeploymentInv, UNCHANGED <<cache, group, corpses, claimed, block>>,
         ~Registered, ~Registered'
  PROVE  GroupTypes' /\ Handles' /\ Ports' /\ (\E m, a \in Keys \cup {NoKey} : cache' = Filled(m, a))
<1>1. GroupTypes' /\ (\E m, a \in Keys \cup {NoKey} : cache' = Filled(m, a)) /\ Held(cache)' = Held(cache)
  BY DEF DeploymentInv, GroupTypes, CacheFollows, Held
<1>2. Spawned = {} /\ Spawned' = {}
  BY DEF Registered, Spawned
<1>3. Handles'
  BY <1>1, <1>2 DEF DeploymentInv, Handles, Owned
<1>4. LivePairs' = LivePairs
  BY <1>1 DEF LivePairs
<1>5. Ports'
  BY <1>4, PortsKept DEF DeploymentInv
<1> QED BY <1>1, <1>3, <1>5

LEMMA QuietSteps ==
  ASSUME DeploymentInv,
         \/ \E t \in Trials : MemoHit(t)
         \/ Warm \/ Prepare \/ BuildStage \/ Serve \/ Gate \/ Except \/ Return
  PROVE  DeploymentInv'
<1>0. /\ GroupTypes /\ CacheFollows /\ LaunchFollows /\ TrialFollows /\ Handles /\ Ports
  BY DEF DeploymentInv
<1>1. /\ UNCHANGED <<cache, group, corpses, claimed, block>> /\ ~Registered /\ ~Registered'
      /\ pc # "register"
  BY DEF MemoHit, Warm, Prepare, BuildStage, Serve, Gate, Except, Return, Raise, Registered
<1>2. GroupTypes' /\ Handles' /\ Ports' /\ (\E m, a \in Keys \cup {NoKey} : cache' = Filled(m, a))
  BY <1>1, EngineVars
<1>3. CASE \/ \E t \in Trials : MemoHit(t)
           \/ Warm \/ BuildStage \/ Serve \/ Gate \/ Except \/ Return
  <2>1. /\ pc' # "off" /\ ~Launching' /\ launch' = launch
        /\ pc' # "idle" => pc # "idle" /\ pc # "off" /\ trial' = trial
    BY <1>1, <1>3 DEF MemoHit, Warm, BuildStage, Serve, Gate, Except, Return, Raise, Launching
  <2>2. LaunchFollows'
    BY <1>0, <1>1, <2>1 DEF LaunchFollows, Launching
  <2>3. CacheFollows'
    <3>1. pc' \in {"idle", "warm", "prepare", "returned"} =>
            pc \in {"idle", "warm", "prepare", "returned"}
      BY <1>3 DEF MemoHit, Warm, BuildStage, Serve, Gate, Except, Return, Raise
    <3>2. Serving' => Serving /\ trial' = trial
      BY <1>3 DEF MemoHit, Warm, BuildStage, Serve, Gate, Except, Return, Raise, Serving
    <3> QED BY <1>0, <1>1, <1>2, <2>1, <3>1, <3>2 DEF CacheFollows
  <2>4. TrialFollows'
    <3>1. CASE \E t \in Trials : MemoHit(t)
      BY <1>0, <3>1 DEF TrialFollows, MemoHit
    <3>2. CASE Warm
      BY <1>0, <3>2 DEF TrialFollows, Warm, Raise
    <3>3. CASE BuildStage \/ Serve \/ Gate
      BY <1>0, <3>3 DEF TrialFollows, BuildStage, Serve, Gate, Raise, CloseStages
    <3>4. CASE Except \/ Return
      BY <1>0, <3>4 DEF TrialFollows, Except, Return
    <3> QED BY <1>3, <3>1, <3>2, <3>3, <3>4
  <2> QED BY <1>2, <2>2, <2>3, <2>4 DEF DeploymentInv
<1>4. CASE Prepare
  <2>1. trial \in Trials /\ pc = "prepare" /\ cache = Filled(NoKey, NoKey)
    BY <1>0, <1>4 DEF Prepare, LaunchFollows, CacheFollows
  <2>2. /\ trial' = trial /\ hf' = hf /\ kids' = kids
        /\ \/ pc' = "register" /\ launch' = [slot |-> "main", key |-> trial.main, role |-> 1]
           \/ pc' = "raise"
    BY <1>4 DEF Prepare, Raise
  <2>3. 1 \in DOMAIN Roles(trial.main) /\ launch' \in Launches
    <3>1. [slot |-> "main", key |-> trial.main, role |-> 1] \in Launches
      BY <2>1, TrialTypes DEF Launches, Slots
    <3> QED BY <1>0, <1>4, <3>1, RolesFacts DEF Prepare, LaunchFollows
  <2>4. LaunchFollows'
    BY <2>1, <2>2, <2>3 DEF LaunchFollows, Launching, Registered
  <2>5. CacheFollows'
    <3>1. cache' = Filled(NoKey, NoKey) /\ pc' \in {"register", "raise"}
      BY <1>1, <2>1, <2>2
    <3>2. pc' = "register" => launch'.slot = "main"
      BY <2>2
    <3> QED BY <1>2, <3>1, <3>2 DEF CacheFollows, Launching, Serving
  <2>6. TrialFollows'
    BY <1>0, <2>1, <2>2 DEF TrialFollows
  <2> QED BY <1>2, <2>4, <2>5, <2>6 DEF DeploymentInv
<1> QED BY <1>3, <1>4

\* An engine that changes stays owned.
LEMMA EnvironmentSteps ==
  ASSUME DeploymentInv, NEW u \in Units,
         WorkersStart(u) \/ ServerUp(u) \/ PortRace(u) \/ TeeReads(u) \/ ServerDies(u)
  PROVE  DeploymentInv'
<1>0. /\ GroupTypes /\ CacheFollows /\ LaunchFollows /\ TrialFollows /\ Handles /\ Ports
  BY DEF DeploymentInv
<1>1. group[u] \in GroupStates
  BY <1>0 DEF GroupTypes
<1>2. /\ UNCHANGED <<pc, trial, cache, launch, corpses, claimed, block, hf, kids>>
      /\ \E g \in GroupStates : /\ group' = [group EXCEPT ![u] = g]
                                /\ group[u] # NoGroup /\ g # NoGroup
  <2>1. PICK g : Environment(u, g) /\ \/ WorkersStart(u) /\ g = [group[u] EXCEPT !.workers = TRUE]
                                      \/ ServerUp(u) /\ g = [group[u] EXCEPT !.api = "up"]
                                      \/ PortRace(u) /\ g = [group[u] EXCEPT !.line = "written"]
                                      \/ TeeReads(u) /\ g = [group[u] EXCEPT !.line = "read"]
                                      \/ /\ ServerDies(u)
                                         /\ \E w \in {FALSE, group[u].workers} :
                                              g = [group[u] EXCEPT !.api = "dead", !.workers = w]
    BY DEF WorkersStart, ServerUp, PortRace, TeeReads, ServerDies
  <2>2. group[u] # NoGroup
    BY <2>1 DEF WorkersStart, ServerUp, PortRace, TeeReads, ServerDies, NoGroup
  <2>3. g \in GroupStates /\ g # NoGroup
    <3>1. CASE g = [group[u] EXCEPT !.workers = TRUE]
      BY <1>1, <3>1 DEF GroupStates, NoGroup
    <3>2. CASE g = [group[u] EXCEPT !.api = "up"]
      BY <1>1, <3>2 DEF GroupStates, NoGroup
    <3>3. CASE g = [group[u] EXCEPT !.line = "written"] \/ g = [group[u] EXCEPT !.line = "read"]
      BY <1>1, <3>3 DEF GroupStates, NoGroup
    <3>4. ASSUME NEW w \in BOOLEAN, g = [group[u] EXCEPT !.api = "dead", !.workers = w]
          PROVE  g \in GroupStates /\ g # NoGroup
      BY <1>1, <3>4 DEF GroupStates, NoGroup
    <3>5. group[u].workers \in BOOLEAN
      BY <1>1 DEF GroupStates
    <3> QED BY <2>1, <3>1, <3>2, <3>3, <3>4, <3>5
  <2> QED BY <2>1, <2>2, <2>3 DEF Environment
<1>3. GroupTypes' /\ Owned' = Owned
  BY <1>0, <1>2 DEF GroupTypes, Owned
<1>4. Spawned' = Spawned /\ LivePairs' = LivePairs /\ Held(cache)' = Held(cache)
  BY <1>2 DEF Spawned, LivePairs, Registered, Held
<1> QED BY <1>0, <1>2, <1>3, <1>4
        DEF DeploymentInv, CacheFollows, LaunchFollows, TrialFollows, Handles, Ports, Launching,
            Registered, Serving

LEMMA CorpseGoneStep ==
  ASSUME DeploymentInv, CorpseGone
  PROVE  DeploymentInv'
<1>1. /\ UNCHANGED <<pc, trial, cache, launch, group, claimed, block, hf, kids>>
      /\ corpses' \subseteq corpses
  BY DEF CorpseGone
<1>2. Spawned' = Spawned /\ LivePairs' = LivePairs /\ Held(cache)' = Held(cache) /\ Owned' = Owned
  BY <1>1 DEF Spawned, LivePairs, Registered, Held, Owned
<1> QED BY <1>1, <1>2
        DEF DeploymentInv, GroupTypes, CacheFollows, LaunchFollows, TrialFollows, Handles, Ports,
            Launching, Registered, Serving

\* A process that starts or ends owns nothing.
LEMMA EmptyProcess ==
  ASSUME cache = EmptyCache, group = [u \in Units |-> NoGroup], pc \in {"off", "idle"},
         corpses \subseteq claimed, block \in [Pairs -> Nat], kids = 0,
         launch = NoLaunch
  PROVE  DeploymentInv
<1>1. cache = Filled(NoKey, NoKey) /\ Held(cache) = {}
  BY FilledFacts, DeploymentAssumption
<1>2. GroupTypes /\ Owned = {}
  BY DEF GroupTypes, GroupStates, NoGroup, Owned
<1>3. Spawned = {} /\ LivePairs = {}
  BY <1>1 DEF Spawned, LivePairs, Registered
<1> QED BY <1>1, <1>2, <1>3, UnitsOfAllFacts, NoLaunchTyped
        DEF DeploymentInv, CacheFollows, LaunchFollows, TrialFollows, Handles, Ports, Launching,
            Registered, Serving

-----------------------------------------------------------------------------
(***************************************************************************)
(* A trial begins and ends.                                                *)
(***************************************************************************)
LEMMA HeldKeys ==
  ASSUME CacheFollows
  PROVE  Held(cache) \subseteq Keys /\ UnitsOfAll(Held(cache)) \subseteq Units
<1>1. Held(cache) \subseteq Keys
  BY FilledFacts DEF CacheFollows
<1> QED BY <1>1, UnitsFacts

LEMMA Emptied ==
  ASSUME DeploymentInv, ~Registered, ~Registered', CacheBecomes(EmptyCache), UNCHANGED block
  PROVE  /\ GroupTypes' /\ Handles' /\ Ports' /\ cache' = Filled(NoKey, NoKey)
<1>0. GroupTypes /\ CacheFollows /\ Handles /\ Ports
  BY DEF DeploymentInv
<1>1. cache' = Filled(NoKey, NoKey) /\ Held(EmptyCache) = {} /\ Held(cache') = {}
  BY FilledFacts, DeploymentAssumption DEF CacheBecomes
<1>2. Shutdown(UnitsOfAll(Held(cache))) /\ claimed' = claimed
  BY <1>1 DEF CacheBecomes, ReleasedBy
<1>3. GroupTypes' /\ Owned' = {}
  BY <1>0, <1>2, HeldKeys, ShutdownFacts DEF Handles, Spawned, Registered
<1>4. Handles'
  BY <1>1, <1>3, UnitsOfAllFacts DEF Handles, Spawned, Registered
<1>5. LivePairs' = {} /\ Held(cache) \cap Pairs \subseteq LivePairs
  BY <1>1 DEF LivePairs
<1>6. Ports'
  BY <1>0, <1>2, <1>5, PortsAfterShutdown
<1> QED BY <1>1, <1>3, <1>4, <1>6

LEMMA BeginStep ==
  ASSUME DeploymentInv, NEW t \in Trials, Begin(t)
  PROVE  DeploymentInv'
<1>1. /\ pc = "idle" /\ pc' = "warm" /\ trial' = t /\ hf' = "none"
      /\ UNCHANGED <<launch, block, kids>> /\ ~Registered /\ ~Registered'
  BY DEF Begin, EvictHf, Registered
<1>2. /\ GroupTypes' /\ Handles' /\ Ports' /\ cache' = Filled(NoKey, NoKey)
  <2>1. CASE dirty
    BY <1>1, <2>1, Emptied DEF Begin, EvictAll
  <2>2. CASE ~dirty
    <3>1. cache' = cache /\ cache = Filled(NoKey, NoKey)
      BY <1>1, <2>2 DEF Begin, DeploymentInv, CacheFollows
    <3> QED BY <1>1, <2>2, <3>1, EngineVars DEF Begin
  <2> QED BY <2>1, <2>2
<1>3. CacheFollows' /\ LaunchFollows' /\ TrialFollows'
  BY <1>1, <1>2 DEF CacheFollows, LaunchFollows, TrialFollows, DeploymentInv, Launching, Registered,
     Serving
<1> QED BY <1>2, <1>3 DEF DeploymentInv

LEMMA FinallyStep ==
  ASSUME DeploymentInv, Finally
  PROVE  DeploymentInv'
<1>1. /\ pc = "finally" /\ pc' = "returned" /\ trial' = trial /\ CacheBecomes(EmptyCache)
      /\ launch' \in Launches
      /\ UNCHANGED block /\ ~Registered /\ ~Registered'
  BY NoLaunchTyped DEF Finally, EvictAll, Registered
<1>2. /\ GroupTypes' /\ Handles' /\ Ports' /\ cache' = Filled(NoKey, NoKey)
  BY <1>1, Emptied
<1>3. CacheFollows' /\ LaunchFollows' /\ TrialFollows'
  BY <1>1, <1>2 DEF CacheFollows, LaunchFollows, TrialFollows, DeploymentInv, Launching, Registered,
     Serving
<1> QED BY <1>2, <1>3 DEF DeploymentInv

LEMMA ProcessSteps ==
  ASSUME DeploymentInv, Enter \/ Killed \/ Interrupted
  PROVE  DeploymentInv'
<1>1. CASE Enter
  <2>1. /\ pc = "off" /\ pc' = "idle"
        /\ UNCHANGED <<trial, cache, launch, group, corpses, claimed, block, kids>>
        /\ ~Registered /\ ~Registered'
    BY <1>1 DEF Enter, Registered
  <2>2. GroupTypes' /\ Handles' /\ Ports' /\ cache' = Filled(NoKey, NoKey)
    BY <2>1, EngineVars DEF DeploymentInv, CacheFollows
  <2> QED BY <2>1, <2>2 DEF DeploymentInv, CacheFollows, LaunchFollows, TrialFollows, Launching,
             Registered, Serving
<1>2. ASSUME NEW alive, ProcessEnds(alive)
      PROVE  DeploymentInv'
  <2>1. /\ cache' = EmptyCache /\ group' = [u \in Units |-> NoGroup] /\ pc' = "off"
        /\ corpses' = {} /\ claimed' = {} /\ block' = [k \in Pairs |-> 0] /\ kids' = 0
        /\ launch' \in Launches
    BY <1>2, NoLaunchTyped DEF ProcessEnds
  <2>2. cache' = Filled(NoKey, NoKey) /\ Held(cache') = {}
    BY <2>1, FilledFacts, DeploymentAssumption
  <2>3. GroupTypes' /\ Owned' = {}
    BY <2>1 DEF GroupTypes, GroupStates, NoGroup, Owned
  <2>4. Spawned' = {} /\ LivePairs' = {}
    BY <2>1, <2>2 DEF Spawned, LivePairs, Registered
  <2>5. Handles' /\ Ports'
    BY <2>1, <2>2, <2>3, <2>4, UnitsOfAllFacts DEF Handles, Ports
  <2> QED BY <2>1, <2>2, <2>3, <2>5
          DEF DeploymentInv, CacheFollows, LaunchFollows, TrialFollows, Launching, Registered, Serving
<1> QED BY <1>1, <1>2 DEF Killed, Interrupted

-----------------------------------------------------------------------------
(***************************************************************************)
(* The launch of an engine.                                                *)
(***************************************************************************)
LEMMA LaunchFacts ==
  ASSUME DeploymentInv, Launching
  PROVE  /\ trial \in Trials /\ trial.main \in Keys /\ launch.key \in Keys
         /\ launch.slot \in Slots
         /\ cache.uni[launch.slot] = NoKey /\ cache.pair[launch.slot] = NoKey
         /\ Bind(cache, launch.slot, launch.key)
              = IF launch.slot = "main" THEN Filled(trial.main, NoKey)
                                        ELSE Filled(trial.main, trial.aux)
         /\ Held(Bind(cache, launch.slot, launch.key)) = Held(cache) \cup {launch.key}
         /\ Held(cache) \subseteq Keys /\ hf \in {"none", "cached"} /\ kids = 0
<1>1. trial \in Trials /\ Held(cache) \subseteq Keys
  BY HeldKeys DEF DeploymentInv, LaunchFollows, Launching
<1>2. trial.main \in Keys /\ trial.aux \in Keys \cup {NoKey} /\ NoKey \notin Keys
  BY <1>1, TrialTypes, DeploymentAssumption
<1>3. hf \in {"none", "cached"} /\ kids = 0
  BY DEF DeploymentInv, TrialFollows, Launching
<1>4. CASE launch.slot = "main"
  <2>1. launch.key = trial.main /\ cache = Filled(NoKey, NoKey)
    BY <1>4 DEF DeploymentInv, LaunchFollows, CacheFollows
  <2>2. Bind(cache, launch.slot, launch.key) = Filled(trial.main, NoKey)
    BY <1>2, <1>4, <2>1, BindFills
  <2>3. Held(Filled(trial.main, NoKey)) = {trial.main} /\ Held(cache) = {}
    BY <1>2, <2>1, FilledFacts
  <2>4. cache.uni["main"] = NoKey /\ cache.pair["main"] = NoKey
    BY <2>1, FilledFacts
  <2> QED BY <1>1, <1>2, <1>3, <1>4, <2>1, <2>2, <2>3, <2>4 DEF Slots
<1>5. CASE launch.slot = "aux"
  <2>1. launch.key = trial.aux /\ trial.aux # NoKey /\ cache = Filled(trial.main, NoKey)
    BY <1>5 DEF DeploymentInv, LaunchFollows, CacheFollows
  <2>2. Bind(cache, launch.slot, launch.key) = Filled(trial.main, trial.aux)
    BY <1>2, <1>5, <2>1, BindFills
  <2>3. /\ Held(Filled(trial.main, trial.aux)) = {trial.main, trial.aux}
        /\ Held(cache) = {trial.main}
    BY <1>2, <2>1, FilledFacts
  <2>4. cache.uni["aux"] = NoKey /\ cache.pair["aux"] = NoKey
    BY <1>2, <2>1, FilledFacts
  <2> QED BY <1>1, <1>2, <1>3, <1>5, <2>1, <2>2, <2>3, <2>4 DEF Slots
<1> QED BY <1>4, <1>5 DEF DeploymentInv, LaunchFollows

\* An engine that is up, or was there already, joins the cache.
LEMMA Joins ==
  ASSUME DeploymentInv, Launching, AfterEngine(Bind(cache, launch.slot, launch.key)),
         Owned = UnitsOfAll(Held(cache) \cup {launch.key}), launch.key \in Held(cache) \/ Registered,
         UNCHANGED <<trial, block, hf, kids>>
  PROVE  DeploymentInv'
<1> DEFINE c == Bind(cache, launch.slot, launch.key)
<1>0. /\ GroupTypes /\ CacheFollows /\ LaunchFollows /\ TrialFollows /\ Handles /\ Ports
  BY DEF DeploymentInv
<1>1. /\ trial.main \in Keys /\ trial \in Trials /\ trial.aux \in Keys \cup {NoKey}
      /\ Held(cache) \subseteq Keys /\ launch.key \in Keys
  BY LaunchFacts, TrialTypes
<1>2. CacheBecomes(c)
  <2>1. CASE launch.slot = "main"
    BY <1>1, <2>1, LaunchFacts, NoStaleAux DEF AfterEngine
  <2>2. CASE launch.slot # "main"
    BY <2>2 DEF AfterEngine
  <2> QED BY <2>1, <2>2
<1>3. cache' = c /\ Held(c) = Held(cache) \cup {launch.key} /\ Held(cache') = Held(c)
  BY <1>2, LaunchFacts DEF CacheBecomes
<1>4. Shutdown(UnitsOfAll({})) /\ claimed' = claimed
  <2>1. Held(cache) \ Held(c) = {}
    BY <1>3
  <2> QED BY <1>2, <2>1 DEF CacheBecomes, ReleasedBy
<1>5. GroupTypes' /\ Owned' = Owned
  <2>1. UnitsOfAll({}) = {}
    BY DEF UnitsOfAll
  <2> QED BY <1>0, <1>4, <2>1, ShutdownFacts
<1>6. /\ pc' \in {"register", "stages"} /\ ~Registered'
      /\ pc' = "register" => launch.slot = "main" /\ trial.aux # NoKey
                             /\ launch' = [slot |-> "aux", key |-> trial.aux, role |-> 1]
      /\ pc' = "stages" => launch.slot = "aux" \/ trial.aux = NoKey
  BY <1>0 DEF AfterEngine, LaunchFollows, Registered
<1>7. Handles'
  BY <1>3, <1>5, <1>6 DEF Handles, Spawned, Registered
<1>8. Ports'
  <2>1. LivePairs' \subseteq LivePairs
    BY <1>3, <1>6 DEF LivePairs
  <2> QED BY <1>0, <1>4, <2>1, PortsAfterShutdown
<1>9. LaunchFollows'
  <2>1. 1 \in DOMAIN Roles(trial.aux) /\ launch' \in Launches
    <3>1. trial.aux # NoKey => [slot |-> "aux", key |-> trial.aux, role |-> 1] \in Launches
      BY <1>1 DEF Launches, Slots
    <3>2. pc' = "stages" => launch' = NoLaunch
      BY DEF AfterEngine
    <3> QED BY <1>6, <3>1, <3>2, RolesFacts, NoLaunchTyped
  <2> QED BY <1>1, <1>6, <2>1 DEF LaunchFollows, Launching, Registered
<1>10. CacheFollows'
  <2>1. CASE launch.slot = "main"
    <3>1. cache' = Filled(trial.main, NoKey)
      BY <1>3, <2>1, LaunchFacts
    <3> QED BY <1>1, <1>6, <2>1, <3>1 DEF CacheFollows, Launching, Serving
  <2>2. CASE launch.slot # "main"
    <3>1. cache' = Filled(trial.main, trial.aux)
      BY <1>3, <2>2, LaunchFacts
    <3> QED BY <1>1, <1>6, <2>2, <3>1 DEF CacheFollows, Launching, Serving
  <2> QED BY <2>1, <2>2
<1>11. TrialFollows'
  BY <1>0, <1>6 DEF TrialFollows, Launching
<1> QED BY <1>5, <1>7, <1>8, <1>9, <1>10, <1>11 DEF DeploymentInv

\* An engine not in the cache is about to be launched: a pair first claims a block
\* nobody has.
LEMMA RegisterStep ==
  ASSUME DeploymentInv, Register
  PROVE  DeploymentInv'
<1>0. /\ GroupTypes /\ CacheFollows /\ LaunchFollows /\ TrialFollows /\ Handles /\ Ports
      /\ pc = "register" /\ Launching /\ ~Registered /\ UNCHANGED <<trial, hf, kids, memo, dirty>>
  BY DEF DeploymentInv, Register, Launching, Registered
<1>1. MakeRoom(cache, launch.slot, launch.key) = cache
  BY <1>0, LaunchFacts, RoomIsThere
<1>2. CASE launch.key \in Held(cache)
  <2>1. AfterEngine(Bind(cache, launch.slot, launch.key)) /\ UNCHANGED <<trial, block, hf, kids>>
    BY <1>0, <1>1, <1>2 DEF Register
  <2>2. Held(cache) \cup {launch.key} = Held(cache) /\ Owned = UnitsOfAll(Held(cache))
    BY <1>0, <1>2 DEF Handles, Spawned
  <2> QED BY <1>0, <1>2, <2>1, <2>2, Joins
<1>3. CASE launch.key \notin Held(cache)
  <2>1. /\ cache' = cache /\ launch' = launch /\ Shutdown(UnitsOfAll({}))
        /\ \/ pc' = "raise" /\ UNCHANGED <<claimed, block>>
           \/ pc' = "spawn" /\ launch.key \notin Pairs /\ UNCHANGED <<claimed, block>>
           \/ /\ pc' = "spawn" /\ launch.key \in Pairs
              /\ \E b \in (1..Blocks) \ claimed :
                    /\ claimed' = claimed \cup {b}
                    /\ block' = [block EXCEPT ![launch.key] = b]
    <3>1. Held(cache) \ Held(cache) = {}
      OBVIOUS
    <3> DEFINE free == (1..Blocks) \ claimed
               b == CHOOSE x \in free : \A y \in free : x <= y
    <3>2. free # {} => b \in free
      <4>1. free \subseteq Nat
        BY DeploymentAssumption
      <4> QED BY <4>1, LowestBlock
    <3>3. /\ cache' = cache /\ launch' = launch /\ Shutdown(UnitsOfAll({}))
          /\ IF launch.key \in Pairs
             THEN IF free = {}
                  THEN Raise("invalid") /\ UNCHANGED <<claimed, block>>
                  ELSE /\ claimed' = claimed \cup {b}
                       /\ block' = [block EXCEPT ![launch.key] = b]
                       /\ pc' = "spawn"
             ELSE pc' = "spawn" /\ claimed' = claimed /\ UNCHANGED block
      BY <1>1, <1>3, <3>1 DEF Register, ReleasedBy
    <3> HIDE DEF b
    <3> QED BY <3>2, <3>3 DEF Raise
  <2>2. GroupTypes' /\ Owned' = Owned /\ corpses' = corpses
    <3>1. Shutdown({})
      BY <2>1 DEF UnitsOfAll
    <3>2. corpses' = corpses
      BY <3>1 DEF Shutdown
    <3> QED BY <1>0, <3>1, <3>2, ShutdownFacts
  <2>3. Held(cache') = Held(cache) /\ Spawned = {} /\ Spawned' = {}
    <3>1. pc' = "spawn" => launch'.role = 1
      BY <1>0, <2>1 DEF LaunchFollows
    <3> QED BY <1>0, <2>1, <3>1 DEF Spawned
  <2>4. Handles'
    BY <1>0, <2>2, <2>3 DEF Handles
  <2>5. CacheFollows' /\ LaunchFollows' /\ TrialFollows'
    <3>1. pc' \in {"raise", "spawn"}
      BY <2>1
    <3>2. CacheFollows'
      BY <1>0, <2>1, <3>1 DEF CacheFollows, Launching, Serving
    <3>3. LaunchFollows'
      BY <1>0, <1>3, <2>1, <2>3, <3>1 DEF LaunchFollows, Launching, Registered
    <3>4. TrialFollows'
      BY <1>0, <3>1 DEF TrialFollows
    <3> QED BY <3>2, <3>3, <3>4
  <2>6. Ports'
    <3>1. CASE UNCHANGED <<claimed, block>> /\ (pc' = "raise" \/ launch.key \notin Pairs)
      <4>1. LivePairs' \subseteq LivePairs
        BY <1>0, <2>1, <2>3, <3>1 DEF LivePairs, Registered
      <4> QED BY <1>0, <2>2, <3>1, <4>1, PortsKept
    <3>2. ASSUME launch.key \in Pairs, NEW b \in (1..Blocks) \ claimed, claimed' = claimed \cup {b},
                 block' = [block EXCEPT ![launch.key] = b]
          PROVE  Ports'
      <4>1. LivePairs' \subseteq LivePairs \cup {launch.key} /\ launch.key \notin LivePairs
        BY <1>0, <1>3, <2>1, <2>3 DEF LivePairs, Registered
      <4> QED BY <1>0, <2>2, <3>2, <4>1 DEF Ports
    <3> QED BY <2>1, <3>1, <3>2
  <2> QED BY <2>2, <2>4, <2>5, <2>6 DEF DeploymentInv
<1> QED BY <1>2, <1>3

LEMMA SpawnStep ==
  ASSUME DeploymentInv, Spawn
  PROVE  DeploymentInv'
<1>0. /\ GroupTypes /\ CacheFollows /\ LaunchFollows /\ TrialFollows /\ Handles /\ Ports
      /\ pc = "spawn" /\ Launching /\ Registered
      /\ UNCHANGED <<trial, cache, corpses, claimed, block, hf, kids>>
  BY DEF DeploymentInv, Spawn, Launching, Registered
<1>1. /\ launch.key \in Keys /\ launch.role \in 1..Len(Roles(launch.key))
      /\ Len(Roles(launch.key)) \in 1..2
  BY <1>0, LaunchFacts, RolesFacts DEF LaunchFollows
<1>2. Current \in Units
  BY <1>1, RolesFacts, UnitsFacts DEF Current, UnitsOf
<1>3. GroupTypes' /\ Owned' = Owned \cup {Current}
  <2>1. group' = [group EXCEPT ![Current] = [NoGroup EXCEPT !.api = "booting"]]
    BY DEF Spawn
  <2>2. /\ [NoGroup EXCEPT !.api = "booting"] \in GroupStates
        /\ [NoGroup EXCEPT !.api = "booting"] # NoGroup
    BY DEF NoGroup, GroupStates
  <2> QED BY <1>0, <1>2, <2>1, <2>2 DEF GroupTypes, Owned
<1>4. /\ launch'.key = launch.key /\ launch'.slot = launch.slot /\ launch' \in Launches
      /\ \/ LastRole /\ pc' = "health" /\ launch'.role = 1
         \/ ~LastRole /\ pc' = "spawn" /\ launch'.role = launch.role + 1
  <2>1. /\ launch \in Launches /\ launch.role \in Nat
        /\ IF LastRole
             THEN launch' = [launch EXCEPT !.role = 1] /\ pc' = "health"
             ELSE launch' = [launch EXCEPT !.role = launch.role + 1] /\ pc' = "spawn"
    BY <1>0, <1>1 DEF Spawn, LaunchFollows
  <2>2. ~LastRole => launch.role + 1 \in 1..2
    <3>1. \A n \in 1..2 : \A r \in 1..n : r # n => r + 1 \in 1..2
      OBVIOUS
    <3> QED BY <1>1, <3>1 DEF LastRole
  <2>3. ASSUME NEW r \in 1..2, launch' = [launch EXCEPT !.role = r]
        PROVE  /\ launch' \in Launches /\ launch'.role = r
               /\ launch'.key = launch.key /\ launch'.slot = launch.slot
    BY ONLY <2>1, <2>3 DEF Launches
  <2>4. CASE LastRole
    <3>1. launch' = [launch EXCEPT !.role = 1] /\ pc' = "health" /\ 1 \in 1..2
      BY ONLY <2>1, <2>4
    <3> QED BY <2>3, <2>4, <3>1
  <2>5. CASE ~LastRole
    <3>1. /\ launch' = [launch EXCEPT !.role = launch.role + 1] /\ pc' = "spawn"
          /\ launch.role + 1 \in 1..2
      BY ONLY <2>1, <2>2, <2>5
    <3> QED BY <2>3, <2>5, <3>1
  <2> QED BY <2>4, <2>5
<1>5. Spawned' = Spawned \cup {Current}
  <2>1. Spawned = {<<launch.key, Roles(launch.key)[i]>> : i \in 1..(launch.role - 1)}
    BY <1>0 DEF Spawned
  <2>2. CASE ~LastRole
    <3>1. Spawned' = {<<launch.key, Roles(launch.key)[i]>> : i \in 1..launch.role}
      BY <1>1, <1>4, <2>2 DEF Spawned
    <3>2. 1..launch.role = 1..(launch.role - 1) \cup {launch.role}
      BY <1>1
    <3> QED BY <2>1, <3>1, <3>2 DEF Current
  <2>3. CASE LastRole
    <3>1. Spawned' = {<<launch.key, Roles(launch.key)[i]>> : i \in DOMAIN Roles(launch.key)}
      <4>1. Spawned' = UnitsOf(launch.key)
        BY <1>4, <2>3 DEF Spawned
      <4> QED BY <4>1 DEF UnitsOf
    <3>2. 1..launch.role = 1..(launch.role - 1) \cup {launch.role}
      BY <1>1
    <3>3. DOMAIN Roles(launch.key) = 1..launch.role
      BY <2>3, RolesFacts DEF LastRole
    <3> QED BY <2>1, <3>1, <3>2, <3>3 DEF Current
  <2> QED BY <2>2, <2>3
<1>6. Handles'
  BY <1>0, <1>3, <1>5 DEF Handles, Held
<1>7. LivePairs' = LivePairs
  BY <1>0, <1>4 DEF LivePairs, Registered, Held
<1>8. Ports'
  BY <1>0, <1>7, PortsKept
<1>9. CacheFollows' /\ TrialFollows'
  BY <1>0, <1>4 DEF CacheFollows, TrialFollows, Launching, Serving
<1>10. LaunchFollows'
  <2>1. launch'.role \in DOMAIN Roles(launch.key)
    BY <1>1, <1>4, RolesFacts DEF LastRole
  <2> QED BY <1>0, <1>4, <2>1 DEF LaunchFollows, Launching, Registered, Held
<1> QED BY <1>3, <1>6, <1>8, <1>9, <1>10 DEF DeploymentInv

\* A launch that fails takes down what it had spawned, and nothing else.
LEMMA LaunchFailsStep ==
  ASSUME DeploymentInv, pc = "health", NEW why, LaunchFails(why), UNCHANGED <<trial, hf, kids>>
  PROVE  DeploymentInv'
<1>0. /\ GroupTypes /\ CacheFollows /\ LaunchFollows /\ TrialFollows /\ Handles /\ Ports
      /\ Launching /\ Registered
  BY DEF DeploymentInv, Launching, Registered
<1>1. /\ pc' = "raise" /\ UNCHANGED <<cache, block>> /\ claimed' = claimed /\ launch' = NoLaunch
      /\ Shutdown(UnitsOf(launch.key))
  BY DEF LaunchFails, Raise, ReleasedBy
<1>2. launch.key \in Keys /\ launch.key \notin Held(cache)
  BY <1>0, LaunchFacts DEF LaunchFollows
<1>3. GroupTypes' /\ Owned' = Owned \ UnitsOf(launch.key)
  BY <1>0, <1>1, <1>2, UnitsFacts, ShutdownFacts
<1>4. Handles'
  <2>1. UnitsOfAll(Held(cache)) \cap UnitsOf(launch.key) = {}
    BY <1>2, UnitsFacts, UnitsOfAllFacts
  <2>2. Owned = UnitsOfAll(Held(cache)) \cup UnitsOf(launch.key)
    BY <1>0 DEF Handles, Spawned
  <2>3. Held(cache)' = Held(cache) /\ Spawned' = {}
    BY <1>1 DEF Spawned, Held
  <2> QED BY <1>3, <2>1, <2>2, <2>3 DEF Handles
<1>5. Ports'
  <2>1. LivePairs' = LivePairs \ {launch.key} /\ {launch.key} \cap Pairs \subseteq LivePairs
    BY <1>0, <1>1, <1>2 DEF LivePairs, Registered, Held
  <2>2. Shutdown(UnitsOfAll({launch.key}))
    BY <1>1, UnitsOfAllFacts
  <2> QED BY <1>0, <1>1, <2>1, <2>2, PortsAfterShutdown
<1>6. CacheFollows' /\ LaunchFollows' /\ TrialFollows'
  BY <1>0, <1>1 DEF CacheFollows, LaunchFollows, TrialFollows, Launching, Registered, Serving,
     NoLaunch, Launches, Slots
<1> QED BY <1>3, <1>4, <1>5, <1>6 DEF DeploymentInv

LEMMA PollHealthStep ==
  ASSUME DeploymentInv, PollHealth
  PROVE  DeploymentInv'
<1>0. /\ GroupTypes /\ CacheFollows /\ LaunchFollows /\ TrialFollows /\ Handles /\ Ports
      /\ pc = "health" /\ Launching /\ Registered /\ UNCHANGED <<trial, hf, kids>>
  BY DEF DeploymentInv, PollHealth, Launching, Registered
<1>1. /\ launch.key \in Keys /\ launch.role \in 1..Len(Roles(launch.key))
      /\ Len(Roles(launch.key)) \in 1..2
  BY <1>0, LaunchFacts, RolesFacts DEF LaunchFollows
<1>2. CASE \E why : LaunchFails(why)
  BY <1>0, <1>2, LaunchFailsStep
<1>3. CASE /\ group[Current].api = "dead" /\ group' = [group EXCEPT ![Current].api = "reaped"]
           /\ UNCHANGED <<pc, cache, launch, strays, corpses, claimed, block, outcome>>
  <2>1. Current \in Units
    BY <1>1, RolesFacts, UnitsFacts DEF Current, UnitsOf
  <2>2. group[Current] \in GroupStates /\ group[Current] # NoGroup
    BY <1>0, <1>3, <2>1 DEF GroupTypes, NoGroup
  <2>3. PICK g : g = [group[Current] EXCEPT !.api = "reaped"]
    OBVIOUS
  <2>4. g \in GroupStates /\ g # NoGroup /\ group' = [group EXCEPT ![Current] = g]
    BY <1>3, <2>2, <2>3 DEF GroupStates, NoGroup
  <2>5. GroupTypes' /\ Owned' = Owned
    BY <1>0, <2>1, <2>2, <2>4 DEF GroupTypes, Owned
  <2>6. Spawned' = Spawned /\ LivePairs' = LivePairs /\ Held(cache)' = Held(cache)
    BY <1>3 DEF Spawned, LivePairs, Registered, Held
  <2> QED BY <1>0, <1>3, <2>5, <2>6
          DEF DeploymentInv, CacheFollows, LaunchFollows, TrialFollows, Handles, Ports, Launching,
              Registered, Serving
<1>4. CASE HealthOk /\ UNCHANGED <<block, outcome>>
  <2>1. CASE ~LastRole
    <3>1. /\ UNCHANGED <<pc, cache, group, corpses, claimed, block>>
          /\ launch'.key = launch.key /\ launch'.slot = launch.slot /\ launch' \in Launches
          /\ launch'.role \in DOMAIN Roles(launch.key)
      <4>1. launch \in Launches /\ launch' = [launch EXCEPT !.role = @ + 1]
        BY <1>0, <1>4, <2>1 DEF HealthOk, LaunchFollows
      <4>2. launch.role + 1 \in 1..Len(Roles(launch.key)) /\ launch.role + 1 \in 1..2
        <5>1. \A n \in 1..2 : \A r \in 1..n : r # n => r + 1 \in 1..n /\ r + 1 \in 1..2
          OBVIOUS
        <5> QED BY <1>1, <2>1, <5>1, Zenon DEF LastRole
      <4>3. launch'.key = launch.key /\ launch'.slot = launch.slot /\ launch' \in Launches
            /\ launch'.role = launch.role + 1
        BY <4>1, <4>2 DEF Launches
      <4> QED BY <1>4, <2>1, <4>2, <4>3, RolesFacts DEF HealthOk
    <3>2. Spawned' = Spawned /\ LivePairs' = LivePairs /\ Held(cache)' = Held(cache) /\ Owned' = Owned
      BY <1>0, <3>1 DEF Spawned, LivePairs, Registered, Held, Owned
    <3>3. GroupTypes' /\ Handles' /\ Ports' /\ CacheFollows' /\ TrialFollows'
      BY <1>0, <3>1, <3>2 DEF GroupTypes, Handles, Ports, CacheFollows, TrialFollows, Launching,
         Serving
    <3>4. LaunchFollows'
      BY <1>0, <3>1, <3>2 DEF LaunchFollows, Launching, Registered
    <3> QED BY <3>3, <3>4 DEF DeploymentInv
  <2>2. CASE LastRole
    <3>1. AfterEngine(Bind(cache, launch.slot, launch.key))
      BY <1>4, <2>2 DEF HealthOk
    <3>2. Owned = UnitsOfAll(Held(cache) \cup {launch.key})
      <4>1. Owned = UnitsOfAll(Held(cache)) \cup UnitsOfAll({launch.key})
        BY <1>0, UnitsOfAllFacts DEF Handles, Spawned
      <4> QED BY <4>1, UnitsOfAllFacts
    <3> QED BY <1>0, <1>4, <3>1, <3>2, Joins
  <2> QED BY <2>1, <2>2
<1> QED BY <1>2, <1>3, <1>4 DEF PollHealth

-----------------------------------------------------------------------------
(***************************************************************************)
(* The theorems.                                                           *)
(***************************************************************************)
LEMMA DeploymentInvInit == Init => DeploymentInv
  BY EmptyProcess DEF Init

LEMMA DeploymentInvStep == DeploymentInv /\ [Next]_vars => DeploymentInv'
<1> SUFFICES ASSUME DeploymentInv, [Next]_vars
             PROVE  DeploymentInv'
  OBVIOUS
<1>1. CASE UNCHANGED vars
  <2>1. /\ Spawned' = Spawned /\ LivePairs' = LivePairs /\ Held(cache)' = Held(cache)
        /\ Owned' = Owned
    BY <1>1 DEF vars, Spawned, LivePairs, Registered, Held, Owned
  <2> QED BY <1>1, <2>1
          DEF vars, DeploymentInv, GroupTypes, CacheFollows, LaunchFollows, TrialFollows, Handles,
              Ports, Launching, Registered, Serving
<1>2. CASE RunStep
  <2>1. CASE HealthTimesOut
    BY <2>1, LaunchFailsStep DEF HealthTimesOut
  <2> QED BY <1>2, <2>1, QuietSteps, RegisterStep, SpawnStep, PollHealthStep, FinallyStep DEF RunStep
<1> QED BY <1>1, <1>2, QuietSteps, BeginStep, ProcessSteps, EnvironmentSteps, CorpseGoneStep DEF Next

THEOREM DeploymentInvariant == Spec => []DeploymentInv
<1>1. Init => DeploymentInv
  BY DeploymentInvInit
<1>2. DeploymentInv /\ [Next]_vars => DeploymentInv'
  BY DeploymentInvStep
<1> QED BY <1>1, <1>2, PTL DEF Spec

\* A trial's engines are launched on cards that no engine, model or child of an earlier
\* trial holds, whatever the trials and however they ended.
THEOREM CleanSlateTheorem == Spec => []CleanSlate
<1>1. DeploymentInv => CleanSlate
  <2> SUFFICES ASSUME DeploymentInv, Launching
               PROVE  /\ Owned \subseteq UnitsOfAll({trial.main, trial.aux} \cap Keys)
                      /\ hf \in {"none", "cached"} /\ (hf = "cached" => trial.hf)
                      /\ kids = 0
    BY DEF CleanSlate, Launching
  <2>1. /\ trial.main \in Keys /\ trial.aux \in Keys \cup {NoKey} /\ launch.key \in Keys
        /\ launch.key \in {trial.main, trial.aux}
    BY LaunchFacts, TrialTypes DEF DeploymentInv, LaunchFollows
  <2>2. Held(cache) \subseteq {trial.main, trial.aux} \cap Keys
    BY <2>1, FilledFacts, DeploymentAssumption DEF DeploymentInv, CacheFollows, LaunchFollows
  <2>3. Spawned \subseteq UnitsOf(launch.key)
    BY RolesFacts DEF Spawned, UnitsOf, DeploymentInv, LaunchFollows, Launching
  <2>4. Owned \subseteq UnitsOfAll({trial.main, trial.aux} \cap Keys)
    BY <2>1, <2>2, <2>3 DEF DeploymentInv, Handles, UnitsOfAll
  <2> QED BY <2>4 DEF DeploymentInv, TrialFollows, Launching
<1> QED BY <1>1, DeploymentInvariant, PTL

\* When the service runs, each slot serves the trial's engine and the cache holds no other.
THEOREM SlotsTheorem == Spec => []SlotsServeTheTrial
<1>1. DeploymentInv => SlotsServeTheTrial
  <2> SUFFICES ASSUME DeploymentInv, pc = "serve"
               PROVE  /\ Serves(cache, "main") = trial.main /\ Serves(cache, "aux") = trial.aux
                      /\ Held(cache) = {trial.main, trial.aux} \cap Keys
                      /\ Owned = UnitsOfAll(Held(cache))
    BY DEF SlotsServeTheTrial
  <2>1. /\ trial.main \in Keys /\ trial.aux \in Keys \cup {NoKey}
        /\ cache = Filled(trial.main, trial.aux)
    BY TrialTypes DEF DeploymentInv, LaunchFollows, CacheFollows, Serving
  <2>2. Owned = UnitsOfAll(Held(cache))
    BY DEF DeploymentInv, Handles, Spawned
  <2> QED BY <2>1, <2>2, FilledFacts
<1> QED BY <1>1, DeploymentInvariant, PTL

\* Between trials no engine, no model in a slot and no child is left.
THEOREM NothingOutlivesTheorem == Spec => []NothingOutlivesATrial
<1>1. DeploymentInv => NothingOutlivesATrial
  <2>1. ASSUME DeploymentInv, pc = "idle"
        PROVE  Owned = {} /\ Held(cache) = {} /\ kids = 0
    <3>1. Held(cache) = {}
      BY <2>1, FilledFacts, DeploymentAssumption DEF DeploymentInv, CacheFollows
    <3> QED BY <2>1, <3>1, UnitsOfAllFacts DEF DeploymentInv, Handles, Spawned, TrialFollows
  <2> QED BY <2>1 DEF NothingOutlivesATrial
<1> QED BY <1>1, DeploymentInvariant, PTL

\* No pair's engines sit on the block of a pair whose engines linger in teardown.
THEOREM PortsTheorem == Spec => []NoPortOfACorpse
<1>1. DeploymentInv => NoPortOfACorpse
  <2>1. ASSUME DeploymentInv, NEW u \in Owned, u[1] \in Pairs
        PROVE  block[u[1]] \notin corpses
    <3>1. u[1] \in Held(cache) \/ (Registered /\ u[1] = launch.key)
      <4>1. u \in UnitsOfAll(Held(cache)) \/ u \in Spawned
        BY <2>1 DEF DeploymentInv, Handles
      <4>2. u \in UnitsOfAll(Held(cache)) => u[1] \in Held(cache)
        BY UnitsOfAllFacts
      <4>3. u \in Spawned => Registered /\ u[1] = launch.key
        BY UnitsFacts DEF Spawned, Registered
      <4> QED BY <4>1, <4>2, <4>3
    <3> QED BY <2>1, <3>1 DEF DeploymentInv, Ports, LivePairs
  <2> QED BY <2>1 DEF NoPortOfACorpse
<1> QED BY <1>1, DeploymentInvariant, PTL

\* Only an engine whose leader was reaped during startup goes out of the run's hands alive.
THEOREM EscapeTheorem == Spec => OnlyReapedLeadersEscape
<1>1. ASSUME DeploymentInv, [Next]_vars
      PROVE  \A u \in strays' \ strays : pc' = "off" \/ Escapes(u)
  <2>1. \A dead : Shutdown(dead) => \A u \in strays' \ strays : Escapes(u)
    BY DEF Shutdown
  <2>2. ASSUME NEW c, CacheBecomes(c)
        PROVE  \A u \in strays' \ strays : Escapes(u)
    BY <2>1, <2>2 DEF CacheBecomes
  <2>3. ASSUME NEW c, AfterEngine(c)
        PROVE  \A u \in strays' \ strays : Escapes(u)
    BY <2>2, <2>3 DEF AfterEngine
  <2>4. ASSUME NEW why, LaunchFails(why)
        PROVE  \A u \in strays' \ strays : Escapes(u)
    BY <2>1, <2>4 DEF LaunchFails
  <2>5. CASE RunStep
    <3>1. CASE Register
      BY <2>1, <2>3, <3>1 DEF Register
    <3>2. CASE PollHealth \/ HealthTimesOut
      BY <2>3, <2>4, <3>2 DEF PollHealth, HealthTimesOut, HealthOk
    <3>3. CASE Finally
      BY <2>2, <3>3 DEF Finally
    <3>4. CASE Warm \/ Prepare \/ Spawn \/ BuildStage \/ Serve \/ Gate \/ Except \/ Return
      BY <3>4 DEF Warm, Prepare, Spawn, BuildStage, Serve, Gate, Except, Return
    <3> QED BY <2>5, <3>1, <3>2, <3>3, <3>4 DEF RunStep
  <2>6. CASE Enter \/ Killed \/ Interrupted
    BY <2>6 DEF Enter, Killed, Interrupted, ProcessEnds
  <2>7. ASSUME NEW t \in Trials, MemoHit(t) \/ Begin(t)
        PROVE  \A u \in strays' \ strays : Escapes(u)
    BY <2>2, <2>7 DEF MemoHit, Begin
  <2>8. ASSUME NEW u \in Units,
               WorkersStart(u) \/ ServerUp(u) \/ PortRace(u) \/ TeeReads(u) \/ ServerDies(u)
        PROVE  strays' = strays
    BY <2>8 DEF WorkersStart, ServerUp, PortRace, TeeReads, ServerDies, Environment
  <2>9. CASE CorpseGone \/ UNCHANGED vars
    BY <2>9 DEF CorpseGone, vars
  <2> QED BY <1>1, <2>5, <2>6, <2>7, <2>8, <2>9 DEF Next
<1> QED BY <1>1, DeploymentInvariant, PTL DEF Spec, OnlyReapedLeadersEscape

\* An engine whose leader died after it printed a lost rendezvous port is retried,
\* never judged not to fit; only the deadline does not look.
THEOREM PortRaceTheorem == Spec => PortRaceIsRetryable
<1> DEFINE Told ==
      \/ outcome' = "retry" /\ group[Current].line # "none"
      \/ outcome' = "invalid" /\ (group[Current].api = "reaped" => group[Current].line = "none")
<1>1. ASSUME DeploymentInv, [Next]_vars, pc = "health", pc' = "raise"
      PROVE  Told
  <2>1. group[Current] \in GroupStates
    <3>1. launch.key \in Keys /\ launch.role \in DOMAIN Roles(launch.key)
      BY <1>1, LaunchFacts DEF DeploymentInv, LaunchFollows, Launching
    <3>2. Current \in Units
      BY <3>1, UnitsFacts DEF Current, UnitsOf
    <3> QED BY <1>1, <3>2 DEF DeploymentInv, GroupTypes
  <2>2. PollHealth \/ HealthTimesOut
    BY <1>1 DEF Next, RunStep, Enter, Killed, Interrupted, ProcessEnds, MemoHit, Begin, Warm,
       Prepare, Register, Spawn, BuildStage, Serve, Gate,
       Except, Finally, Return, WorkersStart, ServerUp, PortRace, TeeReads, ServerDies,
       Environment, CorpseGone, vars
  <2>3. CASE HealthTimesOut
    BY <2>3 DEF HealthTimesOut, LaunchFails, Raise
  <2>4. CASE PollHealth
    BY <1>1, <2>1, <2>4 DEF PollHealth, HealthOk, AfterEngine, LaunchFails, Raise, Verdict, GroupStates
  <2> QED BY <2>2, <2>3, <2>4
<1> QED BY <1>1, DeploymentInvariant, PTL DEF Spec, PortRaceIsRetryable

-----------------------------------------------------------------------------
(***************************************************************************)
(* The corpus.  An evaluation runs on the corpus it asked for, whatever copies*)
(* failed, and crashed, before: for every set of chunkings.                *)
(***************************************************************************)

Evaluating == {"resolved", "copied", "active"}

\* EvaluationsSeeTheirCorpus is not inductive: activating a view again trusts the
\* remembered key (KeyNamesFrame), activating another one the file (CopyIsRead).
DiskHasFiles == DOMAIN disk = DataFiles
ViewIsResolved == up \in Evaluating => view \in Chunkings
KeyNamesFrame == viewKey # Absent => frame = viewKey
CopyIsRead == up = "copied" => disk["corpus"] = view

DatasetInv ==
  /\ DiskHasFiles /\ ViewIsResolved /\ KeyNamesFrame /\ CopyIsRead
  /\ EvaluationsSeeTheirCorpus

\* A write to one of the files changes that file, and leaves the others there.
LEMMA WriteLemma ==
  ASSUME DiskHasFiles, NEW n \in DataFiles, NEW v, Writes(n, v)
  PROVE  DiskHasFiles' /\ disk'[n] = v
  BY DEF DiskHasFiles, Writes

\* A fresh project has no file, no frame and no view.
LEMMA DatasetInitInv == DatasetInit => DatasetInv
  BY DEF DatasetInit, DatasetInv, DiskHasFiles, ViewIsResolved, KeyNamesFrame, CopyIsRead,
         EvaluationsSeeTheirCorpus, Evaluating

\* Every step of a start, of an evaluation and of a crash keeps the invariant.
LEMMA DatasetNextInv == DatasetInv /\ [DatasetNext]_datasetVars => DatasetInv'
<1>1. SUFFICES ASSUME DatasetInv, [DatasetNext]_datasetVars PROVE DatasetInv'
  OBVIOUS
<1>2. /\ DiskHasFiles /\ ViewIsResolved /\ KeyNamesFrame /\ CopyIsRead
      /\ EvaluationsSeeTheirCorpus
  BY <1>1 DEF DatasetInv
<1> USE DEF ViewIsResolved, KeyNamesFrame, CopyIsRead, EvaluationsSeeTheirCorpus, Evaluating,
            Step, DatasetInv
<1>3. "corpus" \in DataFiles
  BY DEF DataFiles
<1>4. CASE StartResumes
  BY <1>2, <1>3, <1>4, WriteLemma DEF StartResumes
<1>5. CASE LoadProject
  BY <1>2, <1>5 DEF LoadProject, DiskHasFiles
<1>6. CASE LoadRaises \/ Ready \/ NotReady \/ EvaluationEnds
  BY <1>2, <1>6 DEF LoadRaises, Ready, NotReady, EvaluationEnds, DiskHasFiles
<1>7. CASE StartFresh
  BY <1>2, <1>7 DEF StartFresh, DiskHasFiles
<1>8. ASSUME NEW n \in DataFiles, CopyOnce(n) PROVE DatasetInv'
  <2>1. DiskHasFiles'
    BY <1>2, <1>8 DEF CopyOnce, DiskHasFiles
  <2>2. up' \notin Evaluating
    BY <1>8 DEF CopyOnce, DataFiles
  <2> QED BY <1>2, <1>8, <2>1, <2>2 DEF CopyOnce
<1>9. ASSUME NEW h \in Chunkings, Resolve(h) PROVE DatasetInv'
  BY <1>2, <1>9 DEF Resolve, DiskHasFiles
<1>10. CASE ActivateAgain
  <2>1. frame = view
    BY <1>2, <1>10, DatasetAssumption DEF ActivateAgain
  <2> QED BY <1>2, <1>10, <2>1 DEF ActivateAgain, DiskHasFiles
<1>11. CASE ActivateCopy
  <2>1. DiskHasFiles' /\ disk'["corpus"] = view
    BY <1>2, <1>3, <1>11, WriteLemma DEF ActivateCopy
  <2> QED BY <1>2, <1>11, <2>1 DEF ActivateCopy, RememberedLast
<1>12. CASE ActivateRead
  BY <1>2, <1>12 DEF ActivateRead, DiskHasFiles
<1>13. CASE ActivateRaises
  <2>1. DiskHasFiles'
    BY <1>2, <1>3, <1>13, WriteLemma DEF ActivateRaises, DiskHasFiles
  <2> QED BY <1>2, <1>13, <2>1 DEF ActivateRaises
<1>14. CASE DatasetCrash
  <2>1. DiskHasFiles'
    BY <1>2, <1>3, <1>14, WriteLemma DEF DatasetCrash, DiskHasFiles
  <2> QED BY <1>14, <2>1 DEF DatasetCrash
<1>15. CASE UNCHANGED datasetVars
  BY <1>2, <1>15 DEF datasetVars, DiskHasFiles
<1> QED
  BY <1>1, <1>4, <1>5, <1>6, <1>7, <1>8, <1>9, <1>10, <1>11, <1>12, <1>13, <1>14, <1>15
     DEF DatasetNext

\* Dataset.activate skips the copy when the view's key is the remembered one: the frame
\* of an evaluation is its own view all the same, after failures and restarts too.
THEOREM CorpusTheorem == DatasetSpec => []EvaluationsSeeTheirCorpus
<1>1. DatasetInv => EvaluationsSeeTheirCorpus
  BY DEF DatasetInv
<1> QED
  BY <1>1, DatasetInitInv, DatasetNextInv, PTL DEF DatasetSpec

-----------------------------------------------------------------------------
(***************************************************************************)
(* Answers and scores.  A score is of the answers it is returned with, for *)
(* every set of fingerprints and of metrics and any number of generations, *)
(* but for what a leftover in a caller's run directory does.                *)
(***************************************************************************)

Scores == [of : Nat, metrics : Metrics \cup {{}}]
Records == [answers : Nat, quality : Scores \cup {Nothing}, contract : {"old", "now"}]
Markers == [Dirs -> Fingerprints \cup {Nothing}]

ReuseTypes ==
  /\ record \in [Fingerprints -> Records \cup {Nothing}] /\ answers \in Nat /\ samples \in Nat
  /\ input \in [fp : Fingerprints, metrics : Metrics, dir : Dirs]
  /\ hit \in Markers /\ pending \in Markers /\ soiled \subseteq Fingerprints

\* What the store keeps was judged on the answers it keeps, unless a leftover
\* pending marker named the record.
RecordIsSound(r) == r # Nothing /\ r.quality # Nothing => r.quality.of = r.answers
StoreIsSound == \A f \in Fingerprints \ soiled : RecordIsSound(record[f])

\* A marker is found in the directory, or is of this evaluation and names its answers.
NamesTheAnswers(f) ==
  f = input.fp /\ (record[f] # Nothing => record[f].answers = answers)
HitFollows == \/ lent \/ hit[input.dir] = Nothing
              \/ step \notin {"generate", "save"} /\ NamesTheAnswers(hit[input.dir])
PendingFollows == \/ pending[input.dir] \in soiled \cup {Nothing}
                  \/ step \notin {"generate", "save"} /\ NamesTheAnswers(pending[input.dir])
MarkersNameTheAnswers ==
  /\ step \in {"generate", "save", "score"} => HitFollows /\ PendingFollows
  /\ step = "save" => ~Complete(record[input.fp])

\* A score is there only when its evaluation is over.
ScoreIsLast == score # Nothing => step = "scored"

ReuseInv ==
  /\ ReuseTypes /\ StoreIsSound /\ MarkersNameTheAnswers /\ ScoreIsLast
  /\ ScoresAreOfTheAnswers

LEMMA ReuseInitInv ==
  ASSUME ReuseInit
  PROVE  ReuseInv
<1>1. record \in [Fingerprints ->
        {Nothing, [answers |-> 0, quality |-> Scored(0, {}), contract |-> "old"]}]
  BY DEF ReuseInit
<1>2. Scored(0, {}) \in Scores /\ Scored(0, {}).of = 0
  BY DEF Scored, Scores
<1>3. [answers |-> 0, quality |-> Scored(0, {}), contract |-> "old"] \in Records
  BY <1>2 DEF Records
<1>4. record \in [Fingerprints -> Records \cup {Nothing}]
  BY <1>1, <1>3
<1>5. StoreIsSound
  BY <1>1, <1>2 DEF StoreIsSound, RecordIsSound
<1>6. ReuseTypes
  BY <1>4 DEF ReuseInit, ReuseTypes, Markers, Dirs
<1> QED
  BY <1>5, <1>6
     DEF ReuseInit, ReuseInv, MarkersNameTheAnswers, ScoreIsLast, ScoresAreOfTheAnswers

\* Writing a marker keeps its type, and says the evaluation's fingerprint, what was there or
\* nothing.
LEMMA MarkedFacts ==
  ASSUME ReuseTypes, NEW m \in Markers, NEW n \in Marked(m)
  PROVE  n \in Markers /\ n[input.dir] \in {input.fp, m[input.dir], Nothing}
<1>1. input.dir \in Dirs /\ input.fp \in Fingerprints
  BY DEF ReuseTypes
<1> QED BY <1>1 DEF Markers, Marked

\* An evaluation starts: what its directory holds is on record in the history.
LEMMA EvaluateKeepsInv ==
  ASSUME ReuseInv, NEW f \in Fingerprints, NEW w \in Metrics, NEW d \in Dirs, Evaluate(f, w, d)
  PROVE  ReuseInv'
<1>1. /\ step' = "generate" /\ input' = [fp |-> f, metrics |-> w, dir |-> d]
      /\ score' = Nothing /\ lent' = (hit'[d] # Nothing)
      /\ soiled' = soiled \cup ({pending'[d]} \ {Nothing})
      /\ UNCHANGED <<record, answers, samples>>
  BY DEF Evaluate
<1>2. hit' \in Markers /\ pending' \in Markers
  BY DEF Evaluate, Wiped, ReuseInv, ReuseTypes, Markers
<1>3. pending'[d] \in Fingerprints \cup {Nothing}
  BY <1>2 DEF Markers
<1>4. ReuseTypes'
  BY <1>1, <1>2, <1>3 DEF ReuseInv, ReuseTypes
<1>5. StoreIsSound'
  BY <1>1 DEF ReuseInv, StoreIsSound, RecordIsSound
<1>6. MarkersNameTheAnswers'
  BY <1>1 DEF MarkersNameTheAnswers, HitFollows, PendingFollows
<1> QED BY <1>1, <1>4, <1>5, <1>6 DEF ReuseInv, ScoreIsLast, ScoresAreOfTheAnswers

\* The donor's answers are the evaluation's, and the hit marker names them.
LEMMA InheritKeepsInv ==
  ASSUME ReuseInv, Inherit
  PROVE  ReuseInv'
<1>1. /\ step = "generate" /\ step' = "score" /\ Complete(record[input.fp])
      /\ answers' = record[input.fp].answers /\ hit' \in Marked(hit)
      /\ UNCHANGED <<record, pending, input, score, samples, lent, soiled>>
  BY DEF Inherit
<1>2. /\ ReuseTypes /\ StoreIsSound /\ HitFollows /\ PendingFollows /\ score = Nothing
  BY <1>1 DEF ReuseInv, MarkersNameTheAnswers, ScoreIsLast
<1>3. input.fp \in Fingerprints /\ record[input.fp] \in Records
  BY <1>1, <1>2 DEF ReuseTypes, Complete
<1>4. hit' \in Markers /\ hit'[input.dir] \in {input.fp, hit[input.dir], Nothing}
  BY <1>1, <1>2, MarkedFacts DEF ReuseTypes
<1>5. ReuseTypes'
  BY <1>1, <1>2, <1>3, <1>4 DEF ReuseTypes, Records
<1>6. StoreIsSound'
  BY <1>1, <1>2 DEF StoreIsSound, RecordIsSound
<1>7. NamesTheAnswers(input.fp)'
  BY <1>1 DEF NamesTheAnswers, Complete
<1>8. HitFollows'
  BY <1>1, <1>2, <1>4, <1>7 DEF HitFollows
<1>9. PendingFollows'
  BY <1>1, <1>2 DEF PendingFollows
<1> QED BY <1>1, <1>2, <1>5, <1>6, <1>8, <1>9
        DEF ReuseInv, MarkersNameTheAnswers, ScoreIsLast, ScoresAreOfTheAnswers

\* save_answers replaces what cannot be inherited by the new answers, without a score.
LEMMA SaveKeepsInv ==
  ASSUME ReuseInv, Save
  PROVE  ReuseInv'
<1> DEFINE new == [answers |-> answers, quality |-> Nothing, contract |-> "now"]
<1>1. /\ step = "save" /\ step' = "score" /\ pending' \in Marked(pending)
      /\ UNCHANGED <<hit, input, answers, score, samples, lent, soiled>>
      /\ record' = [record EXCEPT ![input.fp] = Saved(@, answers)]
  BY DEF Save
<1>2. /\ ReuseTypes /\ StoreIsSound /\ HitFollows /\ PendingFollows
      /\ ~Complete(record[input.fp]) /\ score = Nothing
  BY <1>1 DEF ReuseInv, MarkersNameTheAnswers, ScoreIsLast
<1>3. input.fp \in Fingerprints
  BY <1>2 DEF ReuseTypes
<1>4. record' = [record EXCEPT ![input.fp] = new]
  BY <1>1, <1>2, <1>3 DEF ReuseTypes, Saved
<1>5. new \in Records /\ RecordIsSound(new) /\ new.answers = answers
  BY <1>2 DEF ReuseTypes, Records, RecordIsSound
<1>6. pending' \in Markers /\ pending'[input.dir] \in {input.fp, pending[input.dir], Nothing}
  BY <1>1, <1>2, MarkedFacts DEF ReuseTypes
<1>7. record'[input.fp] = new
  BY <1>2, <1>3, <1>4 DEF ReuseTypes
<1> HIDE DEF new
<1>8. ReuseTypes'
  BY <1>1, <1>2, <1>4, <1>5, <1>6 DEF ReuseTypes
<1>9. StoreIsSound'
  BY <1>1, <1>2, <1>4, <1>5 DEF ReuseTypes, StoreIsSound, RecordIsSound
<1>10. HitFollows'
  BY <1>1, <1>2 DEF HitFollows
<1>11. PendingFollows'
  BY <1>1, <1>2, <1>5, <1>6, <1>7 DEF PendingFollows, NamesTheAnswers
<1> QED BY <1>1, <1>2, <1>8, <1>9, <1>10, <1>11
        DEF ReuseInv, MarkersNameTheAnswers, ScoreIsLast, ScoresAreOfTheAnswers

\* The judge's score is attached to the record of the very answers it judged, or
\* to one a leftover marker named.
LEMMA JudgeKeepsInv ==
  ASSUME ReuseInv, Judge
  PROVE  ReuseInv'
<1> DEFINE new == Scored(answers, input.metrics)
           P == pending[input.dir]
<1>1. /\ step = "score" /\ step' = "scored" /\ score' = new
      /\ UNCHANGED <<hit, pending, input, answers, samples, lent, soiled>>
      /\ \/ record' = record
         \/ P # Nothing /\ record' = [record EXCEPT ![P] = Attached(@, new)]
  BY DEF Judge
<1>2. ReuseTypes /\ StoreIsSound /\ PendingFollows
  BY <1>1 DEF ReuseInv, MarkersNameTheAnswers
<1>3. new \in Scores /\ new.of = answers
  BY <1>2 DEF ReuseTypes, Scored, Scores
<1>4. P \in Fingerprints \cup {Nothing}
  BY <1>2 DEF ReuseTypes, Markers
<1>5. P \in soiled \cup {Nothing} \/ (record[P] # Nothing => record[P].answers = answers)
  BY <1>2 DEF PendingFollows, NamesTheAnswers
<1> HIDE DEF new, P
<1>6. ReuseTypes' /\ StoreIsSound'
  <2>1. CASE record' = record
    BY <1>1, <1>2, <2>1 DEF ReuseTypes, StoreIsSound
  <2>2. CASE P # Nothing /\ record' = [record EXCEPT ![P] = Attached(@, new)]
    <3> DEFINE old == record[P]
    <3>1. P \in Fingerprints /\ old \in Records \cup {Nothing}
      BY <1>2, <1>4, <2>2 DEF ReuseTypes
    <3>2. Attached(old, new) \in Records \cup {Nothing}
      BY <1>3, <3>1 DEF Attached, Records
    <3>3. P \notin soiled => RecordIsSound(Attached(old, new))
      BY <1>2, <1>3, <1>5, <2>2, <3>1 DEF Attached, Records, RecordIsSound, StoreIsSound
    <3>4. record' = [record EXCEPT ![P] = Attached(old, new)]
      BY <2>2
    <3> HIDE DEF old
    <3>5. ReuseTypes'
      BY <1>1, <1>2, <3>1, <3>2, <3>4 DEF ReuseTypes
    <3>6. StoreIsSound'
      BY <1>1, <1>2, <3>1, <3>3, <3>4 DEF ReuseTypes, StoreIsSound
    <3> QED BY <3>5, <3>6
  <2> QED BY <1>1, <2>1, <2>2
<1> QED
  BY <1>1, <1>3, <1>6
     DEF ReuseInv, MarkersNameTheAnswers, ScoreIsLast, ScoresAreOfTheAnswers

LEMMA ReuseNextInv ==
  ASSUME ReuseInv, [ReuseNext]_reuseVars
  PROVE  ReuseInv'
<1>1. /\ ReuseTypes /\ StoreIsSound /\ MarkersNameTheAnswers /\ ScoreIsLast
      /\ ScoresAreOfTheAnswers
  BY DEF ReuseInv
<1>2. CASE Generate \/ GenerateUnkeyed
  BY <1>1, <1>2
     DEF Generate, GenerateUnkeyed, ReuseInv, ReuseTypes, StoreIsSound, MarkersNameTheAnswers,
         HitFollows, PendingFollows, ScoreIsLast, ScoresAreOfTheAnswers
<1>3. CASE SaveFails \/ Fails \/ UNCHANGED reuseVars
  BY <1>1, <1>3
     DEF SaveFails, Fails, reuseVars, ReuseInv, ReuseTypes, StoreIsSound,
         MarkersNameTheAnswers, HitFollows, PendingFollows, NamesTheAnswers, ScoreIsLast,
         ScoresAreOfTheAnswers
<1>4. CASE InheritScore
  <2>1. /\ step = "score" /\ hit[input.dir] # Nothing /\ record[hit[input.dir]] # Nothing
        /\ record[hit[input.dir]].quality # Nothing
        /\ score' = record[hit[input.dir]].quality /\ step' = "scored"
        /\ UNCHANGED <<record, hit, pending, input, answers, samples, lent, soiled>>
    BY <1>4 DEF InheritScore, Donor, Complete
  <2>2. lent \/ (hit[input.dir] = input.fp /\ record[input.fp].answers = answers)
    <3>1. HitFollows
      BY <1>1, <2>1 DEF MarkersNameTheAnswers
    <3>2. lent \/ NamesTheAnswers(hit[input.dir])
      BY <2>1, <3>1 DEF HitFollows
    <3>3. ASSUME NamesTheAnswers(hit[input.dir])
          PROVE  hit[input.dir] = input.fp /\ record[input.fp].answers = answers
      <4>1. hit[input.dir] = input.fp
        BY <3>3 DEF NamesTheAnswers
      <4>2. record[hit[input.dir]].answers = answers
        BY ONLY <2>1, <3>3 DEF NamesTheAnswers
      <4> QED BY <4>1, <4>2
    <3>4. CASE lent
      BY ONLY <3>4, Zenon
    <3>5. CASE NamesTheAnswers(hit[input.dir])
      BY ONLY <3>3, <3>5, ZenonT(30)
    <3> QED BY ONLY <3>2, <3>4, <3>5, ZenonT(30)
  <2>3. score'.of = answers \/ lent \/ input.fp \in soiled
    <3>1. CASE ~lent /\ input.fp \notin soiled
      <4>1. input.fp \in Fingerprints \ soiled /\ hit[input.dir] = input.fp
        BY <1>1, <2>2, <3>1 DEF ReuseTypes
      <4>2. RecordIsSound(record[input.fp])
        BY <1>1, <4>1 DEF StoreIsSound
      <4> QED BY <2>1, <2>2, <3>1, <4>1, <4>2 DEF RecordIsSound
    <3> QED BY <3>1
  <2> QED BY <1>1, <2>1, <2>3
          DEF ReuseInv, ReuseTypes, StoreIsSound, MarkersNameTheAnswers, ScoreIsLast,
              ScoresAreOfTheAnswers
<1> QED BY <1>2, <1>3, <1>4, EvaluateKeepsInv, InheritKeepsInv, SaveKeepsInv, JudgeKeepsInv
        DEF ReuseNext

\* gen_fingerprint's store, the markers of the run directory and a failed or repeated
\* judging give answers the scores of other answers only through what an earlier
\* evaluation left in a directory the caller gives.
THEOREM ScoresTheorem == ReuseSpec => []ScoresAreOfTheAnswers
<1>1. ReuseInv => ScoresAreOfTheAnswers
  BY DEF ReuseInv
<1> QED
  BY <1>1, ReuseInitInv, ReuseNextInv, PTL DEF ReuseSpec

-----------------------------------------------------------------------------
(***************************************************************************)
(* The chunk cache.  For any number of processes that build, complete,      *)
(* remove and open one entry without a lock.                                *)
(***************************************************************************)

\* Only the statistics are rewritten in place, under one of their two names.
EntryTypes ==
  /\ DOMAIN file = Names /\ file["corpus"] \in {Gone, "old", "new"}
  /\ handle \in [Procs -> {Gone, "tmp", "stats"}]
  /\ at \in [Procs -> {"idle", "build", "clear", "readStats", "backfill", "write", "rename",
                       "open"}]
  /\ DOMAIN served = Procs

\* An entry with ids of the old scheme says so, or has no scheme file and is incomplete:
\* a removal takes file after file, but nothing puts a scheme beside an old corpus.
OldSaysSo == file["corpus"] = "old" => file["scheme"] \in {Gone, "old"}

\* Whoever is past the completeness check, with a hit or with an entry of its own, will
\* not find an old corpus: nobody brings one back.
PastLookup == {"readStats", "backfill", "write", "rename", "open"}
NoOldBehindAHit == \A p \in Procs : at[p] \in PastLookup => file["corpus"] # "old"

ChunkInv == EntryTypes /\ OldSaysSo /\ NoOldBehindAHit /\ ServedCorpusIsCurrent

LEMMA ChunkInitInv == ChunkInit => ChunkInv
<1> SUFFICES ASSUME ChunkInit PROVE ChunkInv
  OBVIOUS
<1>1. /\ DOMAIN file = Names
      /\ file["corpus"] \in {Gone, "old", "new"} /\ file["scheme"] = file["corpus"]
  BY DEF ChunkInit, Empty, Entry, Names, Artifacts
<1> QED BY <1>1 DEF ChunkInit, ChunkInv, EntryTypes, OldSaysSo, NoOldBehindAHit, PastLookup,
                    ServedCorpusIsCurrent

\* A step that puts no corpus and no scheme in place and brings no process past the check.
LEMMA StaysServed ==
  ASSUME ChunkInv, EntryTypes', UNCHANGED served,
         file'["corpus"] \in {Gone, file["corpus"]},
         file'["scheme"] \in {Gone, file["scheme"]},
         \A p \in Procs : at'[p] \in PastLookup => at[p] \in PastLookup
  PROVE  ChunkInv'
<1>1. OldSaysSo' /\ ServedCorpusIsCurrent'
  BY ChunkAssumption DEF ChunkInv, OldSaysSo, ServedCorpusIsCurrent
<1>2. NoOldBehindAHit'
  BY ChunkAssumption DEF ChunkInv, NoOldBehindAHit
<1> QED BY <1>1, <1>2 DEF ChunkInv

\* A process that raises or is served a failure goes back to its caller.
LEMMA RaisingLemma ==
  ASSUME ChunkInv, NEW p \in Procs, NEW from, NEW bad, RaisesAt(p, from, bad)
  PROVE  ChunkInv'
<1>1. EntryTypes /\ at' = [at EXCEPT ![p] = "idle"] /\ UNCHANGED <<file, todo, handle, served>>
  BY DEF RaisesAt, Goes, Rest, ChunkInv
<1>2. EntryTypes' /\ \A q \in Procs : at'[q] \in PastLookup => at[q] \in PastLookup
  BY <1>1 DEF EntryTypes, PastLookup
<1> QED BY <1>1, <1>2, StaysServed

LEMMA ChunkNextInv == ChunkInv /\ [ChunkNext]_chunkVars => ChunkInv'
<1> SUFFICES ASSUME ChunkInv, [ChunkNext]_chunkVars PROVE ChunkInv'
  OBVIOUS
<1>1. EntryTypes /\ OldSaysSo /\ NoOldBehindAHit /\ ServedCorpusIsCurrent
  BY DEF ChunkInv
<1>2. {"corpus", "stats", "scheme", "tmp"} \subseteq Names
  BY DEF Names, Artifacts
<1>3. ASSUME NEW p \in Procs, Lookup(p) PROVE ChunkInv'
  <2>1. at[p] = "idle" /\ served' = [served EXCEPT ![p] = Gone] /\ UNCHANGED <<file, todo, handle>>
        /\ at' = [at EXCEPT ![p] = IF CompleteEntry(file) THEN "readStats" ELSE "build"]
    BY <1>3 DEF Lookup, Goes
  <2>2. CompleteEntry(file) => file["corpus"] # "old"
    BY <1>1 DEF CompleteEntry, OldSaysSo, Artifacts
  <2>3. EntryTypes' /\ OldSaysSo' /\ ServedCorpusIsCurrent'
    BY <1>1, <2>1 DEF EntryTypes, OldSaysSo, ServedCorpusIsCurrent
  <2>4. NoOldBehindAHit'
    BY <1>1, <2>1, <2>2 DEF EntryTypes, NoOldBehindAHit, PastLookup
  <2> QED BY <2>3, <2>4 DEF ChunkInv
<1>4. ASSUME NEW p \in Procs, ReadStats(p) PROVE ChunkInv'
  <2>1. CASE RaisesAt(p, "readStats", file["stats"] \in {Gone, "torn"})
    BY <2>1, RaisingLemma
  <2>2. CASE (Goes(p, "readStats", "open") \/ Goes(p, "readStats", "backfill")) /\ Rest
    BY <1>1, <2>2, StaysServed DEF Goes, Rest, EntryTypes, PastLookup
  <2> QED BY <1>4, <2>1, <2>2 DEF ReadStats
<1>5. ASSUME NEW p \in Procs, OpenTmp(p) PROVE ChunkInv'
  <2>1. CASE RaisesAt(p, "backfill", file["corpus"] = Gone)
    BY <2>1, RaisingLemma
  <2>2. CASE /\ Goes(p, "backfill", "write") /\ file' = [file EXCEPT !["tmp"] = "torn"]
             /\ handle' = [handle EXCEPT ![p] = "tmp"] /\ UNCHANGED <<todo, served>>
    BY <1>1, <1>2, <2>2, StaysServed DEF Goes, EntryTypes, PastLookup
  <2> QED BY <1>5, <2>1, <2>2 DEF OpenTmp
<1>6. ASSUME NEW p \in Procs, WriteTmp(p) PROVE ChunkInv'
  <2>1. handle[p] # Gone => handle[p] \in {"tmp", "stats"}
    BY <1>1 DEF EntryTypes
  <2>2. /\ DOMAIN file' = Names /\ file'["corpus"] = file["corpus"]
        /\ file'["scheme"] = file["scheme"]
    BY <1>1, <1>2, <1>6, <2>1 DEF WriteTmp, EntryTypes
  <2> QED BY <1>1, <1>6, <2>2, StaysServed DEF WriteTmp, Goes, EntryTypes, PastLookup
<1>7. ASSUME NEW p \in Procs, RenameTmp(p) PROVE ChunkInv'
  <2>1. CASE RaisesAt(p, "rename", file["tmp"] = Gone)
    BY <2>1, RaisingLemma
  <2>2. CASE /\ Goes(p, "rename", "open")
             /\ file' = [file EXCEPT !["stats"] = file["tmp"], !["tmp"] = Gone]
             /\ handle' = [q \in Procs |-> CASE handle[q] = "stats" -> Gone
                                             [] handle[q] = "tmp" -> "stats"
                                             [] OTHER -> handle[q]]
             /\ UNCHANGED <<todo, served>>
    <3>1. handle' \in [Procs -> {Gone, "tmp", "stats"}]
      BY <1>1, <2>2 DEF EntryTypes
    <3>2. /\ DOMAIN file' = Names /\ file'["corpus"] = file["corpus"]
          /\ file'["scheme"] = file["scheme"]
      BY <1>1, <1>2, <2>2 DEF EntryTypes
    <3> QED BY <1>1, <2>2, <3>1, <3>2, StaysServed DEF Goes, EntryTypes, PastLookup
  <2> QED BY <1>7, <2>1, <2>2 DEF RenameTmp
<1>8. ASSUME NEW p \in Procs, StartClear(p) PROVE ChunkInv'
  BY <1>1, <1>8, StaysServed DEF StartClear, Goes, EntryTypes, PastLookup
<1>9. ASSUME NEW p \in Procs, Clear(p) PROVE ChunkInv'
  <2>1. PICK n \in todo[p] :
          \/ RaisesAt(p, "clear", file[n] = Gone)
          \/ /\ file' = [file EXCEPT ![n] = Gone]
             /\ handle' = [q \in Procs |-> IF handle[q] = n THEN Gone ELSE handle[q]]
             /\ UNCHANGED <<at, served>>
    BY <1>9 DEF Clear
  <2>2. CASE RaisesAt(p, "clear", file[n] = Gone)
    BY <2>2, RaisingLemma
  <2>3. CASE /\ file' = [file EXCEPT ![n] = Gone]
             /\ handle' = [q \in Procs |-> IF handle[q] = n THEN Gone ELSE handle[q]]
             /\ UNCHANGED <<at, served>>
    <3>1. /\ DOMAIN file' = Names /\ file'["corpus"] \in {Gone, file["corpus"]}
          /\ file'["scheme"] \in {Gone, file["scheme"]}
      BY <1>1, <1>2, <2>3 DEF EntryTypes
    <3>2. handle' \in [Procs -> {Gone, "tmp", "stats"}]
      BY <1>1, <2>3 DEF EntryTypes
    <3> QED BY <1>1, <2>3, <3>1, <3>2, StaysServed DEF EntryTypes
  <2> QED BY <2>1, <2>2, <2>3
<1>10. ASSUME NEW p \in Procs, InstallEntry(p) PROVE ChunkInv'
  <2>1. CASE RaisesAt(p, "clear", file # Empty)
    BY <2>1, RaisingLemma
  <2>2. CASE /\ Goes(p, "clear", "open")
             /\ file' \in {Entry("new"), [Entry("new") EXCEPT !["stats"] = "full"]}
             /\ UNCHANGED <<todo, handle, served>>
    <3>1. DOMAIN file' = Names /\ file'["corpus"] = "new"
      BY <1>2, <2>2 DEF Entry, Names, Artifacts
    <3> QED BY <1>1, <2>2, <3>1
            DEF Goes, ChunkInv, EntryTypes, OldSaysSo, NoOldBehindAHit, ServedCorpusIsCurrent
  <2> QED BY <1>10, <2>1, <2>2 DEF InstallEntry
<1>11. ASSUME NEW p \in Procs, OpenCorpus(p) PROVE ChunkInv'
  <2>1. CASE RaisesAt(p, "open", file["corpus"] = Gone)
    BY <2>1, RaisingLemma
  <2>2. CASE /\ file["corpus"] # Gone /\ Goes(p, "open", "idle")
             /\ served' = [served EXCEPT ![p] = file["corpus"]]
             /\ UNCHANGED <<file, todo, handle>>
    <3>1. file["corpus"] = "new"
      BY <1>1, <2>2 DEF Goes, EntryTypes, NoOldBehindAHit, PastLookup
    <3> QED BY <1>1, <2>2, <3>1
            DEF Goes, ChunkInv, EntryTypes, OldSaysSo, NoOldBehindAHit, PastLookup,
                ServedCorpusIsCurrent
  <2> QED BY <1>11, <2>1, <2>2 DEF OpenCorpus
<1>12. ASSUME NEW p \in Procs, ChunkCrash(p) PROVE ChunkInv'
  BY <1>1, <1>12, StaysServed DEF ChunkCrash, EntryTypes, PastLookup
<1>13. CASE UNCHANGED chunkVars
  BY <1>1, <1>13, StaysServed DEF chunkVars, EntryTypes
<1> QED
  BY <1>3, <1>4, <1>5, <1>6, <1>7, <1>8, <1>9, <1>10, <1>11, <1>12, <1>13 DEF ChunkNext

\* Without a lock, whatever get_or_build removes, rewrites or leaves half done, nobody is
\* served a chunking of the old doc_id scheme.
THEOREM ServedCorpusTheorem == ChunkSpec => []ServedCorpusIsCurrent
<1>1. ChunkInv => ServedCorpusIsCurrent
  BY DEF ChunkInv
<1> QED
  BY <1>1, ChunkInitInv, ChunkNextInv, PTL DEF ChunkSpec

-----------------------------------------------------------------------------
(***************************************************************************)
(* The engine slot.  For any nodes, cards, keys and widths, and whenever    *)
(* the collector runs.                                                      *)
(***************************************************************************)

EngineTypes ==
  /\ DOMAIN cores = Nodes /\ engine \in [Nodes -> Nodes \cup {NoNode}]
  /\ phase \in [Nodes -> {"new", "placed", "built", "held", "garbage", "gone"}]
  /\ slot \in Nodes \cup {NoNode} /\ broken \subseteq Nodes

\* An evaluation uses one node at a time; nothing is in use between evaluations.
OneInUse ==
  /\ \A m, n \in InUse : m = n
  /\ InUse # {} => running

\* The slot has recorded the cores of the engine it holds and no others, and holds
\* engines only that are to be kept.
SlotRecords ==
  /\ pids = IF slot = NoNode THEN {} ELSE {slot}
  /\ slot # NoNode => Slotted(slot)

\* While an evaluation runs, a live engine of a slotted node is the slot's.  A build that
\* fails may leave a core the slot does not know of: the evaluation is over then, and the
\* next one starts with the sweep.
LiveIsTheSlots ==
  /\ running => \A n \in Nodes : Slotted(n) /\ Alive(n) => n = slot
  /\ \A m, n \in Nodes : Slotted(m) /\ Alive(m) /\ Slotted(n) /\ Alive(n) => m = n

\* Engine n comes into being when node n is built.
NotYet == {n \in Nodes : phase[n] \in {"new", "placed"}}
BuiltBefore ==
  /\ slot \notin NotYet /\ broken \cap NotYet = {} /\ \A n \in Nodes : engine[n] \notin NotYet
  /\ \A n \in Nodes : phase[n] = "built" =>
       engine[n] \in Nodes /\ (~Slotted(n) => engine[n] = n)

\* The slot has given up every engine it was told is dead.
SlotIsNotBroken == slot \notin broken

EnginesInv ==
  /\ EngineTypes /\ OneInUse /\ SlotRecords /\ LiveIsTheSlots /\ BuiltBefore
  /\ SlotIsNotBroken

LEMMA EnginesInitInv == EnginesInit => EnginesInv
  BY QualityEnginesAssumption
     DEF EnginesInit, EnginesInv, EngineTypes, OneInUse, SlotRecords, LiveIsTheSlots,
         BuiltBefore, SlotIsNotBroken, NotYet, InUse, Alive

\* Cores only end, the slot keeps its engine or gives it up with its cores.
LEMMA CoresEnd ==
  ASSUME EngineTypes, SlotRecords, LiveIsTheSlots, DOMAIN cores' = Nodes,
         \A n \in Nodes : cores'[n] \in {{}, cores[n]},
         \/ UNCHANGED <<slot, pids>>
         \/ slot' = NoNode /\ pids' = {} /\ (slot # NoNode => cores'[slot] = {}),
         running' => running
  PROVE  SlotRecords' /\ LiveIsTheSlots'
<1>1. \A n \in Nodes : Alive(n)' => Alive(n)
  BY DEF Alive
<1>2. SlotRecords'
  BY DEF SlotRecords, Slotted
<1>3. \A n \in Nodes : Alive(n)' /\ n = slot => n = slot'
  BY QualityEnginesAssumption DEF Alive
<1>4. \A n \in Nodes : Slotted(n)' = Slotted(n)
  BY DEF Slotted
<1> QED BY <1>1, <1>2, <1>3, <1>4 DEF LiveIsTheSlots

\* Clearing the slot ends the only live engine of a slotted node.
LEMMA ClearedLemma ==
  ASSUME EnginesInv, running
  PROVE  /\ DOMAIN Cleared(cores) = Nodes
         /\ \A n \in Nodes : Cleared(cores)[n] \in {{}, cores[n]}
         /\ slot # NoNode => Cleared(cores)[slot] = {}
         /\ \A n \in Nodes : Slotted(n) => Cleared(cores)[n] = {}
<1>1. \A n \in Nodes : Cleared(cores)[n] = IF n \in pids \cup {slot} THEN {} ELSE cores[n]
  BY DEF Cleared
<1>2. \A n \in Nodes : Slotted(n) /\ n # slot => cores[n] = {}
  BY DEF EnginesInv, LiveIsTheSlots, Alive
<1>3. DOMAIN Cleared(cores) = Nodes
  BY DEF Cleared
<1> QED BY <1>1, <1>2, <1>3 DEF EnginesInv, EngineTypes

\* A sweep keeps some engines' cores and ends the others.
LEMMA ReapedLemma ==
  ASSUME NEW cs, NEW keep
  PROVE  /\ DOMAIN Reaped(cs, keep) = Nodes
         /\ \A n \in Nodes : Reaped(cs, keep)[n] = IF n \in keep THEN cs[n] ELSE {}
  BY DEF Reaped

\* What the slot holds before a build of its own is torn down first; without a slotted
\* node the slot is not touched.
LEMMA BuildClears ==
  ASSUME EnginesInv, running, NEW n \in Nodes
  PROVE  LET cs == IF Slotted(n) /\ slot # NoNode THEN Cleared(cores) ELSE cores IN
         /\ DOMAIN cs = Nodes /\ \A m \in Nodes : cs[m] \in {{}, cores[m]}
         /\ Slotted(n) => \A m \in Nodes : Slotted(m) => cs[m] = {}
<1>1. slot = NoNode => \A m \in Nodes : Slotted(m) => cores[m] = {}
  BY QualityEnginesAssumption DEF EnginesInv, LiveIsTheSlots, Alive
<1> QED BY <1>1, ClearedLemma DEF EnginesInv, EngineTypes

LEMMA PlaceLemma ==
  ASSUME EnginesInv, NEW n \in Nodes, Place(n)
  PROVE  EnginesInv'
<1>0. /\ EngineTypes /\ OneInUse /\ SlotRecords /\ LiveIsTheSlots /\ BuiltBefore
      /\ SlotIsNotBroken
  BY DEF EnginesInv
<1>1. /\ running /\ InUse = {} /\ phase[n] = "new" /\ phase' = [phase EXCEPT ![n] = "placed"]
      /\ UNCHANGED <<engine, broken, running>>
  BY DEF Place
<1>2. /\ DOMAIN cores' = Nodes /\ \A m \in Nodes : cores'[m] \in {{}, cores[m]}
      /\ \/ UNCHANGED <<slot, pids>>
         \/ slot' = NoNode /\ pids' = {} /\ (slot # NoNode => cores'[slot] = {})
  <2>1. CASE Slotted(n) /\ SlotHit(n)
    BY <1>0, <2>1 DEF Place, EngineTypes
  <2>2. CASE ~(Slotted(n) /\ SlotHit(n))
    <3> DEFINE clear == ~Fits(cores, Width[n]) /\ slot # NoNode
               c1 == IF clear THEN Cleared(cores) ELSE cores
               keep == IF clear THEN {} ELSE pids
               c2 == IF Fits(c1, Width[n]) THEN c1 ELSE Reaped(c1, keep)
    <3>1. /\ cores' = c2 /\ slot' = (IF clear THEN NoNode ELSE slot)
          /\ pids' = (IF clear THEN {} ELSE pids)
      BY <2>2 DEF Place
    <3>2. /\ DOMAIN c1 = Nodes /\ \A m \in Nodes : c1[m] \in {{}, cores[m]}
          /\ clear => c1[slot] = {}
      BY <1>0, <1>1, ClearedLemma DEF EngineTypes
    <3> HIDE DEF c1, clear
    <3>3. /\ DOMAIN c2 = Nodes /\ \A m \in Nodes : c2[m] \in {{}, c1[m]}
      BY <3>2, ReapedLemma
    <3>4. clear => slot \in Nodes
      BY <1>0 DEF EngineTypes, clear
    <3> HIDE DEF c2
    <3> QED BY <3>1, <3>2, <3>3, <3>4
  <2> QED BY <2>1, <2>2
<1>3. SlotRecords' /\ LiveIsTheSlots'
  BY <1>0, <1>1, <1>2, CoresEnd
<1>4. EngineTypes' /\ slot' \in {slot, NoNode}
  BY <1>0, <1>1, <1>2 DEF EngineTypes
<1>5. \A m \in Nodes : /\ phase'[m] = IF m = n THEN "placed" ELSE phase[m]
                       /\ Slotted(m)' = Slotted(m)
  BY <1>0, <1>1 DEF EngineTypes, Slotted
<1>6. NotYet' = NotYet /\ InUse' = {n}
  BY <1>1, <1>5 DEF NotYet, InUse
<1>7. OneInUse'
  BY <1>1, <1>6 DEF OneInUse
<1>8. BuiltBefore' /\ SlotIsNotBroken'
  BY <1>0, <1>1, <1>4, <1>5, <1>6, QualityEnginesAssumption
     DEF BuiltBefore, SlotIsNotBroken, EngineTypes, NotYet
<1> QED BY <1>3, <1>4, <1>7, <1>8 DEF EnginesInv

\* The node that builds is the only one in use, and the evaluation runs.
LEMMA UsingLemma ==
  ASSUME EnginesInv, NEW n \in Nodes, phase[n] \in {"placed", "built"}
  PROVE  running /\ InUse = {n}
  BY DEF EnginesInv, OneInUse, InUse

LEMMA BuildLemma ==
  ASSUME EnginesInv, NEW n \in Nodes, Build(n)
  PROVE  EnginesInv' /\ engine'[n] \notin broken /\ \A m \in Nodes \ {n} : engine'[m] = engine[m]
<1>0. /\ EngineTypes /\ OneInUse /\ SlotRecords /\ LiveIsTheSlots /\ BuiltBefore
      /\ SlotIsNotBroken
  BY DEF EnginesInv
<1>1. /\ phase[n] = "placed" /\ phase' = [phase EXCEPT ![n] = "built"]
      /\ UNCHANGED <<broken, running>> /\ n \in NotYet /\ running /\ InUse = {n}
  BY UsingLemma DEF Build, NotYet
<1>2. \A m \in Nodes : /\ phase'[m] = IF m = n THEN "built" ELSE phase[m]
                       /\ Slotted(m)' = Slotted(m)
  BY <1>0, <1>1 DEF EngineTypes, Slotted
<1>3. InUse' = {n} /\ NotYet' = NotYet \ {n} /\ OneInUse'
  BY <1>1, <1>2 DEF InUse, NotYet, OneInUse
<1>4. CASE Slotted(n) /\ SlotHit(n)
  <2>1. engine' = [engine EXCEPT ![n] = slot] /\ UNCHANGED <<cores, slot, pids>>
        /\ slot \in Nodes
    BY <1>0, <1>4 DEF Build, SlotHit, EngineTypes
  <2>2. \A m \in Nodes : engine'[m] = IF m = n THEN slot ELSE engine[m]
    BY <1>0, <2>1 DEF EngineTypes
  <2>3. EngineTypes' /\ SlotRecords' /\ LiveIsTheSlots' /\ SlotIsNotBroken'
    BY <1>0, <1>1, <1>2, <2>1
       DEF EngineTypes, SlotRecords, LiveIsTheSlots, SlotIsNotBroken, Slotted, Alive
  <2>4. BuiltBefore'
    BY <1>0, <1>1, <1>2, <1>3, <1>4, <2>1, <2>2 DEF BuiltBefore
  <2> QED BY <1>0, <1>3, <2>2, <2>3, <2>4 DEF EnginesInv, SlotIsNotBroken
<1>5. CASE ~(Slotted(n) /\ SlotHit(n))
  <2> DEFINE cs == IF Slotted(n) /\ slot # NoNode THEN Cleared(cores) ELSE cores
             mine == Launched(n, cs)
  <2>1. /\ cores' = [cs EXCEPT ![n] = mine] /\ engine' = [engine EXCEPT ![n] = n]
        /\ IF Slotted(n) THEN slot' = n /\ pids' = {n} ELSE UNCHANGED <<slot, pids>>
    BY <1>5 DEF Build
  <2>2. /\ DOMAIN cs = Nodes /\ \A m \in Nodes : cs[m] \in {{}, cores[m]}
        /\ Slotted(n) => \A m \in Nodes : Slotted(m) => cs[m] = {}
    BY <1>1, BuildClears
  <2> HIDE DEF cs, mine
  <2>3. \A m \in Nodes : /\ engine'[m] = (IF m = n THEN n ELSE engine[m])
                         /\ cores'[m] = (IF m = n THEN mine ELSE cs[m])
    BY <1>0, <2>1, <2>2 DEF EngineTypes
  <2>4. EngineTypes'
    BY <1>0, <1>1, <2>1, <2>2 DEF EngineTypes
  <2>5. SlotRecords'
    BY <1>0, <1>2, <2>1, QualityEnginesAssumption DEF SlotRecords, Slotted
  <2>6. LiveIsTheSlots'
    <3>1. CASE Slotted(n)
      <4>1. \A m \in Nodes : Slotted(m)' /\ Alive(m)' => m = n
        BY <1>2, <2>2, <2>3, <3>1 DEF Alive
      <4> QED BY <2>1, <3>1, <4>1 DEF LiveIsTheSlots
    <3>2. CASE ~Slotted(n)
      <4>1. \A m \in Nodes : Slotted(m)' /\ Alive(m)' => Slotted(m) /\ Alive(m)
        BY <1>2, <2>2, <2>3, <3>2 DEF Alive
      <4> QED BY <1>0, <1>1, <2>1, <3>2, <4>1 DEF LiveIsTheSlots
    <3> QED BY <3>1, <3>2
  <2>7. n \notin broken /\ slot' \in {n, slot}
    BY <1>0, <1>1, <2>1 DEF BuiltBefore
  <2>8. BuiltBefore'
    BY <1>0, <1>1, <1>2, <1>3, <2>3, <2>7 DEF BuiltBefore
  <2>9. SlotIsNotBroken'
    BY <1>0, <1>1, <2>7 DEF SlotIsNotBroken
  <2> QED BY <1>3, <2>3, <2>4, <2>5, <2>6, <2>7, <2>8, <2>9 DEF EnginesInv
<1> QED BY <1>4, <1>5

\* A node that raises ends the evaluation and is not in use any more.
LEMMA RaisesLemma ==
  ASSUME EnginesInv, NEW n \in Nodes, phase[n] \in {"placed", "built"}, Raises(n)
  PROVE  /\ InUse' = {} /\ NotYet' = NotYet \ {n} /\ OneInUse' /\ ~running'
         /\ phase' \in [Nodes -> {"new", "placed", "built", "held", "garbage", "gone"}]
         /\ \A m \in Nodes : phase'[m] = "built" => phase[m] = "built"
         /\ \A m \in Nodes : Slotted(m)' = Slotted(m)
<1>1. \A m \in Nodes : phase'[m] = IF m = n THEN "held" ELSE phase[m]
  BY DEF Raises, EnginesInv, EngineTypes
<1>2. InUse = {n}
  BY UsingLemma
<1> QED BY <1>1, <1>2 DEF InUse, NotYet, OneInUse, Raises, EnginesInv, EngineTypes, Slotted

LEMMA BuildFailsLemma ==
  ASSUME EnginesInv, NEW n \in Nodes, BuildFails(n)
  PROVE  EnginesInv' /\ engine' = engine
<1>0. /\ EngineTypes /\ OneInUse /\ SlotRecords /\ LiveIsTheSlots /\ BuiltBefore
      /\ SlotIsNotBroken
  BY DEF EnginesInv
<1> DEFINE cs == IF Slotted(n) /\ slot # NoNode THEN Cleared(cores) ELSE cores
           mine == Launched(n, cs)
<1>1. /\ phase[n] = "placed" /\ Raises(n) /\ UNCHANGED <<engine, broken>>
      /\ cores' \in {cs, [cs EXCEPT ![n] = mine]}
      /\ IF Slotted(n) THEN slot' = NoNode /\ pids' = {} ELSE UNCHANGED <<slot, pids>>
  BY DEF BuildFails
<1>2. /\ InUse' = {} /\ NotYet' = NotYet \ {n} /\ OneInUse' /\ ~running'
      /\ phase' \in [Nodes -> {"new", "placed", "built", "held", "garbage", "gone"}]
      /\ \A m \in Nodes : phase'[m] = "built" => phase[m] = "built"
      /\ \A m \in Nodes : Slotted(m)' = Slotted(m)
  BY <1>1, RaisesLemma
<1>3. /\ DOMAIN cs = Nodes /\ \A m \in Nodes : cs[m] \in {{}, cores[m]}
      /\ Slotted(n) => \A m \in Nodes : Slotted(m) => cs[m] = {}
  BY <1>1, UsingLemma, BuildClears
<1> HIDE DEF cs, mine
<1>4. DOMAIN cores' = Nodes /\ \A m \in Nodes : m # n => cores'[m] = cs[m]
  BY <1>1, <1>3
<1>5. EngineTypes' /\ SlotRecords'
  BY <1>0, <1>1, <1>2, <1>4 DEF EngineTypes, SlotRecords
<1>6. LiveIsTheSlots'
  <2>1. CASE Slotted(n)
    <3>1. \A m \in Nodes : Slotted(m)' /\ Alive(m)' => m = n
      BY <1>2, <1>3, <1>4, <2>1 DEF Alive
    <3> QED BY <1>2, <3>1 DEF LiveIsTheSlots
  <2>2. CASE ~Slotted(n)
    <3>1. \A m \in Nodes : Slotted(m)' /\ Alive(m)' => Slotted(m) /\ Alive(m)
      BY <1>2, <1>3, <1>4, <2>2 DEF Alive
    <3> QED BY <1>0, <1>2, <3>1 DEF LiveIsTheSlots
  <2> QED BY <2>1, <2>2
<1>7. slot' \in {slot, NoNode}
  BY <1>1
<1>8. BuiltBefore' /\ SlotIsNotBroken'
  BY <1>0, <1>1, <1>2, <1>7, QualityEnginesAssumption
     DEF BuiltBefore, SlotIsNotBroken, EngineTypes, NotYet
<1> QED BY <1>1, <1>2, <1>5, <1>6, <1>8 DEF EnginesInv

\* The slot gives up the engine that died under the node, and only that can be its own.
LEMMA GenerateDiesLemma ==
  ASSUME EnginesInv, NEW n \in Nodes, GenerateDies(n)
  PROVE  EnginesInv' /\ engine' = engine
<1>0. /\ EngineTypes /\ OneInUse /\ SlotRecords /\ LiveIsTheSlots /\ BuiltBefore
      /\ SlotIsNotBroken
  BY DEF EnginesInv
<1>1. /\ phase[n] = "built" /\ Raises(n) /\ broken' = broken \cup {engine[n]}
      /\ UNCHANGED engine
      /\ IF Slotted(n) /\ slot # NoNode
         THEN cores' = Cleared(cores) /\ slot' = NoNode /\ pids' = {}
         ELSE UNCHANGED <<cores, slot, pids>>
  BY DEF GenerateDies, Invalidates
<1>2. /\ InUse' = {} /\ NotYet' = NotYet \ {n} /\ OneInUse' /\ ~running'
      /\ phase' \in [Nodes -> {"new", "placed", "built", "held", "garbage", "gone"}]
      /\ \A m \in Nodes : phase'[m] = "built" => phase[m] = "built"
      /\ \A m \in Nodes : Slotted(m)' = Slotted(m)
  BY <1>1, RaisesLemma
<1>3. running /\ engine[n] \in Nodes /\ (~Slotted(n) => engine[n] = n)
  BY <1>0, <1>1, UsingLemma DEF BuiltBefore
<1>4. /\ DOMAIN cores' = Nodes /\ \A m \in Nodes : cores'[m] \in {{}, cores[m]}
      /\ \/ UNCHANGED <<slot, pids>>
         \/ slot' = NoNode /\ pids' = {} /\ (slot # NoNode => cores'[slot] = {})
  BY <1>0, <1>1, <1>3, ClearedLemma DEF EngineTypes
<1>5. SlotRecords' /\ LiveIsTheSlots'
  BY <1>0, <1>2, <1>4, CoresEnd
<1>6. EngineTypes'
  BY <1>0, <1>1, <1>2, <1>3, <1>4 DEF EngineTypes
<1>7. SlotIsNotBroken'
  <2>1. CASE slot' = NoNode
    BY <1>0, <1>1, <1>3, <2>1, QualityEnginesAssumption DEF SlotIsNotBroken, EngineTypes
  <2>2. CASE slot' # NoNode
    BY <1>0, <1>1, <1>3, <2>2 DEF SlotIsNotBroken, SlotRecords
  <2> QED BY <2>1, <2>2
<1>8. BuiltBefore'
  <2>1. slot' \in {slot, NoNode} /\ broken' \cap NotYet' = {}
    BY <1>0, <1>1, <1>2 DEF BuiltBefore
  <2> QED BY <1>0, <1>1, <1>2, <2>1, QualityEnginesAssumption DEF BuiltBefore, NotYet
<1> QED BY <1>1, <1>2, <1>5, <1>6, <1>7, <1>8 DEF EnginesInv

\* A step that only ends cores, and takes no node into use or to its build.
LEMMA FadeLemma ==
  ASSUME EnginesInv, UNCHANGED <<engine, slot, pids, broken>>, running' => running,
         DOMAIN cores' = Nodes, \A n \in Nodes : cores'[n] \in {{}, cores[n]},
         phase' \in [Nodes -> {"new", "placed", "built", "held", "garbage", "gone"}],
         \A n \in Nodes : phase'[n] # phase[n] => phase'[n] \in {"held", "garbage", "gone"},
         InUse' # {} => running'
  PROVE  EnginesInv'
<1>0. /\ EngineTypes /\ OneInUse /\ SlotRecords /\ LiveIsTheSlots /\ BuiltBefore
      /\ SlotIsNotBroken
  BY DEF EnginesInv
<1>1. SlotRecords' /\ LiveIsTheSlots'
  BY <1>0, CoresEnd
<1>2. InUse' \subseteq InUse /\ NotYet' \subseteq NotYet
  BY DEF InUse, NotYet
<1>3. EngineTypes' /\ OneInUse' /\ SlotIsNotBroken'
  BY <1>0, <1>2 DEF EngineTypes, OneInUse, SlotIsNotBroken
<1>4. BuiltBefore'
  BY <1>0, <1>2 DEF BuiltBefore, Slotted
<1> QED BY <1>1, <1>3, <1>4 DEF EnginesInv

\* Dropped or collected, a node's finalizer leaves the slot alone.
LEMMA FinalisedLemma ==
  ASSUME EnginesInv, NEW n \in Nodes, Finalised(n)
  PROVE  EnginesInv' /\ engine' = engine
<1>0. EngineTypes /\ OneInUse
  BY DEF EnginesInv
<1>1. /\ UNCHANGED <<engine, slot, pids, broken, running>> /\ phase' = [phase EXCEPT ![n] = "gone"]
      /\ cores' \in {cores, Reaped(cores, pids)}
  BY DEF Finalised
<1>2. DOMAIN cores' = Nodes /\ \A m \in Nodes : cores'[m] \in {{}, cores[m]}
  BY <1>0, <1>1, ReapedLemma DEF EngineTypes
<1>3. \A m \in Nodes : phase'[m] = IF m = n THEN "gone" ELSE phase[m]
  BY <1>0, <1>1 DEF EngineTypes
<1>4. InUse' \subseteq InUse
  BY <1>3 DEF InUse
<1>5. EnginesInv'
  BY <1>0, <1>1, <1>2, <1>3, <1>4, FadeLemma DEF EngineTypes, OneInUse
<1> QED BY <1>1, <1>5

\* The sweep before an evaluation ends every core the slot does not keep.
LEMMA EvalStartsLemma ==
  ASSUME EnginesInv, EvalStarts
  PROVE  EnginesInv' /\ engine' = engine
<1>0. /\ EngineTypes /\ OneInUse /\ SlotRecords /\ LiveIsTheSlots /\ BuiltBefore
      /\ SlotIsNotBroken
  BY DEF EnginesInv
<1>1. /\ running' /\ ~running /\ cores' = Reaped(cores, pids)
      /\ UNCHANGED <<phase, engine, slot, pids, broken>>
  BY DEF EvalStarts, Sweep
<1>2. /\ DOMAIN cores' = Nodes
      /\ \A n \in Nodes : cores'[n] = IF n \in pids THEN cores[n] ELSE {}
  BY <1>1, ReapedLemma
<1>3. \A n \in Nodes : Alive(n)' => n = slot
  BY <1>0, <1>2 DEF SlotRecords, Alive
<1>4. LiveIsTheSlots'
  BY <1>1, <1>3 DEF LiveIsTheSlots
<1>5. /\ EngineTypes' /\ OneInUse' /\ SlotRecords' /\ BuiltBefore' /\ SlotIsNotBroken'
  BY <1>0, <1>1, <1>2
     DEF EngineTypes, OneInUse, SlotRecords, BuiltBefore, SlotIsNotBroken, InUse, NotYet, Slotted
<1> QED BY <1>1, <1>4, <1>5 DEF EnginesInv

\* Every step keeps the invariant, and hands out no broken engine.
LEMMA EnginesStep ==
  ASSUME EnginesInv, [EnginesNext]_enginesVars
  PROVE  EnginesInv' /\ \A n \in Nodes : engine'[n] # engine[n] => engine'[n] \notin broken
<1>0. EngineTypes /\ OneInUse
  BY DEF EnginesInv
<1>1. CASE EvalStarts
  BY <1>1, EvalStartsLemma
<1>2. CASE EvalEnds
  <2>1. EnginesInv'
    BY <1>0, <1>2, FadeLemma DEF EvalEnds, EngineTypes, InUse
  <2> QED BY <1>2, <2>1 DEF EvalEnds
<1>3. ASSUME NEW n \in Nodes, Place(n) PROVE EnginesInv' /\ engine' = engine
  BY <1>3, PlaceLemma DEF Place
<1>4. ASSUME NEW n \in Nodes, CallFails(n) PROVE EnginesInv' /\ engine' = engine
  <2>1. /\ UNCHANGED <<cores, engine, slot, pids, broken>> /\ Raises(n) /\ phase[n] = "built"
    BY <1>4 DEF CallFails
  <2>2. InUse' = {} /\ ~running' /\ \A m \in Nodes : phase'[m] = IF m = n THEN "held" ELSE phase[m]
    BY <1>0, <2>1, RaisesLemma DEF Raises, EngineTypes
  <2>3. phase' \in [Nodes -> {"new", "placed", "built", "held", "garbage", "gone"}]
    BY <2>1, RaisesLemma
  <2> QED BY <1>0, <2>1, <2>2, <2>3, FadeLemma DEF EngineTypes
<1>5. ASSUME NEW n \in Nodes, Release(n) PROVE EnginesInv' /\ engine' = engine
  <2>1. /\ UNCHANGED <<cores, engine, slot, pids, broken, running>>
        /\ phase[n] = "held" /\ phase' = [phase EXCEPT ![n] = "garbage"]
    BY <1>5 DEF Release
  <2>2. \A m \in Nodes : phase'[m] = IF m = n THEN "garbage" ELSE phase[m]
    BY <1>0, <2>1 DEF EngineTypes
  <2>3. InUse' \subseteq InUse
    BY <2>2 DEF InUse
  <2> QED BY <1>0, <2>1, <2>2, <2>3, FadeLemma DEF EngineTypes, OneInUse
<1>6. ASSUME NEW n \in Nodes, CoreDies(n) PROVE EnginesInv' /\ engine' = engine
  <2>1. /\ UNCHANGED <<phase, engine, slot, pids, broken, running>>
        /\ cores' = [cores EXCEPT ![n] = {}]
    BY <1>6 DEF CoreDies
  <2>2. InUse' = InUse /\ DOMAIN cores' = Nodes /\ \A m \in Nodes : cores'[m] \in {{}, cores[m]}
    BY <1>0, <2>1 DEF EngineTypes, InUse
  <2> QED BY <1>0, <2>1, <2>2, FadeLemma DEF EngineTypes, OneInUse
<1>7. CASE UNCHANGED enginesVars
  BY <1>0, <1>7, FadeLemma DEF enginesVars, EngineTypes, OneInUse, InUse
<1>8. ASSUME NEW n \in Nodes,
             BuildFails(n) \/ GenerateDies(n) \/ Drop(n) \/ Collect(n)
      PROVE  EnginesInv' /\ engine' = engine
  BY <1>8, BuildFailsLemma, GenerateDiesLemma, FinalisedLemma DEF Drop, Collect
<1>9. ASSUME NEW n \in Nodes, Build(n)
      PROVE  EnginesInv' /\ \A m \in Nodes : engine'[m] # engine[m] => engine'[m] \notin broken
  BY <1>9, BuildLemma
<1> QED
  BY <1>1, <1>2, <1>3, <1>4, <1>5, <1>6, <1>7, <1>8, <1>9, EvalStartsLemma DEF EnginesNext, EvalEnds

\* Whatever a failed build or a dead engine leaves behind, and whenever a finalizer runs,
\* no two engines of the slot's nodes have live cores.
THEOREM SlotTheorem == EnginesSpec => []SlotEnginesNeverCoreside
<1>1. EnginesInv => SlotEnginesNeverCoreside
  <2> SUFFICES ASSUME EnginesInv PROVE SlotEnginesNeverCoreside
    OBVIOUS
  <2> DEFINE live == {n \in Nodes : Slotted(n) /\ Alive(n)}
  <2>1. \A m, n \in live : m = n
    BY DEF EnginesInv, LiveIsTheSlots
  <2>2. CASE live = {}
    BY <2>2, FS_EmptySet DEF SlotEnginesNeverCoreside
  <2>3. ASSUME NEW n \in live PROVE SlotEnginesNeverCoreside
    <3>1. live = {n}
      BY <2>1, <2>3
    <3> QED BY <3>1, FS_Singleton DEF SlotEnginesNeverCoreside
  <2> QED BY <2>2, <2>3
<1>2. EnginesInv /\ [EnginesNext]_enginesVars => EnginesInv'
  BY EnginesStep
<1> QED BY <1>1, <1>2, EnginesInitInv, PTL DEF EnginesSpec

\* The slot is never asked for, and no node is given, an engine that raised an
\* engine-dead error.
THEOREM BrokenTheorem == EnginesSpec => BrokenEnginesAreNotReused
<1>1. /\ EnginesInv /\ [EnginesNext]_enginesVars => EnginesInv'
      /\ EnginesInv /\ [EnginesNext]_enginesVars =>
           [\A n \in Nodes : engine'[n] # engine[n] => engine'[n] \notin broken]_enginesVars
  BY EnginesStep
<1> QED
  BY <1>1, EnginesInitInv, PTL DEF EnginesSpec, BrokenEnginesAreNotReused
===============================================================================
