----------------------------- MODULE Deployment -----------------------------
(***************************************************************************)
(* One measured run deploying vLLM engines trial after trial: the trial     *)
(* loop of MeasuredProvider (measured/provider.py), the evaluator around it *)
(* (measured/evaluator.py), the ModelCache that owns the engines            *)
(* (measured/cache.py), the deployment manager that fills its slots         *)
(* (measured/vllm_deployment.py), the process groups the engines are        *)
(* (measured/vllm_subprocess.py, measured/vllm_pd_pair.py) and the child    *)
(* processes of the host-bound stages (measured/aux_process.py).            *)
(*                                                                          *)
(* The run is one thread, so its steps are sequential; what interleaves     *)
(* with it are the engines (booting, printing, dying), the tee threads that *)
(* read their output, and the death of the run itself.                      *)
(*                                                                          *)
(* A trial is a record: main and aux, the startup keys of the generator's   *)
(* and of the query expander's engine (aux is NoKey without expansion);     *)
(* slots, the GPU slots its layout needs; hf, whether it loads in-process   *)
(* models; kids, how many of its stages run in a child process.             *)
(***************************************************************************)
EXTENDS Naturals, Sequences, FiniteSets

CONSTANTS Trials,     \* resolved configurations the controller asks for
          Keys,       \* startup keys (VllmStartupKey, VllmPdPairKey)
          Pairs,      \* the keys of prefill/decode pairs
          NoKey,      \* Python's None, for a key and for a trial
          Gpus,       \* number of available_gpus
          Blocks      \* port blocks outside the ephemeral range: 1..Blocks

ASSUME DeploymentAssumption ==
  /\ Pairs \subseteq Keys /\ NoKey \notin Keys
  /\ Gpus \in Nat /\ Blocks \in Nat
  /\ Trials \subseteq [main : Keys, aux : Keys \cup {NoKey}, slots : Nat,
                       hf : BOOLEAN, kids : 0..2]

VARIABLES pc,       \* where the run is
          trial,    \* the trial being evaluated
          cache,    \* the ModelCache: its two engine maps and its four slots
          launch,   \* the engine being launched: its slot, key and current role
          group,    \* process group per unit (key, role): api, workers, output
          strays,   \* owned groups nobody holds a handle of, re-parented to init
          corpses,  \* port blocks of this process's pairs that were shut down
                    \* while their engines may linger in GPU teardown
          claimed,  \* port blocks this process has claimed
          block,    \* the block of each pair's latest launch, 0 before it
          hf,       \* in-process models: "none", "cached", or left by a failure
          kids,     \* live aux stage children
          memo, dirty,
          outcome   \* how evaluate is going to end

vars == <<pc, trial, cache, launch, group, strays, corpses, claimed, block, hf,
          kids, memo, dirty, outcome>>

Slots == {"main", "aux"}
Roles(k) == IF k \in Pairs THEN <<"prefill", "decode">> ELSE <<"solo">>
UnitsOf(k) == {<<k, Roles(k)[i]>> : i \in DOMAIN Roles(k)}
Units == UNION {UnitsOf(k) : k \in Keys}
NoGroup == [api |-> "none", workers |-> FALSE, line |-> "none"]
EmptyCache == [vllm |-> {}, pd |-> {}, uni |-> [s \in Slots |-> NoKey],
               pair |-> [s \in Slots |-> NoKey]]
NoLaunch == [slot |-> "main", key |-> NoKey, role |-> 1]

Init ==
  /\ pc = "off" /\ trial = NoKey /\ cache = EmptyCache /\ launch = NoLaunch
  /\ group = [u \in Units |-> NoGroup] /\ strays = {} /\ corpses = {}
  /\ claimed = {} /\ block = [k \in Pairs |-> 0]
  /\ hf = "none" /\ kids = 0 /\ memo = {} /\ dirty = FALSE /\ outcome = "none"

(***************************************************************************)
(* Process groups.                                                          *)
(***************************************************************************)

\* _kill_proc_group finds the group through the leader's pid: once poll() has
\* reaped the leader that lookup fails and only the dead leader is signalled.
Escapes(u) == group[u].workers /\ group[u].api = "reaped"

ShutdownLeaderOnly(dead) ==
  /\ group' = [u \in Units |-> IF u \in dead THEN NoGroup ELSE group[u]]
  /\ strays' = strays \cup {u \in dead : group[u].workers}
  /\ UNCHANGED corpses

\* Shutting engines down: the group is killed, its workers may linger in GPU
\* teardown (or live on, when they escape), and the handle is dropped.
Shutdown(dead) ==
  /\ group' = [u \in Units |-> IF u \in dead THEN NoGroup ELSE group[u]]
  /\ strays' = strays \cup {u \in dead : Escapes(u)}
  /\ corpses' = corpses \cup
       {block[u[1]] : u \in {v \in dead : v[1] \in Pairs /\ group[v].workers}}

ReleasedAtShutdown(dead) ==
  claimed \ {block[u[1]] : u \in {v \in dead : v[1] \in Pairs}}
ReleasedBy(dead) == claimed   \* a shutdown gives no claimed port back

Held(c) == c.vllm \cup c.pd
UnitsOfAll(keys) == UNION {UnitsOf(k) : k \in keys}

\* The cache becomes c and every engine it no longer holds is shut down.
CacheBecomes(c) ==
  /\ cache' = c
  /\ Shutdown(UnitsOfAll(Held(cache) \ Held(c)))
  /\ claimed' = ReleasedBy(UnitsOfAll(Held(cache) \ Held(c)))

Owned == {u \in Units : group[u] # NoGroup}

(***************************************************************************)
(* The ModelCache.                                                          *)
(***************************************************************************)
EvictKey(c, k) ==
  IF k \notin c.vllm THEN c
  ELSE [c EXCEPT !.vllm = @ \ {k},
                 !.uni = [s \in Slots |-> IF @[s] = k THEN NoKey ELSE @[s]]]

EvictPd(c, slot) ==
  IF c.pair[slot] = NoKey THEN c
  ELSE [c EXCEPT !.pd = @ \ {c.pair[slot]}, !.pair[slot] = NoKey]

\* evict_vllm() without a key: single servers and pairs alike.
EvictAllButPairs(c) == [EmptyCache EXCEPT !.pd = c.pd, !.pair = c.pair]
EvictAll(c) == EmptyCache

EvictAux(c) ==
  EvictPd(IF c.uni["aux"] = NoKey THEN c ELSE EvictKey(c, c.uni["aux"]), "aux")

\* What register_{main,aux}_vllm and register_{main,aux}_vllm_pd tear down
\* before they look the new key up.
MakeRoom(c, slot, k) ==
  IF k \in Pairs
  THEN LET c1 == IF c.pair[slot] = k THEN c ELSE EvictPd(c, slot)
       IN IF c1.uni[slot] = NoKey THEN c1 ELSE EvictKey(c1, c1.uni[slot])
  ELSE EvictPd(IF c.uni[slot] \in {NoKey, k} THEN c ELSE EvictKey(c, c.uni[slot]),
               slot)

BindOnlyNew(c, slot, k) ==
  IF k \in Held(c) THEN c
  ELSE IF k \in Pairs THEN [c EXCEPT !.pd = @ \cup {k}, !.pair[slot] = k]
                      ELSE [c EXCEPT !.vllm = @ \cup {k}, !.uni[slot] = k]
Bind(c, slot, k) ==
  IF k \in Pairs THEN [c EXCEPT !.pd = @ \cup {k}, !.pair[slot] = k]
                 ELSE [c EXCEPT !.vllm = @ \cup {k}, !.uni[slot] = k]

\* The engine a node finds: it asks for a pair before a single server.
Serves(c, slot) == IF c.pair[slot] # NoKey THEN c.pair[slot] ELSE c.uni[slot]

(***************************************************************************)
(* The run's process: start, and the two ways it dies.                      *)
(***************************************************************************)

\* __enter__: reclaim_orphaned_vllm kills every owned group re-parented to init.
Enter ==
  /\ pc = "off"
  /\ pc' = "idle" /\ strays' = {}
  /\ UNCHANGED <<trial, cache, launch, group, corpses, claimed, block, hf, kids,
                 memo, dirty, outcome>>

\* What every death of the process leaves: no Python state at all, the aux
\* children gone with their pipe, and the groups it had not killed orphaned.
ProcessEnds(alive) ==
  /\ pc' = "off" /\ trial' = NoKey /\ cache' = EmptyCache /\ launch' = NoLaunch
  /\ group' = [u \in Units |-> NoGroup]
  /\ strays' = strays \cup {u \in alive : group[u].workers}
  /\ corpses' = {} /\ claimed' = {} /\ block' = [k \in Pairs |-> 0]
  /\ hf' = "none" /\ kids' = 0 /\ memo' = {} /\ dirty' = FALSE /\ outcome' = "none"

\* SIGKILL or the OOM killer: no teardown runs.
Killed == pc # "off" /\ ProcessEnds(Owned)

\* A KeyboardInterrupt passes "except Exception": the teardown funnel and
\* __exit__ run, but an engine still waited for is in no cache.
Interrupted ==
  /\ pc # "off"
  /\ ProcessEnds({u \in Owned : u[1] \notin Held(cache) \/ Escapes(u)})

(***************************************************************************)
(* evaluate: memo, stale state, warm-up.                                    *)
(***************************************************************************)
MemoHit(t) ==
  /\ pc = "idle" /\ t \in memo /\ outcome # "memo"
  /\ outcome' = "memo"
  /\ UNCHANGED <<pc, trial, cache, launch, group, strays, corpses, claimed, block,
                 hf, kids, memo, dirty>>

\* gc and empty_cache return what a dead traceback no longer pins.
EvictHfSkipped(h) == h
EvictHf(h) == "none"

Begin(t) ==
  /\ pc = "idle" /\ t \notin memo
  /\ pc' = "warm" /\ trial' = t /\ outcome' = "none"
  /\ hf' = EvictHf(hf)
  /\ IF dirty THEN CacheBecomes(EvictAll(cache))
              ELSE UNCHANGED <<cache, group, strays, corpses, claimed>>
  /\ dirty' = FALSE
  /\ UNCHANGED <<launch, block, kids, memo>>

Raise(why) == pc' = "raise" /\ outcome' = why

Warm ==
  /\ pc = "warm"
  /\ hf' = IF trial.hf THEN "cached" ELSE hf
  /\ \/ pc' = "prepare" /\ UNCHANGED outcome
     \/ trial.hf /\ \E why \in {"oom", "error"} : Raise(why)
  /\ UNCHANGED <<trial, cache, launch, group, strays, corpses, claimed, block, kids,
                 memo, dirty>>

(***************************************************************************)
(* prepare_trial and the launches.                                          *)
(***************************************************************************)
Prepare ==
  /\ pc = "prepare"
  /\ IF trial.slots \in 1..Gpus
     THEN /\ pc' = "register" /\ UNCHANGED outcome
          /\ launch' = [slot |-> "main", key |-> trial.main, role |-> 1]
     ELSE Raise("invalid") /\ UNCHANGED launch
  /\ UNCHANGED <<trial, cache, group, strays, corpses, claimed, block, hf, kids,
                 memo, dirty>>

\* After the main engine: the aux engine, or the eviction of a stale one.
AfterEngine(c) ==
  IF launch.slot = "main" /\ trial.aux # NoKey
  THEN /\ pc' = "register" /\ CacheBecomes(c)
       /\ launch' = [slot |-> "aux", key |-> trial.aux, role |-> 1]
  ELSE /\ pc' = "stages" /\ launch' = NoLaunch
       /\ CacheBecomes(IF launch.slot = "main" THEN EvictAux(c) ELSE c)

Register ==
  /\ pc = "register"
  /\ LET room == MakeRoom(cache, launch.slot, launch.key) IN
     IF launch.key \in Held(room)
     THEN AfterEngine(Bind(room, launch.slot, launch.key)) /\ UNCHANGED <<block, outcome>>
     ELSE /\ cache' = room /\ UNCHANGED launch
          /\ Shutdown(UnitsOfAll(Held(cache) \ Held(room)))
          /\ IF launch.key \in Pairs
             THEN LET free == (1..Blocks) \
                          ReleasedBy(UnitsOfAll(Held(cache) \ Held(room))) IN
                  IF free = {}
                  THEN Raise("invalid") /\ UNCHANGED <<claimed, block>>
                  ELSE LET b == CHOOSE x \in free : \A y \in free : x <= y IN
                       /\ claimed' = ReleasedBy(UnitsOfAll(Held(cache) \ Held(room)))
                                       \cup {b}
                       /\ block' = [block EXCEPT ![launch.key] = b]
                       /\ pc' = "spawn" /\ UNCHANGED outcome
             ELSE /\ pc' = "spawn"
                  /\ claimed' = ReleasedBy(UnitsOfAll(Held(cache) \ Held(room)))
                  /\ UNCHANGED <<block, outcome>>
  /\ UNCHANGED <<trial, hf, kids, memo, dirty>>

Current == <<launch.key, Roles(launch.key)[launch.role]>>
LastRole == launch.role = Len(Roles(launch.key))

\* Popen of one role; a pair launches both before it waits for either.
Spawn ==
  /\ pc = "spawn"
  /\ group' = [group EXCEPT ![Current] = [NoGroup EXCEPT !.api = "booting"]]
  /\ IF LastRole THEN pc' = "health" /\ launch' = [launch EXCEPT !.role = 1]
                 ELSE launch' = [launch EXCEPT !.role = @ + 1] /\ UNCHANGED pc
  /\ UNCHANGED <<trial, cache, strays, corpses, claimed, block, hf, kids, memo,
                 dirty, outcome>>

\* __init__ failed: the engine is shut down, then the exception goes on.
LaunchFails(why) ==
  /\ Raise(why) /\ Shutdown(UnitsOf(launch.key))
  /\ launch' = NoLaunch
  /\ claimed' = ReleasedBy(UnitsOf(launch.key))
  /\ UNCHANGED <<cache, block>>

HealthOk ==
  IF ~LastRole
  THEN /\ launch' = [launch EXCEPT !.role = @ + 1]
       /\ UNCHANGED <<pc, cache, group, strays, corpses, claimed>>
  ELSE AfterEngine(Bind(cache, launch.slot, launch.key))

\* The startup died: the drained output tells a lost port from a bad deployment.
VerdictUndrained(g) == "invalid"
Verdict(g) == IF g.line = "written" THEN "retry" ELSE "invalid"

\* One turn of _wait_for_health: the printed port failure first, then a dead
\* leader (its output drained before it is judged), then GET /health.
PollHealth ==
  /\ pc = "health"
  /\ LET g == group[Current] IN
     \/ /\ g.line = "read"
        /\ LaunchFails("retry")
     \/ /\ g.line # "read" /\ g.api = "dead"     \* poll() reaps the leader
        /\ group' = [group EXCEPT ![Current].api = "reaped"]
        /\ UNCHANGED <<pc, cache, launch, strays, corpses, claimed, block, outcome>>
     \/ /\ g.line # "read" /\ g.api = "reaped"   \* the drain, the second look
        /\ LaunchFails(Verdict(g))
     \/ /\ g.line # "read" /\ g.api = "up"
        /\ HealthOk /\ UNCHANGED <<block, outcome>>
  /\ UNCHANGED <<trial, hf, kids, memo, dirty>>

NoDeadline == FALSE

\* The deadline passes between two turns: the wait gives up as it does on a dead
\* leader, but looks neither at the output nor at the server again.
HealthTimesOut ==
  /\ pc = "health" /\ group[Current].api # "reaped"
  /\ LaunchFails("invalid")
  /\ UNCHANGED <<trial, hf, kids, memo, dirty>>

(***************************************************************************)
(* The service: stages, their children, the measured run, the gate.         *)
(***************************************************************************)

\* A child process reports ready, or the stage build fails: the stages built
\* before are then only in the frame the traceback holds.
BuildStage ==
  /\ pc = "stages"
  /\ \/ kids < trial.kids /\ kids' = kids + 1 /\ UNCHANGED <<pc, outcome>>
     \/ kids < trial.kids /\ Raise("error") /\ UNCHANGED kids
     \/ kids = trial.kids /\ pc' = "serve" /\ UNCHANGED <<kids, outcome>>
  /\ UNCHANGED <<trial, cache, launch, group, strays, corpses, claimed, block, hf,
                 memo, dirty>>

CloseStages == 0

Serve ==
  /\ pc = "serve"
  /\ kids' = CloseStages
  /\ \/ pc' = "gate" /\ UNCHANGED outcome
     \/ \E why \in {"oom", "error"} : Raise(why)
  /\ UNCHANGED <<trial, cache, launch, group, strays, corpses, claimed, block, hf,
                 memo, dirty>>

\* require_measured_gt_admissible: only an admissible window is memoized; a
\* caller may ask for the inadmissible one as a diagnostic.
Gate ==
  /\ pc = "gate"
  /\ \/ pc' = "finally" /\ outcome' = "ok" /\ memo' = memo \cup {trial}
     \/ pc' = "finally" /\ outcome' = "diagnostic" /\ UNCHANGED memo
     \/ Raise("inadmissible") /\ UNCHANGED memo
  /\ UNCHANGED <<trial, cache, launch, group, strays, corpses, claimed, block, hf,
                 kids, dirty>>

(***************************************************************************)
(* except and finally.                                                      *)
(***************************************************************************)
Except ==
  /\ pc = "raise"
  /\ hf' = IF hf = "cached" THEN "pinned" ELSE hf
  /\ dirty' = TRUE /\ pc' = "finally"
  /\ outcome' = IF outcome = "oom" THEN "invalid" ELSE outcome
  /\ UNCHANGED <<trial, cache, launch, group, strays, corpses, claimed, block, kids,
                 memo>>

Finally ==
  /\ pc = "finally"
  /\ CacheBecomes(EvictAll(cache)) /\ launch' = NoLaunch /\ pc' = "returned"
  /\ UNCHANGED <<trial, block, hf, kids, memo, dirty, outcome>>

\* The controller drops the exception: the frames die, and with them the
\* children a failed build left (AuxProcessStage.__del__); the allocator keeps
\* the models' memory until the next gc and empty_cache.
Return ==
  /\ pc = "returned"
  /\ pc' = "idle" /\ trial' = NoKey /\ kids' = 0 /\ outcome' = "none"
  /\ hf' = IF hf = "pinned" THEN "hoarded" ELSE hf
  /\ UNCHANGED <<cache, launch, group, strays, corpses, claimed, block, memo, dirty>>

(***************************************************************************)
(* The engines, the tee threads, the operating system.                      *)
(***************************************************************************)
Environment(u, g) ==
  /\ group' = [group EXCEPT ![u] = g]
  /\ UNCHANGED <<pc, trial, cache, launch, strays, corpses, claimed, block, hf,
                 kids, memo, dirty, outcome>>

WorkersStart(u) ==
  group[u].api = "booting" /\ ~group[u].workers
  /\ Environment(u, [group[u] EXCEPT !.workers = TRUE])
ServerUp(u) ==
  group[u].api = "booting" /\ group[u].workers /\ group[u].line = "none"
  /\ Environment(u, [group[u] EXCEPT !.api = "up"])
\* A rank loses its rendezvous port and prints EADDRINUSE; the API process may
\* live on, waiting for it.
PortRace(u) ==
  group[u].api = "booting" /\ group[u].line = "none"
  /\ Environment(u, [group[u] EXCEPT !.line = "written"])
TeeReads(u) ==
  group[u].line = "written" /\ Environment(u, [group[u] EXCEPT !.line = "read"])
\* The API process dies; its workers may outlive it.
ServerDies(u) ==
  group[u].api \in {"booting", "up"}
  /\ \E w \in {FALSE, group[u].workers} :
       Environment(u, [group[u] EXCEPT !.api = "dead", !.workers = w])

CorpseGone ==
  /\ \E c \in corpses : corpses' = corpses \ {c}
  /\ UNCHANGED <<pc, trial, cache, launch, group, strays, claimed, block, hf, kids,
                 memo, dirty, outcome>>

RunStep ==
  \/ Warm \/ Prepare \/ Register \/ Spawn \/ PollHealth \/ HealthTimesOut
  \/ BuildStage \/ Serve \/ Gate \/ Except \/ Finally \/ Return

Next ==
  \/ Enter \/ Killed \/ Interrupted
  \/ \E t \in Trials : MemoHit(t) \/ Begin(t)
  \/ RunStep
  \/ \E u \in Units : \/ WorkersStart(u) \/ ServerUp(u) \/ PortRace(u)
                      \/ TeeReads(u) \/ ServerDies(u)
  \/ CorpseGone

Spec == Init /\ [][Next]_vars

\* The thread of the run goes on, and the health deadline of an engine that
\* never comes up passes.
FairSpec == Spec /\ WF_vars(RunStep)

(***************************************************************************)
(* Properties.                                                              *)
(***************************************************************************)
TypeOK ==
  /\ pc \in {"off", "idle", "warm", "prepare", "register", "spawn", "health",
             "stages", "serve", "gate", "raise", "finally", "returned"}
  /\ trial \in Trials \cup {NoKey}
  /\ cache \in [vllm : SUBSET (Keys \ Pairs), pd : SUBSET Pairs,
                uni : [Slots -> Keys \cup {NoKey}], pair : [Slots -> Pairs \cup {NoKey}]]
  /\ launch \in [slot : Slots, key : Keys \cup {NoKey}, role : 1..2]
  /\ group \in [Units -> [api : {"none", "booting", "up", "dead", "reaped"},
                          workers : BOOLEAN, line : {"none", "written", "read"}]]
  /\ strays \subseteq Units /\ corpses \subseteq 1..Blocks
  /\ claimed \subseteq 1..Blocks /\ block \in [Pairs -> 0..Blocks]
  /\ hf \in {"none", "cached", "pinned", "hoarded"} /\ kids \in 0..2
  /\ memo \subseteq Trials /\ dirty \in BOOLEAN
  /\ outcome \in {"none", "memo", "ok", "diagnostic", "inadmissible", "invalid",
                  "retry", "oom", "error"}

\* While a trial's engines are launched and sized, nothing of an earlier trial
\* that the run knows of holds a card: no engine but the trial's own, no model
\* of a failed evaluation, no stage child (provider.py: "a guaranteed clean
\* slate per trial").
CleanSlate ==
  pc \in {"register", "spawn", "health"} =>
    /\ Owned \subseteq UnitsOfAll({trial.main, trial.aux} \cap Keys)
    /\ hf \in {"none", "cached"} /\ (hf = "cached" => trial.hf)
    /\ kids = 0

\* When the service runs, the generator finds the trial's main engine and the
\* query expander the trial's aux engine, or none when the trial expands no
\* query, whether they are single servers, pairs, or one shared server; and
\* every engine the cache holds is one of them.
SlotsServeTheTrial ==
  pc = "serve" =>
    /\ Serves(cache, "main") = trial.main /\ Serves(cache, "aux") = trial.aux
    /\ Held(cache) = {trial.main, trial.aux} \cap Keys
    /\ Owned = UnitsOfAll(Held(cache))

\* Every group the run has a handle of is shut down when evaluate returns,
\* however it ended: launched and registered, launched and failed, or waiting
\* behind a sibling that failed.
NothingOutlivesATrial ==
  pc = "idle" => Owned = {} /\ Held(cache) = {} /\ kids = 0

\* A pair never binds in the port block of a killed pair that still lingers in
\* GPU teardown (VllmPdPair.shutdown keeps the ports claimed).
NoPortOfACorpse ==
  \A u \in Owned : u[1] \in Pairs => block[u[1]] \notin corpses

\* A process group the run launched goes out of its hands alive in one case
\* only: its leader died during startup and was reaped by the health wait. In
\* all others a shutdown kills it, or the run itself dies.
OnlyReapedLeadersEscape ==
  [][\A u \in strays' \ strays : pc' = "off" \/ Escapes(u)]_vars

\* Why a launch fails is told by the port, as long as the health wait does not
\* run out: an engine whose leader died is judged not to fit only if none of its
\* output named a lost port, however late the tee thread read that line
\* (_wait_for_health drains it and looks again), and a launch is retried only if
\* a line did. The deadline is the exception: what was printed since the last
\* look is not looked at, and a lost port becomes TrialInvalid, against "a
\* host-port race is infrastructure state, not a property of this sampled
\* deployment" (vllm_deployment.py:723). See README.
PortRaceIsRetryable ==
  [][pc = "health" /\ pc' = "raise" =>
       \/ outcome' = "retry" /\ group[Current].line # "none"
       \/ outcome' = "invalid" /\ (group[Current].api = "reaped"
                                      => group[Current].line = "none")]_vars

\* Every evaluate ends, whatever its engines do: it returns or the run dies.
EvaluateEnds == (pc \notin {"off", "idle"}) ~> (pc \in {"off", "idle"})

\* _kill_proc_group: "we can reap the whole tree atomically via os.killpg
\* regardless of parent liveness". It does not hold: see README.
NoStrayBetweenTrials == pc = "idle" => strays = {}

=============================================================================
