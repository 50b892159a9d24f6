------------------------ MODULE MeasuredPath_proofs ------------------------
(***************************************************************************)
(* Around the closed loop of a measured attempt, each a specification of    *)
(* its own: the adapter that grows the population until a stage is proved   *)
(* saturated (PopulationAdapter), the path of a request through the stages  *)
(* (RequestPath), the client of the engines (EngineClient) and the plan of  *)
(* their cards (GpuPlan).                                                   *)
(***************************************************************************)
EXTENDS PopulationAdapter, RequestPath, EngineClient, Evidence, GpuPlan, SequenceLemmas,
        FiniteSetTheorems, SequenceTheorems, TLAPS

-----------------------------------------------------------------------------
(***************************************************************************)
(* The population adapter.  A saturation verdict is fresh for any number of*)
(* candidates, spans, drivers and completions.                             *)
(***************************************************************************)

AdapterTypes ==
  /\ done \in Nat /\ epoch \in Nat /\ start \in Nat /\ support \in Nat \cup {Never}
  /\ cand \in Candidates \cup {Never} /\ held \in [Candidates -> Nat \cup {Never}]

\* Nobody is held from later than the current epoch's start.
HeldBeforeEpoch ==
  /\ epoch <= done
  /\ \A c \in Candidates : held[c] # Never => held[c] <= epoch

\* The proof of the tracked candidate starts no earlier than its presence; and when
\* support has come and the next epoch will restart the proof there, not either.
TrackedIsHeld ==
  cand # Never =>
    /\ held[cand] # Never /\ held[cand] <= start
    /\ support # Never /\ supportEpoch # support => held[cand] <= support

\* The adapter returns with its verdict.
VerdictIsLast == verdict # Never => adapter = "over"

AdapterInv ==
  /\ AdapterTypes /\ HeldBeforeEpoch /\ TrackedIsHeld /\ VerdictIsLast
  /\ SaturationProofIsFresh

LEMMA AdapterInitInv == AdapterInit => AdapterInv
  BY AdapterAssumption
     DEF AdapterInit, AdapterInv, AdapterTypes, HeldBeforeEpoch, TrackedIsHeld, VerdictIsLast,
         SaturationProofIsFresh

\* Hi is a maximum.
LEMMA HiLemma ==
  ASSUME NEW a \in Nat, NEW b \in Nat
  PROVE  Hi(a, b) \in Nat /\ Hi(a, b) >= a /\ Hi(a, b) >= b
  BY DEF Hi

\* An epoch's end moves the epoch, and presence with it.
LEMMA SampledLemma ==
  ASSUME AdapterInv, NEW current \in SUBSET Candidates, Sampled(current)
  PROVE  /\ done' \in Nat /\ epoch' \in Nat /\ support' \in Nat \cup {Never}
         /\ held' \in [Candidates -> Nat \cup {Never}] /\ HeldBeforeEpoch'
         /\ \A c \in current : /\ held'[c] \in Nat /\ held'[c] <= epoch
                               /\ held[c] # Never => held'[c] = held[c]
         /\ verdict = Never
<1>1. AdapterTypes /\ HeldBeforeEpoch /\ VerdictIsLast
  BY DEF AdapterInv
<1>2. /\ held' = [c \in Candidates |-> IF c \notin current THEN Never
                                       ELSE IF held[c] = Never THEN epoch ELSE held[c]]
      /\ epoch' = done /\ done' = done /\ support' = support /\ adapter = "sampling"
  BY DEF Sampled
<1>3. \A c \in Candidates : held'[c] \in Nat \cup {Never} /\ (held'[c] # Never => held'[c] <= epoch)
  BY <1>1, <1>2 DEF AdapterTypes, HeldBeforeEpoch
<1>4. held' \in [Candidates -> Nat \cup {Never}]
  BY <1>1, <1>2 DEF AdapterTypes
<1>5. HeldBeforeEpoch'
  BY <1>1, <1>2, <1>3, <1>4 DEF AdapterTypes, HeldBeforeEpoch
<1>6. \A c \in current : /\ held'[c] \in Nat /\ held'[c] <= epoch
                         /\ held[c] # Never => held'[c] = held[c]
  BY <1>1, <1>2, AdapterAssumption DEF AdapterTypes, HeldBeforeEpoch
<1> QED BY <1>1, <1>2, <1>4, <1>5, <1>6 DEF AdapterTypes, VerdictIsLast

\* A verdict given on a proof passes its own checks and keeps to the proof's start.
LEMMA VerdictLemma ==
  ASSUME AdapterInv, NEW c, NEW w, NEW s \in Nat, support # Never,
         done - Hi(support, s) >= 2 * w, GiveVerdict(c, w, s)
  PROVE  /\ adapter' = "over" /\ verdict'.candidate = c /\ verdict'.span = w
         /\ verdict'.from \in Nat /\ verdict'.from >= support /\ verdict'.from >= s
         /\ done - verdict'.from >= 2 * verdict'.span
<1>1. support \in Nat
  BY DEF AdapterInv, AdapterTypes
<1>2. verdict' = [candidate |-> c, span |-> w, from |-> Hi(support, s)] /\ adapter' = "over"
  BY DEF GiveVerdict
<1> QED BY <1>1, <1>2, HiLemma

LEMMA CandidateLemma ==
  ASSUME AdapterInv, NEW current \in SUBSET Candidates, CandidateEpoch(current)
  PROVE  AdapterInv'
<1>0. /\ AdapterTypes /\ HeldBeforeEpoch /\ TrackedIsHeld /\ VerdictIsLast
      /\ SaturationProofIsFresh
  BY DEF AdapterInv
<1>1. Sampled(current) /\ NoSupportNews /\ UNCHANGED <<drivers, supportEpoch>>
  BY DEF CandidateEpoch
<1>2. PICK c \in current :
        /\ cand' = c /\ start' = SwitchStart(c)
        /\ \/ UNCHANGED <<adapter, verdict>>
           \/ \E w : /\ support # Never /\ done - Hi(support, SwitchStart(c)) >= 2 * w
                     /\ GiveVerdict(c, w, SwitchStart(c))
  BY DEF CandidateEpoch, FreshProof, RateStable
<1>3. /\ done' \in Nat /\ epoch' \in Nat /\ support' \in Nat \cup {Never}
      /\ held' \in [Candidates -> Nat \cup {Never}] /\ HeldBeforeEpoch'
      /\ held'[c] \in Nat /\ held'[c] <= epoch /\ (held[c] # Never => held'[c] = held[c])
      /\ verdict = Never /\ adapter = "sampling"
  BY <1>1, SampledLemma DEF Sampled
<1>4. c \in Candidates /\ c # Never /\ held'[c] # Never
  BY <1>3, AdapterAssumption
<1>5. start' \in Nat /\ held'[c] <= start'
  BY <1>0, <1>2, <1>3, <1>4 DEF SwitchStart, TrackedIsHeld, AdapterTypes
<1>6. support' = support /\ done' = done
  BY <1>1 DEF Sampled
<1>7. AdapterTypes'
  BY <1>2, <1>3, <1>4, <1>5 DEF AdapterTypes
<1>8. TrackedIsHeld'
  BY <1>1, <1>2, <1>4, <1>5, <1>6 DEF TrackedIsHeld, NoSupportNews
<1>9. VerdictIsLast' /\ SaturationProofIsFresh'
  <2>1. CASE UNCHANGED <<adapter, verdict>>
    BY <1>3, <2>1 DEF VerdictIsLast, SaturationProofIsFresh
  <2>2. ASSUME NEW w, support # Never, done - Hi(support, SwitchStart(c)) >= 2 * w,
               GiveVerdict(c, w, SwitchStart(c))
        PROVE  VerdictIsLast' /\ SaturationProofIsFresh'
    <3>1. /\ adapter' = "over" /\ verdict'.candidate = c /\ verdict'.from \in Nat
          /\ verdict'.from >= support /\ verdict'.from >= start'
          /\ done - verdict'.from >= 2 * verdict'.span
      BY <1>2, <1>5, <2>2, VerdictLemma
    <3>2. verdict'.from >= held'[c]
      BY <1>3, <1>5, <3>1
    <3> QED BY <1>4, <1>6, <2>2, <3>1, <3>2 DEF VerdictIsLast, SaturationProofIsFresh
  <2> QED BY <1>2, <2>1, <2>2
<1> QED BY <1>3, <1>7, <1>8, <1>9 DEF AdapterInv

LEMMA QuietLemma == ASSUME AdapterInv, QuietEpoch PROVE AdapterInv'
<1>1. /\ Sampled({}) /\ cand' = Never /\ start' = done /\ UNCHANGED supportEpoch
  BY DEF QuietEpoch
<1>2. /\ done' \in Nat /\ epoch' \in Nat /\ support' \in Nat \cup {Never}
      /\ held' \in [Candidates -> Nat \cup {Never}] /\ HeldBeforeEpoch' /\ verdict = Never
  BY <1>1, SampledLemma
<1>3. done' = done /\ support' = support /\ adapter = "sampling"
  BY <1>1 DEF Sampled
<1>4. AdapterTypes' /\ TrackedIsHeld'
  BY <1>1, <1>2, <1>3 DEF AdapterTypes, TrackedIsHeld
<1>5. VerdictIsLast' /\ SaturationProofIsFresh'
  <2>1. CASE UNCHANGED verdict /\ (adapter' = adapter \/ adapter' = "ramping")
    BY <1>2, <1>3, <2>1 DEF VerdictIsLast, SaturationProofIsFresh
  <2>2. CASE /\ drivers = Population[2] /\ UNCHANGED drivers
             /\ support # Never /\ RateStable(Fallback, support, TRUE)
             /\ GiveVerdict(Never, Fallback, support)
    <3>1. support \in Nat
      BY <2>2 DEF AdapterInv, AdapterTypes
    <3>2. Hi(support, support) = support
      BY DEF Hi
    <3>3. /\ adapter' = "over" /\ verdict'.candidate = Never /\ verdict'.from >= support
          /\ done - verdict'.from >= 2 * verdict'.span
      BY <2>2, <3>1, <3>2, VerdictLemma DEF RateStable
    <3> QED BY <1>3, <2>2, <3>3 DEF VerdictIsLast, SaturationProofIsFresh
  <2> QED BY <2>1, <2>2 DEF QuietEpoch
<1> QED BY <1>2, <1>4, <1>5 DEF AdapterInv

\* Support restarts the proof at a completion no earlier than the candidate's presence.
LEMMA SupportLemma ==
  ASSUME AdapterInv, NEW current \in SUBSET Candidates, SupportEpoch(current)
  PROVE  AdapterInv'
<1>0. AdapterTypes /\ TrackedIsHeld /\ VerdictIsLast /\ SaturationProofIsFresh
  BY DEF AdapterInv
<1>1. /\ Sampled(current) /\ support # Never /\ supportEpoch # support
      /\ supportEpoch' = support /\ start' = support /\ UNCHANGED <<adapter, drivers, verdict>>
      /\ \/ cand \in current /\ cand' = cand
         \/ cand' = Never
  BY DEF SupportEpoch
<1>2. /\ done' \in Nat /\ epoch' \in Nat /\ support' \in Nat \cup {Never}
      /\ held' \in [Candidates -> Nat \cup {Never}] /\ HeldBeforeEpoch' /\ verdict = Never
      /\ \A c \in current : held[c] # Never => held'[c] = held[c]
  BY <1>1, SampledLemma
<1>3. support' = support /\ done' = done
  BY <1>1 DEF Sampled
<1>4. AdapterTypes'
  BY <1>0, <1>1, <1>2, <1>3 DEF AdapterTypes
<1>5. TrackedIsHeld'
  BY <1>0, <1>1, <1>2, <1>3 DEF TrackedIsHeld
<1>6. VerdictIsLast' /\ SaturationProofIsFresh'
  BY <1>0, <1>1, <1>2 DEF VerdictIsLast, SaturationProofIsFresh
<1> QED BY <1>2, <1>4, <1>5, <1>6 DEF AdapterInv

LEMMA AdapterNextInv == AdapterInv /\ [AdapterNext]_adapterVars => AdapterInv'
<1>1. SUFFICES ASSUME AdapterInv, [AdapterNext]_adapterVars PROVE AdapterInv'
  OBVIOUS
<1>2. /\ AdapterTypes /\ HeldBeforeEpoch /\ TrackedIsHeld /\ VerdictIsLast
      /\ SaturationProofIsFresh
  BY <1>1 DEF AdapterInv
<1>3. CASE WarmupCompletes
  <2>1. verdict = Never /\ verdict' = Never /\ adapter' = adapter
    BY <1>2, <1>3 DEF WarmupCompletes, VerdictIsLast
  <2>2. VerdictIsLast' /\ SaturationProofIsFresh'
    BY <1>2, <2>1 DEF VerdictIsLast, SaturationProofIsFresh
  <2>3. AdapterTypes' /\ HeldBeforeEpoch'
    BY <1>2, <1>3 DEF WarmupCompletes, AdapterTypes, HeldBeforeEpoch
  <2>4. TrackedIsHeld'
    <3>1. SUFFICES ASSUME cand # Never, support' # Never, supportEpoch # support'
                   PROVE  held[cand] <= support'
      BY <1>2, <1>3 DEF WarmupCompletes, TrackedIsHeld
    <3>2. held[cand] \in Nat /\ held[cand] <= epoch
      BY <1>2, <3>1 DEF TrackedIsHeld, AdapterTypes, HeldBeforeEpoch
    <3> QED BY <1>2, <1>3, <3>1, <3>2
            DEF WarmupCompletes, TrackedIsHeld, AdapterTypes, HeldBeforeEpoch
  <2> QED BY <2>2, <2>3, <2>4 DEF AdapterInv
<1>4. CASE HalfCapPasses \/ UNCHANGED adapterVars
  BY <1>2, <1>4 DEF HalfCapPasses, adapterVars, AdapterInv, AdapterTypes, HeldBeforeEpoch,
                    TrackedIsHeld, VerdictIsLast, SaturationProofIsFresh
<1>5. CASE AdapterStopped
  BY <1>2, <1>5 DEF AdapterStopped, AdapterInv, AdapterTypes, HeldBeforeEpoch,
                    TrackedIsHeld, VerdictIsLast, SaturationProofIsFresh
<1>6. CASE RampCompletes
  BY <1>2, <1>6 DEF RampCompletes, AdapterInv, AdapterTypes, HeldBeforeEpoch,
                    TrackedIsHeld, VerdictIsLast, SaturationProofIsFresh
<1> QED
  BY <1>1, <1>3, <1>4, <1>5, <1>6, QuietLemma, SupportLemma, CandidateLemma DEF AdapterNext

\* _verdict's own checks never raise, and a bottleneck's proof holds no completion from
\* before it was there or before every row had been answered.
THEOREM FreshProofTheorem == AdapterSpec => []SaturationProofIsFresh
<1>1. AdapterInv => SaturationProofIsFresh
  BY DEF AdapterInv
<1> QED
  BY <1>1, AdapterInitInv, AdapterNextInv, PTL DEF AdapterSpec

-----------------------------------------------------------------------------
(***************************************************************************)
(* The path of a request.  For any pipeline and any number of requests,     *)
(* permits and rounds: where a request is tells what it has seen.           *)
(***************************************************************************)

Routed == Stages \cup {"new", "assembling", "answered", "failed"}
RequestTypes ==
  /\ mode \in {"sequential", "react"} /\ stageOf \in [Requests -> Routed]
  /\ visits \in [Requests -> [Stages -> Nat]] /\ DOMAIN output = Requests

\* On the sequential path a request has been at the stages in front of its own.
SequentialRoute(place, seen) ==
  /\ place # "assembling"
  /\ place = "new" => \A s \in Stages : seen[s] = 0
  /\ \A i, j \in DOMAIN Chain : place = Chain[i] => seen[Chain[j]] = IF j < i THEN 1 ELSE 0
  /\ place = "answered" => \A s \in Stages : seen[s] = 1

\* So many rounds, searches and reranks.
Seen(seen, rounds, searches, reranks) ==
  /\ seen["generator"] = rounds /\ seen["retriever"] = searches
  /\ "reranker" \in Stages => seen["reranker"] = reranks

\* On the ReAct path it is in the midst of a round, or has had its last.
ReactRoute(place, seen, out) ==
  LET n == seen["generator"] IN
  /\ place \in {"new", "generator", "retriever", "reranker", "assembling", "answered", "failed"}
  /\ place = "new" => Seen(seen, 0, 0, 0)
  /\ place \in {"generator", "retriever", "reranker"} => n < MaxIter
  /\ place = "generator" => Seen(seen, n, n, n)
  /\ place = "retriever" => Seen(seen, n, n - 1, n - 1)
  /\ place = "reranker" => Seen(seen, n, n, n - 1)
  /\ place \in {"assembling", "answered"} =>
       /\ n \in 1 .. MaxIter /\ Seen(seen, n, n - 1, n - 1)
       /\ out.truncated <=> out.text = "search"
       /\ out.truncated => n = MaxIter

RouteOf(m, place, seen, out) ==
  IF m = "sequential" THEN SequentialRoute(place, seen) ELSE ReactRoute(place, seen, out)

RoutesInv ==
  /\ RequestTypes
  /\ \A r \in Requests : RouteOf(mode, stageOf[r], visits[r], output[r])

LEMMA StageNames ==
  /\ {"generator", "retriever"} \subseteq Stages /\ Engines \subseteq Stages
  /\ "generator" \in Engines /\ "retriever" \in Workers /\ Workers \subseteq Stages
  /\ Workers \cap Engines = {} /\ Stages \cap {"new", "assembling", "answered", "failed"} = {}
  /\ Len(Chain) \in Nat \ {0} /\ DOMAIN Chain = 1 .. Len(Chain)
  /\ \A i \in DOMAIN Chain : Chain[i] \in Stages
<1>1. /\ {"generator", "retriever"} \subseteq Stages /\ Engines \subseteq Stages
      /\ "generator" \in Engines /\ "retriever" \in Workers /\ Workers \subseteq Stages
      /\ Workers \cap Engines = {} /\ Stages \cap {"new", "assembling", "answered", "failed"} = {}
  BY PathAssumption DEF Workers
<1>2. /\ Len(Chain) \in Nat /\ DOMAIN Chain = 1 .. Len(Chain)
      /\ \A i \in DOMAIN Chain : Chain[i] \in Stages
  BY PathAssumption, LenProperties, ElementOfSeq
<1>3. PICK i \in DOMAIN Chain : Chain[i] = "generator"
  BY <1>1 DEF Stages
<1> QED BY <1>1, <1>2, <1>3

\* A request that fails owes no account.
LEMMA FailedRoute ==
  ASSUME NEW m, NEW seen, NEW out
  PROVE  RouteOf(m, "failed", seen, out)
  BY StageNames DEF RouteOf, SequentialRoute, ReactRoute

\* A stage, once left, is counted once, and the next one is behind it.
LEMMA SequentialStep ==
  ASSUME NEW seen \in [Stages -> Nat], NEW s \in Stages, SequentialRoute(s, seen)
  PROVE  SequentialRoute(Behind(s), [seen EXCEPT ![s] = @ + 1]) /\ Behind(s) \in Routed
<1> DEFINE next == [seen EXCEPT ![s] = @ + 1]
           i == CHOOSE j \in DOMAIN Chain : Chain[j] = s
<1>1. \E j \in DOMAIN Chain : Chain[j] = s
  BY DEF Stages
<1>2. i \in DOMAIN Chain /\ Chain[i] = s
  BY <1>1
<1>3. Behind(s) = IF i = Len(Chain) THEN "answered" ELSE Chain[i + 1]
  BY DEF Behind
<1> HIDE DEF i
<1>4. \A j \in DOMAIN Chain : Chain[j] = s => j = i
  BY <1>2, PathAssumption
<1>5. \A j \in DOMAIN Chain : seen[Chain[j]] = IF j < i THEN 1 ELSE 0
  BY <1>2 DEF SequentialRoute
<1>6. \A j \in DOMAIN Chain : next[Chain[j]] = IF j <= i THEN 1 ELSE 0
  <2> SUFFICES ASSUME NEW j \in DOMAIN Chain PROVE next[Chain[j]] = IF j <= i THEN 1 ELSE 0
    OBVIOUS
  <2>1. i \in Nat /\ j \in Nat /\ Chain[j] \in Stages
    BY <1>2, StageNames
  <2>2. CASE j = i
    BY <1>2, <1>5, <2>1, <2>2
  <2>3. CASE j # i
    <3>1. next[Chain[j]] = seen[Chain[j]]
      BY <1>4, <2>1, <2>3
    <3> QED BY <1>5, <2>1, <2>3, <3>1
  <2> QED BY <2>2, <2>3
<1> HIDE DEF next
<1>7. CASE i = Len(Chain)
  <2>1. \A j \in DOMAIN Chain : j <= i
    BY <1>7, StageNames
  <2>2. \A j \in DOMAIN Chain : next[Chain[j]] = 1
    BY <1>6, <2>1
  <2>3. \A t \in Stages : next[t] = 1
    BY <2>2 DEF Stages
  <2> QED BY <1>3, <1>7, <2>3, StageNames DEF SequentialRoute, Routed, next
<1>8. CASE i # Len(Chain)
  <2>1. i + 1 \in DOMAIN Chain /\ i \in Nat /\ Behind(s) = Chain[i + 1] /\ Behind(s) \in Stages
    BY <1>2, <1>3, <1>8, StageNames
  <2>2. \A k, j \in DOMAIN Chain :
          Behind(s) = Chain[k] => next[Chain[j]] = IF j < k THEN 1 ELSE 0
    <3> SUFFICES ASSUME NEW k \in DOMAIN Chain, NEW j \in DOMAIN Chain, Behind(s) = Chain[k]
                 PROVE  next[Chain[j]] = IF j < k THEN 1 ELSE 0
      OBVIOUS
    <3> DEFINE k1 == i + 1
    <3>0. k1 \in DOMAIN Chain /\ Chain[k] = Chain[k1] /\ j \in Nat
      BY <2>1, StageNames
    <3> HIDE DEF k1
    <3>1. k = k1
      BY <3>0, PathAssumption
    <3>2. k = i + 1
      BY <3>1 DEF k1
    <3> QED BY <1>6, <2>1, <3>0, <3>2
  <2> QED BY <2>1, <2>2, StageNames DEF SequentialRoute, Routed, next
<1> QED BY <1>7, <1>8

\* Searching and reranking: back to the generator with as many of both as rounds.
LEMMA SearchStep ==
  ASSUME NEW seen \in [Stages -> Nat], NEW out, NEW s \in Workers, ReactRoute(s, seen, out)
  PROVE  /\ ReactRoute(Searched(s), [seen EXCEPT ![s] = @ + 1], out)
         /\ Searched(s) \in Routed
<1> DEFINE next == [seen EXCEPT ![s] = @ + 1]
           n == seen["generator"]
<1>1. s \in {"retriever", "reranker"} /\ s \in Stages /\ n \in Nat /\ n < MaxIter
  BY StageNames DEF ReactRoute
<1>2. \A t \in Stages : next[t] = IF t = s THEN seen[s] + 1 ELSE seen[t]
  OBVIOUS
<1>3. next["generator"] = n
  BY <1>1, <1>2, StageNames
<1>4. CASE s = "retriever"
  <2>1. Seen(next, n, n, n - 1)
    BY <1>1, <1>2, <1>3, <1>4, StageNames DEF ReactRoute, Seen
  <2> HIDE DEF next
  <2>2. CASE "reranker" \in Stages
    BY <1>1, <1>3, <1>4, <2>1, <2>2 DEF Searched, ReactRoute, Routed, next
  <2>3. CASE "reranker" \notin Stages
    <3>1. Seen(next, n, n, n)
      BY <2>1, <2>3 DEF Seen
    <3> QED BY <1>1, <1>3, <1>4, <2>3, <3>1, StageNames DEF Searched, ReactRoute, Routed, next
  <2> QED BY <2>2, <2>3
<1>5. CASE s = "reranker"
  <2>1. Seen(next, n, n, n)
    BY <1>1, <1>2, <1>3, <1>5, StageNames DEF ReactRoute, Seen
  <2> HIDE DEF next
  <2> QED BY <1>1, <1>3, <1>5, <2>1, StageNames DEF Searched, ReactRoute, Routed, next
<1> QED BY <1>1, <1>4, <1>5

\* A round: on to a search, or to the end of the request.
LEMMA ThinkStep ==
  ASSUME NEW seen \in [Stages -> Nat], NEW out, NEW text \in Outputs,
         ReactRoute("generator", seen, out)
  PROVE  ReactRoute(IF Ends(text, seen["generator"] + 1) THEN "assembling" ELSE "retriever",
                    [seen EXCEPT !["generator"] = @ + 1],
                    [text |-> text, truncated |-> text = "search"])
<1> DEFINE next == [seen EXCEPT !["generator"] = @ + 1]
           n == seen["generator"]
           new == [text |-> text, truncated |-> text = "search"]
<1>1. n \in Nat /\ n < MaxIter /\ next["generator"] = n + 1 /\ MaxIter \in Nat
  BY StageNames, PathAssumption DEF ReactRoute
<1>2. Seen(next, n + 1, n, n)
  BY <1>1, StageNames DEF ReactRoute, Seen
<1>3. /\ new.truncated <=> new.text = "search"
      /\ new.text = text
  OBVIOUS
<1>4. CASE Ends(text, n + 1)
  <2>1. new.truncated => n + 1 = MaxIter
    BY <1>3, <1>4 DEF Ends
  <2> HIDE DEF next, new
  <2>2. ReactRoute("assembling", next, new)
    BY <1>1, <1>2, <1>3, <2>1 DEF ReactRoute
  <2> QED BY <1>4, <2>2 DEF next, new
<1>5. CASE ~Ends(text, n + 1)
  <2>1. n + 1 < MaxIter
    BY <1>1, <1>5 DEF Ends
  <2> HIDE DEF next, new
  <2>2. ReactRoute("retriever", next, new)
    BY <1>1, <1>2, <2>1 DEF ReactRoute
  <2> QED BY <1>5, <2>2 DEF next, new
<1> QED BY <1>4, <1>5

LEMMA RoutesInitInv == PathInit => RoutesInv
<1> SUFFICES ASSUME PathInit PROVE RoutesInv
  OBVIOUS
<1>1. RequestTypes
  BY DEF PathInit, RequestTypes, Routed
<1>2. ASSUME NEW r \in Requests PROVE RouteOf(mode, stageOf[r], visits[r], output[r])
  <2>1. stageOf[r] = "new" /\ \A s \in Stages : visits[r][s] = 0
    BY DEF PathInit
  <2>2. SequentialRoute(stageOf[r], visits[r])
    BY <2>1, StageNames DEF SequentialRoute
  <2>3. ReactRoute(stageOf[r], visits[r], output[r])
    BY <2>1, StageNames DEF ReactRoute, Seen
  <2> QED BY <2>2, <2>3 DEF RouteOf
<1> QED BY <1>1, <1>2 DEF RoutesInv

\* Some requests leave stage s for "to", and it is a right place for them.
LEMMA MoversRoute ==
  ASSUME RoutesInv, UNCHANGED mode, NEW movers \in SUBSET Requests, NEW to \in Routed,
         Arrive(movers, to),
         visits' \in [Requests -> [Stages -> Nat]], DOMAIN output' = Requests,
         \A r \in Requests \ movers : visits'[r] = visits[r] /\ output'[r] = output[r],
         \A r \in movers : RouteOf(mode, to, visits'[r], output'[r])
  PROVE  RoutesInv'
<1>1. \A r \in Requests : stageOf'[r] = IF r \in movers THEN to ELSE stageOf[r]
  BY DEF Arrive
<1>2. stageOf' \in [Requests -> Routed]
  BY DEF Arrive, RoutesInv, RequestTypes
<1>3. \A r \in Requests : RouteOf(mode', stageOf'[r], visits'[r], output'[r])
  BY <1>1 DEF RoutesInv
<1> QED BY <1>2, <1>3 DEF RoutesInv, RequestTypes

\* What add_stage does to a request's visits.
LEMMA AddStageLemma ==
  ASSUME RequestTypes, NEW movers \in SUBSET Requests, NEW s \in Stages, AddStage(movers, s)
  PROVE  /\ visits' \in [Requests -> [Stages -> Nat]]
         /\ \A r \in Requests \ movers : visits'[r] = visits[r]
         /\ \A r \in movers : visits'[r] = [visits[r] EXCEPT ![s] = @ + 1]
  BY DEF AddStage, RequestTypes

LEMMA GeneratedRoute ==
  ASSUME RoutesInv, NEW r \in Requests, NEW to \in Routed, NEW text, Generated(r, to, text),
         stageOf[r] \in Stages,
         RouteOf(mode, to, [visits[r] EXCEPT ![stageOf[r]] = @ + 1],
                 [text |-> text, truncated |-> text = "search"])
  PROVE  RoutesInv'
<1>1. /\ Arrive({r}, to) /\ AddStage({r}, stageOf[r]) /\ UNCHANGED mode
      /\ output' = [output EXCEPT ![r] = [text |-> text, truncated |-> text = "search"]]
  BY DEF Generated
<1>2. /\ visits' \in [Requests -> [Stages -> Nat]]
      /\ \A q \in Requests \ {r} : visits'[q] = visits[q]
      /\ visits'[r] = [visits[r] EXCEPT ![stageOf[r]] = @ + 1]
  BY <1>1, AddStageLemma DEF RoutesInv
<1>3. /\ DOMAIN output' = Requests /\ \A q \in Requests \ {r} : output'[q] = output[q]
      /\ output'[r] = [text |-> text, truncated |-> text = "search"]
  BY <1>1 DEF RoutesInv, RequestTypes
<1> QED BY <1>1, <1>2, <1>3, MoversRoute

\* A request on its way to a place that asks nothing of it.
LEMMA LeaveRoute ==
  ASSUME RoutesInv, NEW movers \in SUBSET Requests, NEW to \in Routed,
         Arrive(movers, to), UNCHANGED <<mode, visits, output>>,
         \A r \in movers : RouteOf(mode, to, visits[r], output[r])
  PROVE  RoutesInv'
  BY MoversRoute DEF RoutesInv, RequestTypes

LEMMA RoutesNextInv == RoutesInv /\ [PathNext]_pathVars => RoutesInv'
<1> SUFFICES ASSUME RoutesInv, [PathNext]_pathVars PROVE RoutesInv'
  OBVIOUS
<1>1. /\ RequestTypes
      /\ \A r \in Requests : RouteOf(mode, stageOf[r], visits[r], output[r])
  BY DEF RoutesInv
<1>2. CASE MarkWindowStart \/ MarkWindowEnd \/ ProbeSamples \/ UNCHANGED pathVars
  BY <1>2 DEF MarkWindowStart, MarkWindowEnd, ProbeSamples, pathVars, RoutesInv, RequestTypes
<1>3. ASSUME NEW r \in Requests, Admit(r) PROVE RoutesInv'
  <2> DEFINE to == IF mode = "react" THEN "generator" ELSE Chain[1]
  <2>1. /\ stageOf[r] = "new" /\ Arrive({r}, to) /\ UNCHANGED <<mode, visits, output>>
    BY <1>3 DEF Admit
  <2>2. to \in Routed /\ 1 \in DOMAIN Chain
    BY StageNames DEF Routed
  <2>3. RouteOf(mode, to, visits[r], output[r])
    <3>1. RouteOf(mode, "new", visits[r], output[r]) /\ MaxIter > 0 /\ MaxIter \in Nat
      BY <1>1, <2>1, PathAssumption
    <3>2. CASE mode = "sequential"
      <4>1. \A s \in Stages : visits[r][s] = 0
        BY <3>1, <3>2 DEF RouteOf, SequentialRoute
      <4>2. \A i \in DOMAIN Chain : Chain[1] = Chain[i] => i = 1
        BY <2>2, PathAssumption
      <4>3. SequentialRoute(Chain[1], visits[r])
        BY <2>2, <4>1, <4>2, StageNames DEF SequentialRoute
      <4> QED BY <3>2, <4>3 DEF RouteOf
    <3>3. CASE mode = "react"
      BY <3>1, <3>3 DEF RouteOf, ReactRoute, Seen
    <3> QED BY <1>1, <3>2, <3>3 DEF RequestTypes
  <2> HIDE DEF to
  <2> QED BY <2>1, <2>2, <2>3, LeaveRoute
<1>4. ASSUME NEW r \in Requests, Acquire(r) PROVE RoutesInv'
  BY <1>4 DEF Acquire, RoutesInv, RequestTypes
<1>5. ASSUME NEW r \in Requests, LeavesEngine(r) PROVE RoutesInv'
  BY <1>5, FailedRoute, LeaveRoute DEF LeavesEngine, Routed
<1>6. ASSUME NEW r \in Requests, Assemble(r) PROVE RoutesInv'
  <2>1. stageOf[r] = "assembling" /\ Arrive({r}, "answered") /\ UNCHANGED <<mode, visits, output>>
    BY <1>6 DEF Assemble
  <2>2. RouteOf(mode, "answered", visits[r], output[r])
    BY <1>1, <2>1 DEF RouteOf, SequentialRoute, ReactRoute
  <2> QED BY <2>1, <2>2, LeaveRoute DEF Routed
<1>7. ASSUME NEW r \in Requests, Answer(r) \/ Expand(r) PROVE RoutesInv'
  <2>1. /\ mode = "sequential" /\ stageOf[r] \in Stages /\ Generated(r, Behind(stageOf[r]), "final")
    BY <1>7, StageNames DEF Answer, Expand
  <2>2. /\ SequentialRoute(Behind(stageOf[r]), [visits[r] EXCEPT ![stageOf[r]] = @ + 1])
        /\ Behind(stageOf[r]) \in Routed
    BY <1>1, <2>1, SequentialStep DEF RouteOf, RequestTypes
  <2> QED BY <2>1, <2>2, GeneratedRoute DEF RouteOf
<1>8. ASSUME NEW r \in Requests, NEW text \in Outputs, Think(r, text) PROVE RoutesInv'
  <2> DEFINE to == IF Ends(text, visits[r]["generator"] + 1) THEN "assembling" ELSE "retriever"
  <2>1. mode = "react" /\ stageOf[r] = "generator" /\ Generated(r, to, text)
    BY <1>8 DEF Think
  <2>2. ReactRoute(to, [visits[r] EXCEPT !["generator"] = @ + 1],
                   [text |-> text, truncated |-> text = "search"])
    BY <1>1, <2>1, ThinkStep DEF RouteOf, RequestTypes
  <2>3. to \in Routed
    BY StageNames DEF Routed
  <2> HIDE DEF to
  <2> QED BY <2>1, <2>2, <2>3, StageNames, GeneratedRoute DEF RouteOf
<1>9. ASSUME NEW r \in Requests, PureAlone(r) PROVE RoutesInv'
  <2>1. /\ mode = "sequential" /\ stageOf[r] \in Stages /\ UNCHANGED <<mode, output>>
        /\ Arrive({r}, Behind(stageOf[r])) /\ AddStage({r}, stageOf[r])
    BY <1>9, PathAssumption DEF PureAlone
  <2>2. /\ SequentialRoute(Behind(stageOf[r]), [visits[r] EXCEPT ![stageOf[r]] = @ + 1])
        /\ Behind(stageOf[r]) \in Routed
    BY <1>1, <2>1, SequentialStep DEF RouteOf, RequestTypes
  <2>3. /\ visits' \in [Requests -> [Stages -> Nat]]
        /\ \A q \in Requests \ {r} : visits'[q] = visits[q]
        /\ visits'[r] = [visits[r] EXCEPT ![stageOf[r]] = @ + 1]
    BY <1>1, <2>1, AddStageLemma
  <2>4. RouteOf(mode, Behind(stageOf[r]), visits'[r], output'[r])
    BY <2>1, <2>2, <2>3 DEF RouteOf
  <2>5. DOMAIN output' = Requests
    BY <1>1, <2>1 DEF RequestTypes
  <2> QED BY <2>1, <2>2, <2>3, <2>4, <2>5, MoversRoute
<1>10. ASSUME NEW s \in Stages, NEW batch \in SUBSET Requests, ServeBatch(s, batch)
       PROVE  RoutesInv'
  <2> DEFINE to == IF mode = "sequential" THEN Behind(s) ELSE Searched(s)
  <2>1. /\ s \in Workers /\ \A r \in batch : stageOf[r] = s
        /\ Arrive(batch, to) /\ AddStage(batch, s) /\ UNCHANGED <<mode, output>>
    BY <1>10 DEF ServeBatch
  <2>2. /\ visits' \in [Requests -> [Stages -> Nat]]
        /\ \A q \in Requests \ batch : visits'[q] = visits[q]
        /\ \A q \in batch : visits'[q] = [visits[q] EXCEPT ![s] = @ + 1]
    BY <1>1, <2>1, AddStageLemma
  <2>3. \A r \in batch : RouteOf(mode, to, visits'[r], output'[r]) /\ to \in Routed
    <3> SUFFICES ASSUME NEW r \in batch
                 PROVE  RouteOf(mode, to, visits'[r], output[r]) /\ to \in Routed
      BY <2>1
    <3>1. /\ RouteOf(mode, s, visits[r], output[r]) /\ visits[r] \in [Stages -> Nat]
          /\ visits'[r] = [visits[r] EXCEPT ![s] = @ + 1]
      BY <1>1, <2>1, <2>2 DEF RequestTypes
    <3>2. CASE mode = "sequential"
      BY <3>1, <3>2, SequentialStep DEF RouteOf
    <3>3. CASE mode # "sequential"
      BY <2>1, <3>1, <3>3, SearchStep DEF RouteOf
    <3> QED BY <3>2, <3>3
  <2>4. DOMAIN output' = Requests /\ \A q \in Requests : output'[q] = output[q]
    BY <1>1, <2>1 DEF RequestTypes
  <2>5. CASE batch = {}
    BY <1>1, <2>1, <2>2, <2>4, <2>5 DEF Arrive, RoutesInv, RequestTypes
  <2>6. CASE batch # {}
    <3>1. to \in Routed
      BY <2>3, <2>6
    <3> HIDE DEF to
    <3> QED BY <2>1, <2>2, <2>3, <2>4, <3>1, MoversRoute
  <2> QED BY <2>5, <2>6
<1>11. ASSUME NEW s \in Stages, NEW batch \in SUBSET Requests, BatchRaises(s, batch)
       PROVE  RoutesInv'
  BY <1>11, FailedRoute, LeaveRoute DEF BatchRaises, Routed
<1> QED
  BY <1>2, <1>3, <1>4, <1>5, <1>6, <1>7, <1>8, <1>9, <1>10, <1>11 DEF PathNext

\* Whatever pipeline and whatever the model answers, an answered request has been where
\* its counts say: every stage once, or as many searches as rounds but one.
THEOREM RoundsTheorem == PathSpec => []RoundsAreAccountedFor
<1>1. RoutesInv => RoundsAreAccountedFor
  <2> SUFFICES ASSUME RoutesInv, NEW r \in Requests, stageOf[r] = "answered"
               PROVE  IF mode = "sequential" THEN \A s \in Stages : visits[r][s] = 1
                      ELSE /\ visits[r]["generator"] \in 1 .. MaxIter
                           /\ visits[r]["retriever"] = visits[r]["generator"] - 1
                           /\ "reranker" \in Stages =>
                                visits[r]["reranker"] = visits[r]["retriever"]
                           /\ output[r].truncated <=> output[r].text = "search"
                           /\ output[r].truncated => visits[r]["generator"] = MaxIter
    BY DEF RoundsAreAccountedFor
  <2>1. RouteOf(mode, "answered", visits[r], output[r])
    BY DEF RoutesInv
  <2> QED BY <2>1 DEF RouteOf, SequentialRoute, ReactRoute, Seen
<1> QED BY <1>1, RoutesInitInv, RoutesNextInv, PTL DEF PathSpec

-----------------------------------------------------------------------------
(***************************************************************************)
(* What the services count.  For any pipeline, any number of requests and   *)
(* any moment the window opens and closes at.                               *)
(***************************************************************************)

Counts == [begun : Nat, ended : Nat]
Tables == [Stages -> Counts]
Levels == [Stages -> Nat]
CountTypes ==
  /\ counters \in Tables /\ marks \in [start : Tables, end : Tables]
  /\ peak \in Levels /\ probe \in [taken : Nat, index : Nat]
  /\ inWindow \in [count : Tables, peak : Levels, samples : Nat]
  /\ window \in {"before", "open", "closed"}

\* Since the start of the window, or of the process, up to its end, or now.
Since(s) == IF window = "before" THEN Zero[s] ELSE marks.start[s]
Upto(s) == IF window = "closed" THEN marks.end[s] ELSE counters[s]
IsWindowOf(from, upto, n) ==
  upto.begun = from.begun + n.begun /\ upto.ended = from.ended + n.ended

CountsMatch ==
  /\ window # "before" =>
       \A s \in Stages : /\ IsWindowOf(Since(s), Upto(s), inWindow.count[s])
                         /\ peak[s] >= inWindow.peak[s]
                         /\ window = "open" => peak[s] = inWindow.peak[s]
  /\ window # "before" => probe.taken = probe.index + inWindow.samples

\* A worker stage has served its rows in batches within the peak.
RowsFit(from, upto, level) ==
  \E b, n \in Nat : /\ upto.begun = from.begun + b /\ upto.ended = from.ended + n
                    /\ n <= b * level
BatchesFit == \A s \in Workers : RowsFit(Since(s), Upto(s), peak[s])

\* Permits are held at engine stages, and no more than the peak has seen.
PermitsHeld ==
  /\ permitted \subseteq Requests /\ IsFiniteSet(permitted)
  /\ \A r \in permitted : stageOf[r] \in Engines
LevelsFit == \A s \in Engines : Inflight(s) <= peak[s] /\ peak[s] <= MaxInflight

StatsInv ==
  /\ CountTypes /\ DOMAIN stageOf = Requests
  /\ CountsMatch /\ BatchesFit /\ PermitsHeld /\ LevelsFit

\* No batch and no row fit any peak.
LEMMA NoRowsFit ==
  ASSUME NEW at \in Counts, NEW level \in Nat
  PROVE  RowsFit(at, at, level)
<1>1. at.begun \in Nat /\ at.ended \in Nat
  BY DEF Counts
<1>2. /\ at.begun = at.begun + 0 /\ at.ended = at.ended + 0
      /\ 0 <= 0 * level
  BY <1>1
<1> QED BY <1>2, 0 \in Nat, Zenon DEF RowsFit

\* A larger peak, or a batch within it, keeps the rows within it.
LEMMA RowsGrow ==
  ASSUME NEW from \in Counts, NEW upto \in Counts, NEW level \in Nat, RowsFit(from, upto, level),
         NEW new \in Counts, NEW higher \in Nat, higher >= level,
         \/ new.begun = upto.begun /\ new.ended = upto.ended
         \/ /\ new.begun = upto.begun + 1
            /\ \E n \in Nat : n <= higher /\ new.ended = upto.ended + n
  PROVE  RowsFit(from, new, higher)
<1>1. PICK b \in Nat, n \in Nat : /\ upto.begun = from.begun + b /\ upto.ended = from.ended + n
                                  /\ n <= b * level
  BY DEF RowsFit
<1>2. b * level <= b * higher /\ b * higher \in Nat /\ b * level \in Nat
  BY <1>1
<1>3. n <= b * higher
  BY <1>1, <1>2
<1>4. CASE new.begun = upto.begun /\ new.ended = upto.ended
  BY <1>1, <1>3, <1>4 DEF RowsFit
<1>5. ASSUME NEW m \in Nat, m <= higher, new.begun = upto.begun + 1,
             new.ended = upto.ended + m
      PROVE  RowsFit(from, new, higher)
  <2>1. (b + 1) * higher = b * higher + higher
    BY <1>1
  <2>2. n + m <= (b + 1) * higher
    BY <1>1, <1>2, <1>3, <1>5, <2>1
  <2>3. /\ new.begun = from.begun + (b + 1) /\ new.ended = from.ended + (n + m)
        /\ b + 1 \in Nat /\ n + m \in Nat
    BY <1>1, <1>5 DEF Counts
  <2> QED BY <2>2, <2>3 DEF RowsFit
<1> QED BY <1>4, <1>5

\* What counting does to every stage: the window's history follows it while it is open.
LEMMA CountedLemma ==
  ASSUME CountTypes, CountsMatch, NEW adds \in Tables, NEW s \in Stages, NEW level \in Nat,
         Counted(adds, s, level)
  PROVE  /\ CountTypes' /\ CountsMatch' /\ UNCHANGED <<window, marks>>
         /\ \A t \in Stages : /\ counters'[t].begun = counters[t].begun + adds[t].begun
                              /\ counters'[t].ended = counters[t].ended + adds[t].ended
                              /\ peak'[t] = IF t = s THEN Larger(peak[t], level) ELSE peak[t]
<1> DEFINE Add(c) == [t \in Stages |-> [begun |-> c[t].begun + adds[t].begun,
                                       ended |-> c[t].ended + adds[t].ended]]
<1>1. /\ counters' = Add(counters) /\ peak' = [peak EXCEPT ![s] = Larger(@, level)]
      /\ UNCHANGED <<window, marks, probe>>
      /\ window = "open" => inWindow' = [inWindow EXCEPT !.count = Add(@),
                                                         !.peak[s] = Larger(@, level)]
      /\ window # "open" => inWindow' = inWindow
  BY DEF Counted
<1>2. \A c \in Tables : /\ Add(c) \in Tables
                        /\ \A t \in Stages : /\ Add(c)[t].begun = c[t].begun + adds[t].begun
                                             /\ Add(c)[t].ended = c[t].ended + adds[t].ended
  BY DEF Tables, Counts
<1> HIDE DEF Add
<1>3. \A l \in Nat : Larger(l, level) \in Nat /\ Larger(l, level) >= l
  BY DEF Larger
<1>4. peak' \in Levels /\ \A t \in Stages :
        peak'[t] = IF t = s THEN Larger(peak[t], level) ELSE peak[t]
  BY <1>1, <1>3 DEF CountTypes, Levels
<1>5. window = "open" =>
        /\ inWindow' = [count |-> Add(inWindow.count),
                        peak |-> [inWindow.peak EXCEPT ![s] = Larger(@, level)],
                        samples |-> inWindow.samples]
        /\ [inWindow.peak EXCEPT ![s] = Larger(@, level)] \in Levels
  BY <1>1, <1>3 DEF CountTypes, Levels
<1>6. CountTypes'
  BY <1>1, <1>2, <1>4, <1>5 DEF CountTypes
<1>7. CountsMatch'
  <2>1. CASE window = "before"
    BY <1>1, <2>1 DEF CountsMatch
  <2>2. CASE window = "open"
    <3>1. \A t \in Stages : /\ Since(t)' = Since(t) /\ Since(t) \in Counts
                            /\ Upto(t)' = Add(counters)[t] /\ Upto(t) = counters[t]
                            /\ inWindow'.count[t] = Add(inWindow.count)[t]
                            /\ counters[t] \in Counts /\ inWindow.count[t] \in Counts
                            /\ adds[t] \in Counts
      BY <1>1, <1>5, <2>2 DEF Since, Upto, CountTypes, Tables
    <3>2. \A t \in Stages : IsWindowOf(Since(t), Upto(t), inWindow.count[t])'
      BY <1>2, <2>2, <3>1 DEF IsWindowOf, CountsMatch, CountTypes, Counts
    <3>3. \A t \in Stages : peak'[t] = inWindow'.peak[t] /\ peak'[t] \in Nat
      BY <1>4, <1>5, <2>2 DEF CountsMatch, CountTypes, Levels
    <3>4. probe' = probe /\ inWindow'.samples = inWindow.samples
      BY <1>1, <1>5, <2>2
    <3> QED BY <1>1, <2>2, <3>2, <3>3, <3>4 DEF CountsMatch
  <2>3. CASE window = "closed"
    <3>1. \A t \in Stages : Since(t)' = Since(t) /\ Upto(t)' = Upto(t)
      BY <1>1, <2>3 DEF Since, Upto
    <3>2. inWindow' = inWindow /\ probe' = probe /\ window' = "closed"
      BY <1>1, <2>3
    <3>3. ASSUME NEW t \in Stages PROVE peak'[t] >= inWindow.peak[t]
      <4>1. peak[t] \in Nat /\ inWindow.peak[t] \in Nat /\ peak[t] >= inWindow.peak[t]
        BY <2>3 DEF CountsMatch, CountTypes, Levels
      <4>2. peak'[t] \in Nat /\ peak'[t] >= peak[t]
        BY <1>3, <1>4, <4>1
      <4> QED BY <4>1, <4>2
    <3>4. \A t \in Stages : IsWindowOf(Since(t), Upto(t), inWindow.count[t])'
      BY <2>3, <3>1, <3>2 DEF CountsMatch, IsWindowOf
    <3> QED BY <2>3, <3>2, <3>3, <3>4 DEF CountsMatch
  <2> QED BY <2>1, <2>2, <2>3 DEF CountTypes
<1> QED BY <1>1, <1>2, <1>4, <1>6, <1>7 DEF CountTypes

\* A stage at work: what is added is a batch of the worker it is of, or no batch at all.
LEMMA CountedBatches ==
  ASSUME StatsInv, NEW adds \in Tables, NEW s \in Stages, NEW level \in Nat,
         Counted(adds, s, level),
         \A t \in Workers : \/ adds[t].begun = 0 /\ adds[t].ended = 0
                            \/ t = s /\ adds[t].begun = 1 /\ adds[t].ended = level
  PROVE  BatchesFit'
<1> SUFFICES ASSUME NEW t \in Workers PROVE RowsFit(Since(t), Upto(t), peak[t])'
  BY DEF BatchesFit, Workers, Stages
<1>0. t \in Stages /\ CountTypes /\ CountsMatch /\ RowsFit(Since(t), Upto(t), peak[t])
  BY StageNames DEF StatsInv, BatchesFit
<1>1. /\ CountTypes' /\ UNCHANGED <<window, marks>>
      /\ counters'[t].begun = counters[t].begun + adds[t].begun
      /\ counters'[t].ended = counters[t].ended + adds[t].ended
      /\ peak'[t] = IF t = s THEN Larger(peak[t], level) ELSE peak[t]
  BY <1>0, CountedLemma
<1>2. Since(t)' = Since(t) /\ Since(t) \in Counts /\ Upto(t) \in Counts /\ Upto(t)' \in Counts
  BY <1>0, <1>1 DEF Since, Upto, CountTypes, Tables, Zero, Counts
<1>3. /\ peak[t] \in Nat /\ peak'[t] \in Nat /\ peak'[t] >= peak[t]
      /\ t = s => peak'[t] >= level
  BY <1>0, <1>1 DEF CountTypes, Levels, Larger
<1>4. \/ Upto(t)'.begun = Upto(t).begun /\ Upto(t)'.ended = Upto(t).ended
      \/ /\ Upto(t)'.begun = Upto(t).begun + 1
         /\ \E n \in Nat : n <= peak'[t] /\ Upto(t)'.ended = Upto(t).ended + n
  <2>1. CASE window = "closed"
    BY <1>1, <2>1 DEF Upto
  <2>2. CASE window # "closed"
    <3>1. Upto(t)' = counters'[t] /\ Upto(t) = counters[t] /\ counters[t] \in Counts
      BY <1>0, <1>1, <2>2 DEF Upto, CountTypes, Tables
    <3> QED BY <1>1, <1>3, <3>1 DEF Counts
  <2> QED BY <2>1, <2>2
<1>5. RowsFit(Since(t), Upto(t)', peak'[t])
  BY <1>0, <1>2, <1>3, <1>4, RowsGrow
<1> QED BY <1>2, <1>5

\* Requests that leave their stages give their permits back: no level rises.
LEMMA LevelsFall ==
  ASSUME StatsInv, NEW movers \in SUBSET Requests, NEW to, Arrive(movers, to),
         permitted' = permitted \ movers
  PROVE  /\ DOMAIN stageOf' = Requests /\ PermitsHeld'
         /\ \A s \in Engines : Inflight(s)' <= Inflight(s) /\ Inflight(s)' \in Nat
                               /\ Inflight(s) \in Nat
<1>1. \A r \in Requests : stageOf'[r] = IF r \in movers THEN to ELSE stageOf[r]
  BY DEF Arrive
<1>2. permitted \subseteq Requests /\ IsFiniteSet(permitted) /\ \A r \in permitted : stageOf[r] \in Engines
  BY DEF StatsInv, PermitsHeld
<1>3. IsFiniteSet(permitted')
  BY <1>2, FS_Subset
<1>4. ASSUME NEW s \in Engines
      PROVE  Inflight(s)' <= Inflight(s) /\ Inflight(s)' \in Nat /\ Inflight(s) \in Nat
  <2> DEFINE now == {r \in permitted : stageOf[r] = s}
             then == {r \in permitted' : stageOf'[r] = s}
  <2>1. then \subseteq now /\ now \subseteq permitted
    BY <1>1, <1>2
  <2>2. IsFiniteSet(now) /\ IsFiniteSet(then) /\ Cardinality(then) <= Cardinality(now)
    BY <1>2, <2>1, FS_Subset
  <2>3. Cardinality(now) \in Nat /\ Cardinality(then) \in Nat
    BY <2>2, FS_CardinalityType
  <2> QED BY <2>2, <2>3 DEF Inflight
<1> QED BY <1>1, <1>2, <1>3, <1>4 DEF Arrive, PermitsHeld

\* A peak that does not fall, of a stage that is no engine or at no level above it.
LEMMA LevelsStayFit ==
  ASSUME StatsInv, NEW adds \in Tables, NEW s \in Stages, NEW level \in Nat,
         Counted(adds, s, level), s \in Engines => level = 0,
         \A e \in Engines : Inflight(e)' <= Inflight(e) /\ Inflight(e)' \in Nat
                            /\ Inflight(e) \in Nat
  PROVE  LevelsFit'
<1> SUFFICES ASSUME NEW e \in Engines PROVE Inflight(e)' <= peak'[e] /\ peak'[e] <= MaxInflight
  BY DEF LevelsFit
<1>1. e \in Stages /\ CountTypes /\ CountsMatch /\ Inflight(e) <= peak[e] /\ peak[e] <= MaxInflight
  BY StageNames DEF StatsInv, LevelsFit
<1>2. peak'[e] = (IF e = s THEN Larger(peak[e], level) ELSE peak[e]) /\ peak[e] \in Nat
  BY <1>1, CountedLemma DEF CountTypes, Levels
<1>3. peak'[e] = peak[e]
  BY <1>2 DEF Larger
<1> QED BY <1>1, <1>2, <1>3

LEMMA PassingTables ==
  ASSUME NEW from, NEW b \in Nat, NEW e \in Nat, NEW to, NEW n \in Nat,
         NEW adds, adds = Passing(from, [begun |-> b, ended |-> e], to, n)
  PROVE  /\ adds \in Tables
         /\ \A t \in Workers : /\ adds[t].begun = (IF t = from THEN b ELSE 0)
                               /\ adds[t].ended = (IF t = from THEN e ELSE 0)
<1>1. \A t \in Workers : t \in Stages /\ t \notin Engines
  BY StageNames
<1> QED BY <1>1 DEF Passing, Tables, Counts

\* Requests move on and are counted: the statistics hold.
LEMMA MovingStats ==
  ASSUME StatsInv, NEW movers \in SUBSET Requests, NEW to, Arrive(movers, to),
         permitted' = permitted \ movers,
         NEW adds \in Tables, NEW s \in Stages, NEW level \in Nat, Counted(adds, s, level),
         s \in Engines => level = 0,
         \A t \in Workers : \/ adds[t].begun = 0 /\ adds[t].ended = 0
                            \/ t = s /\ adds[t].begun = 1 /\ adds[t].ended = level
  PROVE  StatsInv'
<1>1. CountTypes' /\ CountsMatch'
  BY CountedLemma DEF StatsInv
<1>2. /\ DOMAIN stageOf' = Requests /\ PermitsHeld'
      /\ \A e \in Engines : Inflight(e)' <= Inflight(e) /\ Inflight(e)' \in Nat
                            /\ Inflight(e) \in Nat
  BY LevelsFall
<1>3. BatchesFit' /\ LevelsFit'
  BY <1>2, CountedBatches, LevelsStayFit
<1> QED BY <1>1, <1>2, <1>3 DEF StatsInv

\* Requests move and nobody counts.
LEMMA UncountedStats ==
  ASSUME StatsInv, NEW movers \in SUBSET Requests, NEW to, Arrive(movers, to),
         permitted' = permitted \ movers, CountersAlone
  PROVE  StatsInv'
<1>1. /\ DOMAIN stageOf' = Requests /\ PermitsHeld'
      /\ \A e \in Engines : Inflight(e)' <= Inflight(e) /\ Inflight(e)' \in Nat
                            /\ Inflight(e) \in Nat
  BY LevelsFall
<1>2. CountTypes /\ CountTypes' /\ CountsMatch' /\ BatchesFit' /\ UNCHANGED peak
  BY DEF CountersAlone, StatsInv, CountTypes, CountsMatch, BatchesFit, Since, Upto
<1>3. \A e \in Engines : /\ peak[e] \in Nat /\ peak'[e] = peak[e]
                         /\ Inflight(e) <= peak[e] /\ peak[e] <= MaxInflight
  BY <1>2, StageNames DEF CountTypes, Levels, StatsInv, LevelsFit
<1>4. LevelsFit'
  BY <1>1, <1>3 DEF LevelsFit
<1> QED BY <1>1, <1>2, <1>4 DEF StatsInv

\* A request's permit raises the level by one, and the peak with it.
LEMMA AcquireStats ==
  ASSUME StatsInv, NEW r \in Requests, Acquire(r)
  PROVE  StatsInv'
<1> DEFINE s == stageOf[r]
           now == {q \in permitted : stageOf[q] = s}
<1>1. /\ s \in Engines /\ r \notin permitted /\ Inflight(s) < MaxInflight
      /\ permitted' = permitted \cup {r} /\ Counted(Zero, s, Inflight(s) + 1)
      /\ UNCHANGED stageOf
  BY DEF Acquire
<1>2. s \in Stages /\ Zero \in Tables /\ \A t \in Workers : Zero[t].begun = 0 /\ Zero[t].ended = 0
  BY <1>1, StageNames DEF Zero, Tables, Counts
<1>3. IsFiniteSet(permitted) /\ permitted \subseteq Requests /\ \A q \in permitted : stageOf[q] \in Engines
  BY DEF StatsInv, PermitsHeld
<1>4. IsFiniteSet(now) /\ Cardinality(now) \in Nat /\ Inflight(s) = Cardinality(now)
  BY <1>3, FS_Subset, FS_CardinalityType DEF Inflight
<1>5. PermitsHeld' /\ DOMAIN stageOf' = Requests
  <2>1. IsFiniteSet(permitted')
    BY <1>1, <1>3, FS_AddElement
  <2> QED BY <1>1, <1>3, <2>1 DEF PermitsHeld, StatsInv
<1>6. Inflight(s) + 1 \in Nat
  BY <1>4
<1>7. /\ CountTypes' /\ CountsMatch' /\ CountTypes
      /\ \A t \in Stages : peak'[t] = IF t = s THEN Larger(peak[t], Inflight(s) + 1) ELSE peak[t]
  BY <1>1, <1>2, <1>6, CountedLemma DEF StatsInv
<1>8. BatchesFit'
  BY <1>1, <1>2, <1>6, CountedBatches
<1>9. ASSUME NEW e \in Engines PROVE Inflight(e)' <= peak'[e] /\ peak'[e] <= MaxInflight
  <2>1. Inflight(e) <= peak[e] /\ peak[e] <= MaxInflight /\ peak[e] \in Nat /\ e \in Stages
    BY <1>7, StageNames DEF StatsInv, LevelsFit, CountTypes, Levels
  <2>2. CASE e = s
    <3>1. {q \in permitted' : stageOf'[q] = s} = now \cup {r}
      BY <1>1
    <3>2. Cardinality(now \cup {r}) = Cardinality(now) + 1
      BY <1>1, <1>4, FS_AddElement
    <3>3. Inflight(e)' = Inflight(s) + 1
      BY <1>1, <1>4, <2>2, <3>1, <3>2 DEF Inflight
    <3> QED BY <1>1, <1>4, <1>7, <2>1, <2>2, <3>3, PathAssumption DEF Larger
  <2>3. CASE e # s
    <3>1. {q \in permitted' : stageOf'[q] = e} = {q \in permitted : stageOf[q] = e}
      BY <1>1, <2>3
    <3>2. Inflight(e)' = Inflight(e)
      BY <3>1 DEF Inflight
    <3> QED BY <1>7, <2>1, <2>3, <3>2
  <2> QED BY <2>2, <2>3
<1> QED BY <1>5, <1>7, <1>8, <1>9 DEF StatsInv, LevelsFit

\* The window opens: marks, peaks and samples start together.
LEMMA WindowStartStats ==
  ASSUME StatsInv, MarkWindowStart
  PROVE  StatsInv'
<1> DEFINE now == [s \in Stages |-> IF s \in Engines THEN Inflight(s) ELSE 0]
<1>1. /\ window' = "open" /\ marks' = [marks EXCEPT !.start = counters]
      /\ peak' = now /\ inWindow' = [count |-> Zero, peak |-> now, samples |-> 0]
      /\ probe' = [probe EXCEPT !.index = probe.taken]
      /\ UNCHANGED <<stageOf, permitted, counters>>
  BY DEF MarkWindowStart
<1>2. CountTypes /\ PermitsHeld /\ DOMAIN stageOf = Requests /\ LevelsFit
  BY DEF StatsInv
<1>3. \A e \in Engines : Inflight(e) \in Nat /\ Inflight(e)' = Inflight(e) /\ e \in Stages
  <2> SUFFICES ASSUME NEW e \in Engines
               PROVE  Inflight(e) \in Nat /\ Inflight(e)' = Inflight(e) /\ e \in Stages
    OBVIOUS
  <2>1. IsFiniteSet({q \in permitted : stageOf[q] = e})
    BY <1>2, FS_Subset DEF PermitsHeld
  <2> QED BY <1>1, <2>1, StageNames, FS_CardinalityType DEF Inflight
<1>4. now \in Levels /\ Zero \in Tables /\ \A t \in Stages : Zero[t].begun = 0 /\ Zero[t].ended = 0
  BY <1>3 DEF Levels, Zero, Tables, Counts
<1>5. /\ marks' = [start |-> counters, end |-> marks.end]
      /\ probe' = [taken |-> probe.taken, index |-> probe.taken]
  BY <1>1, <1>2 DEF CountTypes
<1> HIDE DEF now
<1>6. CountTypes'
  BY <1>1, <1>2, <1>4, <1>5 DEF CountTypes
<1>7. \A t \in Stages : Since(t)' = counters[t] /\ Upto(t)' = counters[t] /\ counters[t] \in Counts
  BY <1>1, <1>2, <1>5 DEF Since, Upto, CountTypes, Tables
<1>8. CountsMatch'
  BY <1>1, <1>2, <1>4, <1>5, <1>7 DEF CountsMatch, IsWindowOf, Counts, CountTypes, Levels
<1>9. BatchesFit'
  <2> SUFFICES ASSUME NEW t \in Workers PROVE RowsFit(counters[t], counters[t], peak'[t])
    BY <1>7, StageNames DEF BatchesFit
  <2>1. t \in Stages /\ counters[t] \in Counts /\ peak'[t] \in Nat
    BY <1>1, <1>4, <1>7, StageNames DEF Levels
  <2> QED BY <2>1, NoRowsFit
<1>10. LevelsFit'
  <2> SUFFICES ASSUME NEW e \in Engines PROVE Inflight(e)' <= peak'[e] /\ peak'[e] <= MaxInflight
    BY DEF LevelsFit
  <2>1. peak'[e] = Inflight(e) /\ Inflight(e) <= peak[e] /\ peak[e] <= MaxInflight /\ peak[e] \in Nat
    BY <1>1, <1>2, <1>3 DEF now, LevelsFit, CountTypes, Levels
  <2> QED BY <1>3, <2>1, PathAssumption
<1> QED BY <1>1, <1>2, <1>6, <1>8, <1>9, <1>10 DEF StatsInv, PermitsHeld

\* It closes, with the counters as they are, or a sample is taken.
LEMMA WindowEndStats ==
  ASSUME StatsInv, MarkWindowEnd
  PROVE  StatsInv'
<1>1. /\ window = "open" /\ window' = "closed" /\ marks' = [marks EXCEPT !.end = counters]
      /\ UNCHANGED <<stageOf, permitted, counters, peak, probe, inWindow>>
  BY DEF MarkWindowEnd, MarkEnd
<1>2. /\ CountTypes /\ CountsMatch /\ BatchesFit /\ PermitsHeld /\ DOMAIN stageOf = Requests
      /\ LevelsFit
  BY DEF StatsInv
<1>3. marks' = [start |-> marks.start, end |-> counters]
  BY <1>1, <1>2 DEF CountTypes
<1>4. \A t \in Stages : Since(t)' = Since(t) /\ Upto(t)' = Upto(t)
  BY <1>1, <1>3 DEF Since, Upto
<1>5. CountTypes'
  BY <1>1, <1>2, <1>3 DEF CountTypes
<1>6. CountsMatch'
  BY <1>1, <1>2, <1>4 DEF CountsMatch, CountTypes, Levels
<1>7. BatchesFit'
  BY <1>1, <1>2, <1>4, StageNames DEF BatchesFit
<1>8. PermitsHeld' /\ LevelsFit'
  BY <1>1, <1>2 DEF PermitsHeld, LevelsFit, Inflight
<1> QED BY <1>1, <1>2, <1>5, <1>6, <1>7, <1>8 DEF StatsInv

LEMMA ProbeStats ==
  ASSUME StatsInv, ProbeSamples
  PROVE  StatsInv'
<1>1. /\ window # "closed" /\ probe' = [probe EXCEPT !.taken = @ + 1]
      /\ inWindow' = [inWindow EXCEPT !.samples = @ + (IF window = "open" THEN 1 ELSE 0)]
      /\ UNCHANGED <<stageOf, permitted, counters, peak, window, marks>>
  BY DEF ProbeSamples
<1>2. CountTypes /\ CountsMatch /\ BatchesFit /\ PermitsHeld /\ LevelsFit
  BY DEF StatsInv
<1>3. /\ probe' = [taken |-> probe.taken + 1, index |-> probe.index]
      /\ inWindow' = [count |-> inWindow.count, peak |-> inWindow.peak,
                      samples |-> inWindow.samples + (IF window = "open" THEN 1 ELSE 0)]
  BY <1>1, <1>2 DEF CountTypes
<1>4. CountTypes'
  BY <1>1, <1>2, <1>3 DEF CountTypes
<1>5. CountsMatch'
  BY <1>1, <1>2, <1>3 DEF CountsMatch, CountTypes, Since, Upto
<1>6. BatchesFit' /\ PermitsHeld' /\ LevelsFit'
  BY <1>1, <1>2 DEF BatchesFit, PermitsHeld, LevelsFit, Inflight, Since, Upto
<1> QED BY <1>1, <1>2, <1>4, <1>5, <1>6 DEF StatsInv

LEMMA StatsInitInv == PathInit => StatsInv
<1> SUFFICES ASSUME PathInit PROVE StatsInv
  OBVIOUS
<1>1. Zero \in Tables /\ \A t \in Stages : Zero[t].begun = 0 /\ Zero[t].ended = 0
  BY DEF Zero, Tables, Counts
<1>2. CountTypes /\ CountsMatch /\ PermitsHeld /\ DOMAIN stageOf = Requests
  BY <1>1, FS_EmptySet DEF PathInit, CountTypes, CountsMatch, PermitsHeld, Levels
<1>3. BatchesFit
  <2> SUFFICES ASSUME NEW t \in Workers PROVE RowsFit(Zero[t], Zero[t], 0)
    BY StageNames DEF PathInit, BatchesFit, Since, Upto
  <2> QED BY <1>1, StageNames DEF RowsFit, Tables, Counts
<1>4. LevelsFit
  <2> SUFFICES ASSUME NEW e \in Engines PROVE Inflight(e) <= peak[e] /\ peak[e] <= MaxInflight
    BY DEF LevelsFit
  <2>1. {q \in permitted : stageOf[q] = e} = {}
    BY DEF PathInit
  <2>2. Inflight(e) = 0 /\ peak[e] = 0
    BY <2>1, StageNames, FS_EmptySet DEF PathInit, Inflight
  <2> QED BY <2>2, PathAssumption
<1> QED BY <1>2, <1>3, <1>4 DEF StatsInv

LEMMA StatsNextInv == StatsInv /\ [PathNext]_pathVars => StatsInv'
<1> SUFFICES ASSUME StatsInv, [PathNext]_pathVars PROVE StatsInv'
  OBVIOUS
<1>1. /\ permitted \subseteq Requests /\ \A r \in permitted : stageOf[r] \in Engines
      /\ DOMAIN stageOf = Requests
  BY DEF StatsInv, PermitsHeld
<1>2. \A t \in Workers : t \in Stages /\ t \notin Engines
  BY StageNames
<1>3. ASSUME NEW r \in Requests, Admit(r) PROVE StatsInv'
  <2> DEFINE to == IF mode = "react" THEN "generator" ELSE Chain[1]
             adds == Passing("new", [begun |-> 0, ended |-> 0], to, 1)
  <2>1. /\ stageOf[r] = "new" /\ Arrive({r}, to) /\ Counted(adds, to, 0) /\ UNCHANGED permitted
    BY <1>3 DEF Admit
  <2>2. to \in Stages /\ r \notin permitted
    BY <1>1, <2>1, StageNames
  <2> HIDE DEF to
  <2>3. /\ adds \in Tables
        /\ \A t \in Workers : adds[t].begun = 0 /\ adds[t].ended = 0
    BY <1>2 DEF Passing, Tables, Counts
  <2> HIDE DEF adds
  <2> QED BY <2>1, <2>2, <2>3, MovingStats
<1>4. ASSUME NEW r \in Requests, NEW to, NEW text, Generated(r, to, text), stageOf[r] \in Engines
      PROVE  StatsInv'
  <2> DEFINE s == stageOf[r]
             adds == Passing(s, [begun |-> 0, ended |-> 1], to, 1)
  <2>1. Arrive({r}, to) /\ Counted(adds, s, 0) /\ permitted' = permitted \ {r}
    BY <1>4 DEF Generated
  <2>2. s \in Stages /\ s \notin Workers
    BY <1>4, StageNames
  <2>3. /\ adds \in Tables
        /\ \A t \in Workers : adds[t].begun = 0 /\ adds[t].ended = 0
    BY <1>2, <2>2 DEF Passing, Tables, Counts
  <2> HIDE DEF adds
  <2> QED BY <2>1, <2>2, <2>3, MovingStats
<1>5. ASSUME NEW r \in Requests, PureAlone(r) PROVE StatsInv'
  <2> DEFINE s == stageOf[r]
             adds == Passing("none", [begun |-> 0, ended |-> 0], Behind(s), 1)
  <2>1. /\ s \in Direct /\ Arrive({r}, Behind(s)) /\ Counted(adds, s, 0) /\ UNCHANGED permitted
    BY <1>5 DEF PureAlone
  <2>2. s \in Stages /\ r \notin permitted
    BY <1>1, <2>1, PathAssumption
  <2>3. /\ adds \in Tables
        /\ \A t \in Workers : adds[t].begun = 0 /\ adds[t].ended = 0
    BY <1>2 DEF Passing, Tables, Counts
  <2> HIDE DEF adds
  <2> QED BY <2>1, <2>2, <2>3, MovingStats
<1>6. ASSUME NEW s \in Stages, NEW batch \in SUBSET Requests, ServeBatch(s, batch)
      PROVE  StatsInv'
  <2> DEFINE size == Cardinality(batch)
             to == IF mode = "sequential" THEN Behind(s) ELSE Searched(s)
             adds == Passing(s, [begun |-> 1, ended |-> size], to, size)
  <2>1. /\ s \in Workers /\ size \in 1 .. BatchSize /\ \A r \in batch : stageOf[r] = s
        /\ Arrive(batch, to) /\ Counted(adds, s, size) /\ UNCHANGED permitted
    BY <1>6 DEF ServeBatch
  <2>2. size \in Nat /\ s \notin Engines /\ permitted' = permitted \ batch
    BY <1>1, <2>1, StageNames, PathAssumption
  <2> HIDE DEF size, to
  <2>3. /\ adds \in Tables
        /\ \A t \in Workers : /\ adds[t].begun = (IF t = s THEN 1 ELSE 0)
                              /\ adds[t].ended = (IF t = s THEN size ELSE 0)
    BY <2>2, PassingTables
  <2> HIDE DEF adds
  <2> QED BY <2>1, <2>2, <2>3, MovingStats
<1>7. ASSUME NEW s \in Stages, NEW batch \in SUBSET Requests, BatchRaises(s, batch)
      PROVE  StatsInv'
  <2>1. /\ s \notin Engines /\ \A r \in batch : stageOf[r] = s
        /\ Arrive(batch, "failed") /\ CountersAlone /\ UNCHANGED permitted
    BY <1>7, StageNames DEF BatchRaises
  <2>2. permitted' = permitted \ batch
    BY <1>1, <2>1
  <2> QED BY <2>1, <2>2, UncountedStats
<1>8. ASSUME NEW r \in Requests, LeavesEngine(r) PROVE StatsInv'
  BY <1>8, UncountedStats DEF LeavesEngine, PermitBack
<1>9. ASSUME NEW r \in Requests, Assemble(r) PROVE StatsInv'
  <2>1. /\ stageOf[r] = "assembling" /\ Arrive({r}, "answered") /\ CountersAlone
        /\ UNCHANGED permitted
    BY <1>9 DEF Assemble
  <2>2. permitted' = permitted \ {r}
    BY <1>1, <2>1, StageNames
  <2> QED BY <2>1, <2>2, UncountedStats
<1>10. CASE UNCHANGED pathVars
  BY <1>10 DEF pathVars, StatsInv, CountTypes, CountsMatch, BatchesFit, PermitsHeld, LevelsFit,
               Since, Upto, Inflight
<1>11. ASSUME NEW r \in Requests, \/ Answer(r) \/ Expand(r) \/ \E text \in Outputs : Think(r, text)
       PROVE  StatsInv'
  BY <1>4, <1>11, StageNames DEF Answer, Expand, Think
<1> QED
  BY <1>3, <1>5, <1>6, <1>7, <1>8, <1>9, <1>10, <1>11, AcquireStats, WindowStartStats,
     WindowEndStats, ProbeStats
     DEF PathNext

\* start_measurement_locked and finish_measurement_locked cut counters, peaks and samples
\* so that what is exported is the window's, whoever is on the way at either end.
THEOREM WindowTheorem == PathSpec => []WindowStatsAreTheWindow
<1>1. StatsInv => WindowStatsAreTheWindow
  <2> SUFFICES ASSUME StatsInv PROVE WindowStatsAreTheWindow
    OBVIOUS
  <2>1. CountTypes /\ CountsMatch /\ BatchesFit /\ LevelsFit
    BY DEF StatsInv
  <2>2. \A s \in Stages : /\ Windowed(s) = [begun |-> Upto(s).begun - Since(s).begun,
                                            ended |-> Upto(s).ended - Since(s).ended]
                          /\ Upto(s) \in Counts /\ Since(s) \in Counts
    BY <2>1 DEF Windowed, Upto, Since, CountTypes, Tables, Zero, Counts
  <2>3. ASSUME NEW s \in Stages, window # "before"
        PROVE  /\ Windowed(s) = inWindow.count[s] /\ peak[s] >= inWindow.peak[s]
               /\ window = "open" => peak[s] = inWindow.peak[s]
    <3>1. inWindow.count[s] \in Counts /\ IsWindowOf(Since(s), Upto(s), inWindow.count[s])
      BY <2>1, <2>3 DEF CountTypes, Tables, CountsMatch
    <3>2. /\ Upto(s).begun - Since(s).begun = inWindow.count[s].begun
          /\ Upto(s).ended - Since(s).ended = inWindow.count[s].ended
      BY <2>2, <3>1 DEF IsWindowOf, Counts
    <3> QED BY <2>1, <2>2, <2>3, <3>1, <3>2 DEF CountsMatch, Counts
  <2>4. window # "before" => /\ inWindow.samples > 0 => EngineSamples = inWindow.samples
                             /\ CpuSamples \in {0, inWindow.samples}
    BY <2>1 DEF CountsMatch, CountTypes, EngineSamples, CpuSamples, InWindow
  <2>5. ASSUME NEW s \in Workers
        PROVE  WorkerStats(s).rows <= WorkerStats(s).batches * WorkerStats(s).largest
    <3>1. s \in Stages /\ RowsFit(Since(s), Upto(s), peak[s])
      BY <2>1, StageNames DEF BatchesFit
    <3>2. PICK b \in Nat, n \in Nat :
            /\ Upto(s).begun = Since(s).begun + b /\ Upto(s).ended = Since(s).ended + n
            /\ n <= b * peak[s]
      BY <3>1 DEF RowsFit
    <3>3. Windowed(s).begun = b /\ Windowed(s).ended = n
      BY <2>2, <3>1, <3>2 DEF Counts
    <3> QED BY <3>2, <3>3 DEF WorkerStats
  <2>6. \A s \in Engines : /\ EngineStats(s).inflight <= EngineStats(s).highest
                           /\ EngineStats(s).highest <= MaxInflight
    BY <2>1 DEF LevelsFit, EngineStats
  <2> QED BY <2>3, <2>4, <2>5, <2>6 DEF WindowStatsAreTheWindow
<1> QED BY <1>1, StatsInitInv, StatsNextInv, PTL DEF PathSpec

-----------------------------------------------------------------------------
(***************************************************************************)
(* The client of an engine.  For any calls one after the other, any prompts *)
(* and any way the ids of event loops come back.                            *)
(***************************************************************************)

ClientTypes ==
  /\ seqs \in Int /\ call \in [Calls -> {"new", "running", "raising", "over"}]
  /\ loop \in [Calls -> LoopIds] /\ sessions \in [LoopIds -> Calls \cup {0}]
  /\ DOMAIN post = Jobs /\ DOMAIN over = Jobs
  /\ again \in [Jobs -> BOOLEAN] /\ reply \in [Jobs -> BOOLEAN] /\ ran \in [Jobs -> Nat]

\* Calls run one after the other.
OneAfterTheOther == \A c, k \in Calls : c < k /\ call[k] # "new" => call[c] = "over"

\* A request is under way only while its call lives; how often the engine has run it
\* follows from the attempt it is on and from whether its answer is on the way.
JobOk(k, p) ==
  LET j == <<k, p>> IN
  /\ call[k] = "new" => post[j] = "waiting"
  /\ ~CallLives(k) => post[j] # "posting"
  /\ CallLives(k) /\ post[j] = "answered" => ran[j] >= 1
  /\ ran[j] <= 2 /\ (~again[j] \/ ~reply[j] => ran[j] <= 1)
  /\ ~again[j] /\ ~reply[j] => ran[j] = 0
  /\ reply[j] => ran[j] >= 1
  /\ measured => over[j] \in {0, k}
JobsOk == \A k \in Calls, p \in Prompts : JobOk(k, p)

\* A measured session belongs to the call that lives in the loop of its id.
SessionsLive ==
  measured => \A i \in LoopIds :
                sessions[i] # 0 => CallLives(sessions[i]) /\ loop[sessions[i]] = i

StreamsLimited == \A k \in Calls : Cardinality(Streams(k)) <= AtLeast1(seqs)

\* A call that raises, or has ended without all answers, has a failed request.
HasFailed(k) == \E p \in Prompts : post[<<k, p>>] = "failed"
Outcomes ==
  \A k \in Calls :
    /\ call[k] = "raising" => HasFailed(k)
    /\ call[k] = "over" => HasFailed(k) \/ \A p \in Prompts : post[<<k, p>>] = "answered"

ClientInv ==
  /\ ClientTypes /\ OneAfterTheOther /\ JobsOk /\ SessionsLive /\ StreamsLimited /\ Outcomes

LEMMA OneLives ==
  ASSUME ClientInv, NEW c \in Calls, NEW k \in Calls, CallLives(c), CallLives(k)
  PROVE  c = k
<1>1. c \in Nat /\ k \in Nat
  BY ClientAssumption
<1>2. call[c] \notin {"new", "over"} /\ call[k] \notin {"new", "over"}
  BY DEF CallLives
<1>3. c < k \/ k < c \/ c = k
  BY <1>1
<1> QED BY <1>2, <1>3 DEF ClientInv, OneAfterTheOther

LEMMA StreamsFinite ==
  ASSUME NEW k
  PROVE  IsFiniteSet(Streams(k)) /\ Cardinality(Streams(k)) \in Nat
<1>1. Streams(k) \subseteq Prompts
  BY DEF Streams
<1> QED BY <1>1, ClientAssumption, FS_Subset, FS_CardinalityType

LEMMA ClientInitInv == ClientInit => ClientInv
<1> SUFFICES ASSUME ClientInit PROVE ClientInv
  OBVIOUS
<1>1. /\ post = [j \in Jobs |-> "waiting"] /\ over = [j \in Jobs |-> 0]
      /\ again = [j \in Jobs |-> FALSE] /\ reply = [j \in Jobs |-> FALSE]
      /\ ran = [j \in Jobs |-> 0] /\ call = [k \in Calls |-> "new"]
      /\ sessions = [i \in LoopIds |-> 0] /\ seqs \in MaxNumSeqs /\ loop \in [Calls -> LoopIds]
  BY DEF ClientInit
<1>2. \A k \in Calls, p \in Prompts : <<k, p>> \in Jobs
  BY DEF Jobs
<1>3. ClientTypes
  BY <1>1, ClientAssumption DEF ClientTypes
<1>4. JobsOk
  <2> SUFFICES ASSUME NEW k \in Calls, NEW p \in Prompts PROVE JobOk(k, p)
    BY DEF JobsOk
  <2>1. /\ post[<<k, p>>] = "waiting" /\ ran[<<k, p>>] = 0 /\ over[<<k, p>>] = 0
        /\ ~again[<<k, p>>] /\ ~reply[<<k, p>>]
    BY <1>1, <1>2
  <2> QED BY <2>1 DEF JobOk
<1>5. StreamsLimited
  <2> SUFFICES ASSUME NEW k \in Calls PROVE Cardinality(Streams(k)) <= AtLeast1(seqs)
    BY DEF StreamsLimited
  <2>1. Streams(k) = {}
    BY <1>1, <1>2 DEF Streams
  <2> QED BY <1>3, <2>1, FS_EmptySet DEF AtLeast1, ClientTypes
<1> QED BY <1>1, <1>3, <1>4, <1>5
        DEF ClientInv, OneAfterTheOther, SessionsLive, Outcomes

\* Something happens to one request that is under way.
LEMMA JobStep ==
  ASSUME ClientInv, NEW k \in Calls, NEW p \in Prompts, CallLives(k),
         post[<<k, p>>] = "posting", UNCHANGED <<measured, seqs, call, loop, sessions>>,
         ClientTypes',
         \A c \in Calls, q \in Prompts : c # k \/ q # p =>
           /\ post'[<<c, q>>] = post[<<c, q>>] /\ over'[<<c, q>>] = over[<<c, q>>]
           /\ again'[<<c, q>>] = again[<<c, q>>] /\ reply'[<<c, q>>] = reply[<<c, q>>]
           /\ ran'[<<c, q>>] = ran[<<c, q>>],
         JobOk(k, p)'
  PROVE  ClientInv'
<1>1. /\ ClientTypes /\ OneAfterTheOther /\ JobsOk /\ SessionsLive /\ StreamsLimited /\ Outcomes
  BY DEF ClientInv
<1>2. OneAfterTheOther' /\ SessionsLive'
  BY <1>1 DEF OneAfterTheOther, SessionsLive, CallLives
<1>3. JobsOk'
  <2> SUFFICES ASSUME NEW c \in Calls, NEW q \in Prompts PROVE JobOk(c, q)'
    BY DEF JobsOk
  <2>1. CASE c # k \/ q # p
    BY <1>1, <2>1 DEF JobsOk, JobOk, CallLives
  <2>2. CASE c = k /\ q = p
    BY <2>2
  <2> QED BY <2>1, <2>2
<1>4. StreamsLimited'
  <2> SUFFICES ASSUME NEW c \in Calls PROVE Cardinality(Streams(c)') <= AtLeast1(seqs)
    BY DEF StreamsLimited, AtLeast1
  <2>1. Streams(c)' \subseteq Streams(c)
    BY DEF Streams
  <2>2. Cardinality(Streams(c)') <= Cardinality(Streams(c)) /\ Cardinality(Streams(c)) \in Nat
        /\ Cardinality(Streams(c)') \in Nat
    BY <2>1, StreamsFinite, FS_Subset, FS_CardinalityType
  <2> QED BY <1>1, <2>2 DEF StreamsLimited, AtLeast1, ClientTypes
<1>5. Outcomes'
  <2> SUFFICES ASSUME NEW c \in Calls
               PROVE  /\ call[c] = "raising" => HasFailed(c)'
                      /\ call[c] = "over" =>
                           HasFailed(c)' \/ \A q \in Prompts : post'[<<c, q>>] = "answered"
    BY DEF Outcomes
  <2>1. HasFailed(c) => HasFailed(c)'
    BY DEF HasFailed
  <2>2. call[c] = "over" => c # k
    BY DEF CallLives
  <2> QED BY <1>1, <2>1, <2>2 DEF Outcomes
<1> QED BY <1>2, <1>3, <1>4, <1>5 DEF ClientInv

LEMMA SendRequestInv ==
  ASSUME ClientInv, NEW k \in Calls, NEW p \in Prompts, SendRequest(k, p)
  PROVE  ClientInv'
<1> DEFINE s == IF sessions[loop[k]] = 0 THEN k ELSE sessions[loop[k]]
<1>1. /\ CallLives(k) /\ post[<<k, p>>] = "waiting" /\ HasRoom(k)
      /\ post' = [post EXCEPT ![<<k, p>>] = "posting"]
      /\ over' = [over EXCEPT ![<<k, p>>] = s] /\ sessions' = [sessions EXCEPT ![loop[k]] = s]
      /\ UNCHANGED <<measured, seqs, call, loop, again, reply, ran>>
  BY DEF SendRequest
<1>2. /\ ClientTypes /\ OneAfterTheOther /\ JobsOk /\ SessionsLive /\ StreamsLimited /\ Outcomes
  BY DEF ClientInv
<1>3. /\ loop[k] \in LoopIds /\ s \in Calls /\ k # 0
      /\ measured => s = k
  <2>1. loop[k] \in LoopIds /\ sessions[loop[k]] \in Calls \cup {0} /\ k # 0
    BY <1>2, ClientAssumption DEF ClientTypes
  <2>2. CASE sessions[loop[k]] = 0
    BY <2>1, <2>2
  <2>3. CASE sessions[loop[k]] # 0
    <3>1. sessions[loop[k]] \in Calls
      BY <2>1, <2>3
    <3>2. measured => CallLives(sessions[loop[k]])
      BY <1>2, <2>1, <2>3 DEF SessionsLive
    <3> QED BY <1>1, <2>1, <2>3, <3>1, <3>2, OneLives
  <2> QED BY <2>2, <2>3
<1> HIDE DEF s
<1>4. \A c \in Calls, q \in Prompts :
        <<c, q>> \in Jobs /\ (<<c, q>> = <<k, p>> => c = k /\ q = p)
  BY DEF Jobs
<1>5. \A c \in Calls, q \in Prompts :
        /\ post'[<<c, q>>] = (IF c = k /\ q = p THEN "posting" ELSE post[<<c, q>>])
        /\ over'[<<c, q>>] = (IF c = k /\ q = p THEN s ELSE over[<<c, q>>])
  BY <1>1, <1>2, <1>4 DEF ClientTypes
<1>6. ClientTypes' /\ OneAfterTheOther'
  BY <1>1, <1>2, <1>3 DEF ClientTypes, OneAfterTheOther
<1>7. JobsOk'
  <2> SUFFICES ASSUME NEW c \in Calls, NEW q \in Prompts PROVE JobOk(c, q)'
    BY DEF JobsOk
  <2>1. JobOk(c, q) /\ (CallLives(c)' <=> CallLives(c))
    BY <1>1, <1>2 DEF JobsOk, CallLives
  <2>2. CASE c = k /\ q = p
    <3>1. post'[<<c, q>>] = "posting" /\ over'[<<c, q>>] = s
      BY <1>5, <2>2
    <3>2. CallLives(c) /\ call'[c] # "new"
      BY <1>1, <2>2 DEF CallLives
    <3> QED BY <1>1, <1>3, <2>1, <2>2, <3>1, <3>2 DEF JobOk
  <2>3. CASE ~(c = k /\ q = p)
    <3>1. post'[<<c, q>>] = post[<<c, q>>] /\ over'[<<c, q>>] = over[<<c, q>>]
      BY <1>5, <2>3
    <3> QED BY <1>1, <2>1, <3>1 DEF JobOk
  <2> QED BY <2>2, <2>3
<1>8. SessionsLive'
  BY <1>1, <1>2, <1>3 DEF SessionsLive, ClientTypes, CallLives
<1>9. StreamsLimited'
  <2> SUFFICES ASSUME NEW c \in Calls PROVE Cardinality(Streams(c)') <= AtLeast1(seqs)
    BY <1>1 DEF StreamsLimited, AtLeast1
  <2>1. CASE c = k
    <3>1. Streams(c)' = Streams(c) \cup {p} /\ p \notin Streams(c)
      BY <1>1, <1>5, <2>1 DEF Streams
    <3>2. Cardinality(Streams(c)') = Cardinality(Streams(c)) + 1
      BY <3>1, StreamsFinite, FS_AddElement
    <3>3. Cardinality(Streams(c)) < StreamLimit(Cardinality(Prompts), seqs, 0)
      BY <1>1, <2>1 DEF HasRoom
    <3>4. Cardinality(Prompts) \in Nat /\ seqs \in Int /\ Cardinality(Streams(c)) \in Nat
      BY <1>2, StreamsFinite, ClientAssumption, FS_CardinalityType DEF ClientTypes
    <3>5. StreamLimit(Cardinality(Prompts), seqs, 0) <= AtLeast1(seqs)
          /\ StreamLimit(Cardinality(Prompts), seqs, 0) \in Int /\ AtLeast1(seqs) \in Int
      BY <3>4 DEF StreamLimit, AtLeast1, Smaller, PositiveEnv
    <3> QED BY <3>2, <3>3, <3>4, <3>5
  <2>2. CASE c # k
    <3>1. Streams(c)' = Streams(c)
      BY <1>5, <2>2 DEF Streams
    <3> QED BY <1>2, <3>1 DEF StreamsLimited
  <2> QED BY <2>1, <2>2
<1>10. Outcomes'
  <2>1. \A c \in Calls : HasFailed(c) => HasFailed(c)'
    BY <1>1, <1>5 DEF HasFailed
  <2> QED BY <1>1, <1>2, <1>5, <2>1 DEF Outcomes, CallLives
<1> QED BY <1>6, <1>7, <1>8, <1>9, <1>10 DEF ClientInv

\* asyncio.run is left: what runs is cancelled, and a measured session is closed.
LEMMA LeaveLoopInv ==
  ASSUME ClientInv, NEW k \in Calls, LeaveLoop(k)
  PROVE  ClientInv'
<1>1. /\ \/ call[k] = "raising"
         \/ call[k] = "running" /\ \A p \in Prompts : post[<<k, p>>] = "answered"
      /\ call' = [call EXCEPT ![k] = "over"] /\ sessions' = CloseSessions(k)
      /\ post' = [j \in Jobs |-> IF j[1] = k /\ post[j] \in {"waiting", "posting"}
                                 THEN "cancelled" ELSE post[j]]
      /\ over' = [j \in Jobs |-> 0] /\ again' = [j \in Jobs |-> FALSE]
      /\ reply' = [j \in Jobs |-> FALSE] /\ ran' = [j \in Jobs |-> 0]
      /\ UNCHANGED <<measured, seqs, loop>>
  BY DEF LeaveLoop
<1>2. /\ ClientTypes /\ OneAfterTheOther /\ JobsOk /\ SessionsLive /\ StreamsLimited /\ Outcomes
      /\ CallLives(k)
  BY <1>1 DEF ClientInv, CallLives
<1>3. \A c \in Calls : call'[c] = IF c = k THEN "over" ELSE call[c]
  BY <1>1, <1>2 DEF ClientTypes
<1>4. \A c \in Calls : CallLives(c) => c = k
  BY <1>2, OneLives
<1>5. \A c \in Calls : ~CallLives(c)'
  BY <1>3, <1>4 DEF CallLives
<1>6. \A c \in Calls, q \in Prompts : <<c, q>> \in Jobs /\ <<c, q>>[1] = c
  BY DEF Jobs
<1>7. \A c \in Calls, q \in Prompts :
        /\ post'[<<c, q>>] = (IF c = k /\ post[<<c, q>>] \in {"waiting", "posting"}
                              THEN "cancelled" ELSE post[<<c, q>>])
        /\ over'[<<c, q>>] = 0 /\ again'[<<c, q>>] = FALSE /\ reply'[<<c, q>>] = FALSE
        /\ ran'[<<c, q>>] = 0
  BY <1>1, <1>6
<1>8. ClientTypes'
  <2>1. sessions' \in [LoopIds -> Calls \cup {0}]
    BY <1>1, <1>2 DEF CloseSessions, ClientTypes
  <2> QED BY <1>1, <1>2, <2>1 DEF ClientTypes
<1>9. OneAfterTheOther'
  BY <1>2, <1>3 DEF OneAfterTheOther, CallLives
<1>10. JobsOk'
  <2> SUFFICES ASSUME NEW c \in Calls, NEW q \in Prompts PROVE JobOk(c, q)'
    BY DEF JobsOk
  <2>1. JobOk(c, q)
    BY <1>2 DEF JobsOk
  <2>2. post'[<<c, q>>] # "posting"
    BY <1>4, <1>7, <2>1 DEF JobOk
  <2>3. call'[c] = "new" => post'[<<c, q>>] = "waiting"
    <3> SUFFICES ASSUME call'[c] = "new" PROVE post'[<<c, q>>] = "waiting"
      OBVIOUS
    <3>1. c # k /\ call[c] = "new"
      BY <1>3
    <3> QED BY <1>7, <2>1, <3>1 DEF JobOk
  <2>4. /\ over'[<<c, q>>] = 0 /\ ran'[<<c, q>>] = 0
        /\ ~again'[<<c, q>>] /\ ~reply'[<<c, q>>] /\ ~CallLives(c)'
    BY <1>5, <1>7
  <2> QED BY <2>2, <2>3, <2>4 DEF JobOk
<1>11. SessionsLive'
  <2> SUFFICES ASSUME measured', NEW i \in LoopIds PROVE sessions'[i] = 0
    BY DEF SessionsLive
  <2>1. sessions' = [sessions EXCEPT ![loop[k]] = 0] /\ sessions[i] \in Calls \cup {0}
    BY <1>1, <1>2 DEF CloseSessions, ClientTypes
  <2>2. CASE i = loop[k]
    BY <1>2, <2>1, <2>2 DEF ClientTypes
  <2>3. CASE i # loop[k]
    <3>1. sessions'[i] = sessions[i]
      BY <1>2, <2>1, <2>3 DEF ClientTypes
    <3>2. sessions[i] # 0 => CallLives(sessions[i]) /\ loop[sessions[i]] = i
      BY <1>1, <1>2 DEF SessionsLive
    <3> QED BY <1>4, <2>1, <2>3, <3>1, <3>2
  <2> QED BY <2>2, <2>3
<1>12. StreamsLimited'
  <2> SUFFICES ASSUME NEW c \in Calls PROVE Cardinality(Streams(c)') <= AtLeast1(seqs)
    BY <1>1 DEF StreamsLimited, AtLeast1
  <2>1. Streams(c)' = {}
    BY <1>5, <1>10 DEF Streams, JobsOk, JobOk
  <2> QED BY <1>2, <2>1, FS_EmptySet DEF AtLeast1, ClientTypes
<1>13. Outcomes'
  <2> SUFFICES ASSUME NEW c \in Calls
               PROVE  /\ call'[c] = "raising" => HasFailed(c)'
                      /\ call'[c] = "over" =>
                           HasFailed(c)' \/ \A q \in Prompts : post'[<<c, q>>] = "answered"
    BY DEF Outcomes
  <2>1. HasFailed(c) => HasFailed(c)'
    BY <1>7 DEF HasFailed
  <2>2. (\A q \in Prompts : post[<<c, q>>] = "answered") =>
          \A q \in Prompts : post'[<<c, q>>] = "answered"
    BY <1>7
  <2> QED BY <1>1, <1>2, <1>3, <2>1, <2>2 DEF Outcomes
<1> QED BY <1>8, <1>9, <1>10, <1>11, <1>12, <1>13 DEF ClientInv

LEMMA ClientNextInv == ClientInv /\ [ClientNext]_clientVars => ClientInv'
<1> SUFFICES ASSUME ClientInv, [ClientNext]_clientVars PROVE ClientInv'
  OBVIOUS
<1>1. /\ ClientTypes /\ OneAfterTheOther /\ JobsOk /\ SessionsLive /\ StreamsLimited /\ Outcomes
  BY DEF ClientInv
<1>2. \A c, k \in Calls, q, p \in Prompts :
        <<c, q>> \in Jobs /\ (<<c, q>> = <<k, p>> => c = k /\ q = p)
  BY DEF Jobs
<1>3. ASSUME NEW k \in Calls, GenerateBatch(k) PROVE ClientInv'
  <2>1. /\ call[k] = "new" /\ \A c \in Calls : c < k => call[c] = "over"
        /\ call' = [call EXCEPT ![k] = "running"]
        /\ UNCHANGED <<measured, seqs, loop, sessions, post, over, again, reply, ran>>
    BY <1>3 DEF GenerateBatch
  <2>2. \A c \in Calls : call'[c] = IF c = k THEN "running" ELSE call[c]
    BY <1>1, <2>1 DEF ClientTypes
  <2>3. \A c \in Calls : k < c => call[c] = "new"
    BY <1>1, <2>1 DEF OneAfterTheOther
  <2>4. OneAfterTheOther'
    <3> SUFFICES ASSUME NEW c \in Calls, NEW d \in Calls, c < d, call'[d] # "new"
                 PROVE  call'[c] = "over"
      BY DEF OneAfterTheOther
    <3>1. c # k
      BY <2>2, <2>3, ClientAssumption
    <3> QED BY <1>1, <2>1, <2>2, <3>1 DEF OneAfterTheOther
  <2>5. \A p \in Prompts : post[<<k, p>>] = "answered" => ran[<<k, p>>] >= 1
    BY <1>1, <2>1 DEF JobsOk, JobOk
  <2> QED BY <1>1, <2>1, <2>2, <2>4, <2>5
          DEF ClientInv, ClientTypes, JobsOk, JobOk, SessionsLive, StreamsLimited, Streams,
              Outcomes, HasFailed, CallLives
<1>4. ASSUME NEW k \in Calls, GatherRaises(k) PROVE ClientInv'
  <2>1. /\ call[k] = "running" /\ HasFailed(k) /\ call' = [call EXCEPT ![k] = "raising"]
        /\ UNCHANGED <<measured, seqs, loop, sessions, post, over, again, reply, ran>>
    BY <1>4 DEF GatherRaises, HasFailed
  <2>2. \A c \in Calls : call'[c] = IF c = k THEN "raising" ELSE call[c]
    BY <1>1, <2>1 DEF ClientTypes
  <2>3. \A c \in Calls : CallLives(c)' <=> CallLives(c)
    BY <2>1, <2>2 DEF CallLives
  <2>4. JobsOk'
    <3> SUFFICES ASSUME NEW c \in Calls, NEW p \in Prompts PROVE JobOk(c, p)'
      BY DEF JobsOk
    <3>1. JobOk(c, p) /\ (CallLives(c)' <=> CallLives(c)) /\ (call'[c] = "new" => call[c] = "new")
      BY <1>1, <2>2, <2>3 DEF JobsOk
    <3> QED BY <2>1, <3>1 DEF JobOk
  <2>5. SessionsLive'
    BY <1>1, <2>1, <2>2, ClientAssumption DEF SessionsLive, CallLives, ClientTypes
  <2> QED BY <1>1, <2>1, <2>2, <2>4, <2>5
          DEF ClientInv, ClientTypes, OneAfterTheOther, StreamsLimited, Streams, Outcomes,
              HasFailed
<1>5. ASSUME NEW k \in Calls, NEW p \in Prompts, EngineRuns(k, p) PROVE ClientInv'
  <2>1. /\ CallLives(k) /\ post[<<k, p>>] = "posting" /\ ~reply[<<k, p>>]
        /\ reply' = [reply EXCEPT ![<<k, p>>] = TRUE]
        /\ ran' = [ran EXCEPT ![<<k, p>>] = @ + 1]
        /\ UNCHANGED <<measured, seqs, call, loop, sessions, post, over, again>>
    BY <1>5 DEF EngineRuns
  <2>2. \A c \in Calls, q \in Prompts :
          c # k \/ q # p => /\ reply'[<<c, q>>] = reply[<<c, q>>]
                            /\ ran'[<<c, q>>] = ran[<<c, q>>]
    BY <1>1, <1>2, <2>1 DEF ClientTypes
  <2>3. /\ ClientTypes' /\ ran[<<k, p>>] \in Nat
        /\ reply'[<<k, p>>] /\ ran'[<<k, p>>] = ran[<<k, p>>] + 1
    BY <1>1, <1>2, <2>1 DEF ClientTypes
  <2>4. JobOk(k, p)'
    BY <1>1, <2>1, <2>2, <2>3 DEF JobsOk, JobOk, CallLives
  <2> QED BY <2>1, <2>2, <2>3, <2>4, JobStep
<1>6. ASSUME NEW k \in Calls, NEW p \in Prompts, NEW how \in {"answered", "failed"},
             CallLives(k), post[<<k, p>>] = "posting", how = "answered" => reply[<<k, p>>],
             PostEnds(k, p, how)
      PROVE  ClientInv'
  <2>1. /\ post' = [post EXCEPT ![<<k, p>>] = how]
        /\ UNCHANGED <<measured, seqs, call, loop, sessions, over, again, reply, ran>>
    BY <1>6 DEF PostEnds
  <2>2. \A c \in Calls, q \in Prompts :
          post'[<<c, q>>] = IF c = k /\ q = p THEN how ELSE post[<<c, q>>]
    BY <1>1, <1>2, <2>1 DEF ClientTypes
  <2>3. ClientTypes'
    BY <1>1, <2>1 DEF ClientTypes
  <2>4. JobOk(k, p)'
    <3>1. JobOk(k, p) /\ CallLives(k) /\ (CallLives(k)' <=> CallLives(k))
      BY <1>1, <1>6, <2>1 DEF JobsOk, CallLives
    <3>2. post'[<<k, p>>] = how /\ how # "posting" /\ call[k] # "new"
      BY <1>6, <2>2 DEF CallLives
    <3> QED BY <1>6, <2>1, <3>1, <3>2 DEF JobOk
  <2>5. \A c \in Calls, q \in Prompts : c # k \/ q # p =>
          /\ post'[<<c, q>>] = post[<<c, q>>] /\ over'[<<c, q>>] = over[<<c, q>>]
          /\ again'[<<c, q>>] = again[<<c, q>>] /\ reply'[<<c, q>>] = reply[<<c, q>>]
          /\ ran'[<<c, q>>] = ran[<<c, q>>]
    BY <2>1, <2>2
  <2>6. UNCHANGED <<measured, seqs, call, loop, sessions>>
    BY <2>1
  <2> QED BY <1>6, <2>3, <2>4, <2>5, <2>6, JobStep
<1>7. ASSUME NEW k \in Calls, NEW p \in Prompts, StaleConnection(k, p) PROVE ClientInv'
  <2>1. CASE RetriesOnce(<<k, p>>)
    BY <1>6, <1>7, <2>1 DEF StaleConnection
  <2>2. CASE ~RetriesOnce(<<k, p>>)
    <3>1. /\ CallLives(k) /\ post[<<k, p>>] = "posting" /\ ~again[<<k, p>>]
          /\ again' = [again EXCEPT ![<<k, p>>] = TRUE]
          /\ reply' = [reply EXCEPT ![<<k, p>>] = FALSE]
          /\ UNCHANGED <<measured, seqs, call, loop, sessions, post, over, ran>>
      BY <1>7, <2>2 DEF StaleConnection, RetriesOnce
    <3>2. \A c \in Calls, q \in Prompts :
            c # k \/ q # p => /\ reply'[<<c, q>>] = reply[<<c, q>>]
                              /\ again'[<<c, q>>] = again[<<c, q>>]
      BY <1>1, <1>2, <3>1 DEF ClientTypes
    <3>3. /\ ClientTypes' /\ ran[<<k, p>>] \in Nat
          /\ ~reply'[<<k, p>>] /\ again'[<<k, p>>]
      BY <1>1, <1>2, <3>1 DEF ClientTypes
    <3>4. JobOk(k, p)'
      BY <1>1, <3>1, <3>2, <3>3 DEF JobsOk, JobOk, CallLives
    <3> QED BY <3>1, <3>2, <3>3, <3>4, JobStep
  <2> QED BY <2>1, <2>2
<1>8. ASSUME NEW k \in Calls, NEW p \in Prompts, ReplyArrives(k, p) \/ RequestFails(k, p)
      PROVE  ClientInv'
  BY <1>6, <1>8 DEF ReplyArrives, RequestFails
<1>9. CASE UNCHANGED clientVars
  BY <1>1, <1>9
     DEF clientVars, ClientInv, ClientTypes, OneAfterTheOther, JobsOk, JobOk, SessionsLive,
         StreamsLimited, Streams, Outcomes, HasFailed, CallLives
<1> QED
  BY <1>3, <1>4, <1>5, <1>7, <1>8, <1>9, SendRequestInv, LeaveLoopInv DEF ClientNext

\* generate_batch keeps to its limit, retries once, raises only for a request of its own,
\* and leaves nothing running; no measured request goes over a dead loop's session.
THEOREM CallsTheorem == ClientInit /\ [][ClientNext]_clientVars => []CallsCleanUpAfterThemselves
<1>1. ClientInv => CallsCleanUpAfterThemselves
  <2> SUFFICES ASSUME ClientInv PROVE CallsCleanUpAfterThemselves
    OBVIOUS
  <2>1. ClientTypes /\ JobsOk /\ StreamsLimited /\ Outcomes
    BY DEF ClientInv
  <2>2. ASSUME NEW k \in Calls
        PROVE  LET answered == {p \in Prompts : post[<<k, p>>] = "answered"} IN
               /\ Cardinality(Streams(k)) <= AtLeast1(seqs)
               /\ CallLives(k) => \A p \in answered : ran[<<k, p>>] >= 1
               /\ call[k] = "over" =>
                    /\ Streams(k) = {}
                    /\ answered = Prompts \/ \E p \in Prompts : post[<<k, p>>] = "failed"
    BY <2>1 DEF JobsOk, JobOk, StreamsLimited, Outcomes, HasFailed, Streams, CallLives
  <2>3. ASSUME NEW j \in Jobs PROVE ran[j] <= 2 /\ (measured => over[j] \in {0, j[1]})
    <3>1. PICK k \in Calls, p \in Prompts : j = <<k, p>>
      BY DEF Jobs
    <3>2. JobOk(k, p) /\ ran[j] \in Nat /\ j[1] = k
      BY <2>1, <3>1 DEF JobsOk, ClientTypes
    <3> QED BY <3>1, <3>2 DEF JobOk
  <2> QED BY <2>2, <2>3 DEF CallsCleanUpAfterThemselves
<1> QED BY <1>1, ClientInitInv, ClientNextInv, PTL

-----------------------------------------------------------------------------
(***************************************************************************)
(* Sizes.  What the runs check for a few numbers holds for all.             *)
(***************************************************************************)

\* _chat_request_budget is refused exactly when the output alone fills the context, and
\* _fit_request_to_context never, of whatever length the prompt, the output and the context.
THEOREM BudgetTheorem ==
  \A requested \in Int, context \in Int, tokens \in Nat :
    /\ Accepts(context, tokens, ChatBudget(requested, context))
         <=> AtLeast1(requested) + Smaller(tokens, 1) <= context
    /\ \A chars \in Nat :
         context >= 2 /\ tokens <= chars =>
           Accepts(context, tokens, FittedBudget(requested, context, tokens, chars))
<1> SUFFICES ASSUME NEW requested \in Int, NEW context \in Int, NEW tokens \in Nat
             PROVE  /\ Accepts(context, tokens, ChatBudget(requested, context))
                         <=> AtLeast1(requested) + Smaller(tokens, 1) <= context
                    /\ \A chars \in Nat :
                         context >= 2 /\ tokens <= chars =>
                           Accepts(context, tokens,
                                   FittedBudget(requested, context, tokens, chars))
  OBVIOUS
<1> DEFINE r == AtLeast1(requested)
<1>1. r \in Int /\ r >= 1
  BY DEF AtLeast1
<1>2. Accepts(context, tokens, ChatBudget(requested, context))
        <=> r + Smaller(tokens, 1) <= context
  <2> DEFINE cut == IF context > 0 THEN AtLeast1(context - r) ELSE 0
  <2>1. ChatBudget(requested, context) = [max |-> r, truncate |-> cut]
    BY DEF ChatBudget
  <2>2. cut \in Int /\ (context <= 0 => cut = 0)
        /\ (context > 0 => cut >= 1 /\ (context > r => cut = context - r)
                                   /\ (context <= r => cut = 1))
    BY <1>1 DEF AtLeast1
  <2> HIDE DEF r, cut
  <2> QED BY <1>1, <2>1, <2>2 DEF Accepts, Smaller
<1>3. ASSUME NEW chars \in Nat, context >= 2, tokens <= chars
      PROVE  Accepts(context, tokens, FittedBudget(requested, context, tokens, chars))
  <2> DEFINE m == FittedMax(r, context, tokens)
             cut == IF tokens + m > context THEN AtLeast1(context - m) ELSE 0
  <2>1. FittedBudget(requested, context, tokens, chars) =
          IF chars + r <= context THEN [max |-> r, truncate |-> 0]
          ELSE [max |-> m, truncate |-> cut]
    BY <1>3 DEF FittedBudget
  <2>2. /\ m \in Int /\ m >= 1
        /\ (m = r /\ tokens + m <= context) \/ m + tokens = context \/ m = 1
    BY <1>1 DEF FittedMax, AtLeast1, Smaller
  <2>3. cut = IF tokens + m > context THEN (IF context - m >= 1 THEN context - m ELSE 1) ELSE 0
    BY DEF AtLeast1
  <2> HIDE DEF r, m, cut
  <2>4. CASE chars + r <= context
    BY <1>1, <1>3, <2>1, <2>4 DEF Accepts, Smaller
  <2>5. CASE ~(chars + r <= context)
    BY <1>1, <1>3, <2>1, <2>2, <2>3, <2>5 DEF Accepts, Smaller
  <2> QED BY <2>4, <2>5
<1> QED BY <1>2, <1>3

\* With the context the server really has, requests are fitted, phases time out within the
\* stream's limit, and an instrumented server has one frontend, a run id and one instrument.
THEOREM ContextTheorem == ClientInit /\ [][ClientNext]_clientVars => []RequestsFitTheContext
<1>1. RequestsFitTheContext
  <2>1. \A requested \in 0 .. 6, context \in 2 .. 6, tokens \in 0 .. 8 :
          /\ Accepts(context, tokens, ChatBudget(requested, context))
               <=> AtLeast1(requested) + Smaller(tokens, 1) <= context
          /\ \A chars \in tokens .. 8 :
               Accepts(context, tokens, FittedBudget(requested, context, tokens, chars))
    <3> SUFFICES ASSUME NEW requested \in 0 .. 6, NEW context \in 2 .. 6, NEW tokens \in 0 .. 8
                 PROVE  /\ Accepts(context, tokens, ChatBudget(requested, context))
                             <=> AtLeast1(requested) + Smaller(tokens, 1) <= context
                        /\ \A chars \in tokens .. 8 :
                             Accepts(context, tokens,
                                     FittedBudget(requested, context, tokens, chars))
      OBVIOUS
    <3>1. requested \in Int /\ context \in Int /\ tokens \in Nat /\ context >= 2
      OBVIOUS
    <3>2. \A chars \in tokens .. 8 : chars \in Nat /\ tokens <= chars
      OBVIOUS
    <3> QED BY <3>1, <3>2, BudgetTheorem
  <2>2. \A key, served \in {-1, 0, 4}, named \in SUBSET {3, 5} :
          ServedContext(key, served, named) = 5 => key <= 0 /\ served <= 0
    BY DEF ServedContext
  <2>3. \A raw \in {0, 1, 7, 40, 700} : \A t \in PhaseTimeouts(raw) : t <= StreamTimeout(raw)
    BY DEF PhaseTimeouts, StreamTimeout, Smaller
  <2>4. ASSUME NEW env \in Environments, NEW count \in 0 .. 2, NEW pp \in 1 .. 2,
               "refused" \notin {ServerCommand(env, count), WorkerClass(env, count, pp)}
        PROVE  LET server == ServerCommand(env, count) worker == WorkerClass(env, count, pp) IN
               /\ server = "calibration" \/ worker = "component" => count = 1
               /\ env.stage \/ worker = "component" => env.runId
               /\ ~(env.stage /\ env.timing) /\ (worker = "component" => pp = 1)
    <3>1. env.stage \in BOOLEAN /\ env.component \in BOOLEAN /\ env.timing \in BOOLEAN
          /\ env.runId \in BOOLEAN
      BY DEF Environments
    <3> QED BY <2>4, <3>1 DEF ServerCommand, WorkerClass
  <2> QED BY <2>1, <2>2, <2>3, <2>4 DEF RequestsFitTheContext
<1> QED BY <1>1, PTL

\* _wall_budget_stability_span grants only spans a proof can be made of: at least the
\* minimum, at most what was preferred, twice within the completions of the candidate and
\* four times within the measured window at its rate; and when the window affords the
\* dense proof, three times within each fifth of it even a tenth below that rate.
THEOREM SpanTheorem ==
  \A preferred \in Nat, completed \in Nat, expected \in Nat :
    LET w == EffectiveSpan(preferred, completed, expected) IN
    w # 0 => /\ w <= preferred /\ 2 * w <= completed /\ 4 * w <= expected
             /\ preferred >= MinimumSpan => w >= MinimumSpan
             /\ expected >= 17 * MinimumSpan => 9 * expected >= 150 * w
<1> SUFFICES ASSUME NEW preferred \in Nat, NEW completed \in Nat, NEW expected \in Nat,
                    EffectiveSpan(preferred, completed, expected) # 0
             PROVE  LET w == EffectiveSpan(preferred, completed, expected) IN
                    /\ w <= preferred /\ 2 * w <= completed /\ 4 * w <= expected
                    /\ preferred >= MinimumSpan => w >= MinimumSpan
                    /\ expected >= 17 * MinimumSpan => 9 * expected >= 150 * w
  OBVIOUS
<1> DEFINE half == completed \div 2
           quarter == expected \div 4
           dense == expected \div 17
           span == MeasurementSpan(expected)
<1>1. /\ half \in Nat /\ 2 * half <= completed /\ quarter \in Nat /\ 4 * quarter <= expected
      /\ dense \in Nat /\ 17 * dense <= expected /\ expected < 17 * (dense + 1)
  OBVIOUS
<1>2. span = IF dense >= 10 THEN (IF quarter <= dense THEN quarter ELSE dense) ELSE quarter
  BY DEF MeasurementSpan, MinimumSpan, Least
<1>3. EffectiveSpan(preferred, completed, expected) =
        IF (IF half <= span THEN half ELSE span) >= 10
        THEN (IF preferred <= (IF half <= span THEN half ELSE span) THEN preferred
              ELSE (IF half <= span THEN half ELSE span))
        ELSE 0
  BY DEF EffectiveSpan, MinimumSpan, Least
<1> HIDE DEF half, quarter, dense, span
<1> QED BY <1>1, <1>2, <1>3 DEF MinimumSpan

\* _next_population_increment grows the population, and never over its cap.
THEOREM IncrementTheorem ==
  \A p \in Nat \ {0}, cap \in Nat, fill \in Nat :
    p < cap => NextIncrement(p, cap, fill) \in 1 .. (cap - p)
<1> SUFFICES ASSUME NEW p \in Nat \ {0}, NEW cap \in Nat, NEW fill \in Nat, p < cap
             PROVE  NextIncrement(p, cap, fill) \in 1 .. (cap - p)
  OBVIOUS
<1> DEFINE f == LargerOf(fill, 5)
           grown == (p * (100 - f)) \div f
<1>1. f \in Nat /\ f > 0
  BY DEF LargerOf
<1>2. p * (100 - f) \in Int
  BY <1>1
<1>3. grown \in Int
  <2> HIDE DEF f
  <2> QED BY <1>1, <1>2
<1>4. NextIncrement(p, cap, fill) =
        SmallerOf(LargerOf(1, SmallerOf(p, LargerOf(0, grown))), LargerOf(0, cap - p))
  BY DEF NextIncrement
<1> HIDE DEF f, grown
<1> QED BY <1>3, <1>4 DEF SmallerOf, LargerOf

\* With the default sizes the population never clamps an engine's gate, so a full gate with
\* waiters is told from a gate the population is too small to fill.
THEOREM BacklogTheorem ==
  \A batch \in Nat, decode \in Nat \ {0}, factor \in Nat, react \in BOOLEAN :
    LET gate == StageGate(decode, HardCap(LoadConcurrency(batch, decode, factor), react)) IN
    OuterBacklogCap(decode, gate, gate, 1) = decode
<1> SUFFICES ASSUME NEW batch \in Nat, NEW decode \in Nat \ {0}, NEW factor \in Nat,
                    NEW react \in BOOLEAN
             PROVE  LET gate == StageGate(decode, HardCap(LoadConcurrency(batch, decode, factor),
                                                          react)) IN
                    OuterBacklogCap(decode, gate, gate, 1) = decode
  OBVIOUS
<1> DEFINE load == LoadConcurrency(batch, decode, factor)
           cap == HardCap(load, react)
<1>1. load \in Nat /\ load >= decode
  <2> DEFINE a == LargerOf(1, LargerOf(batch, decode))
             b == LargerOf(1, factor)
  <2>1. a \in Nat /\ a >= decode /\ b \in Nat /\ b >= 1
    BY DEF LargerOf
  <2>2. load = a * b
    BY DEF LoadConcurrency
  <2>3. \A x, y \in Nat : y >= 1 => x * y \in Nat /\ x * y >= x
    OBVIOUS
  <2> HIDE DEF a, b, load
  <2> QED BY <2>1, <2>2, <2>3
<1> HIDE DEF load
<1>2. cap \in Nat /\ cap >= 4 * decode
  BY <1>1 DEF HardCap, LargerOf
<1>3. Slack(decode) \in Nat /\ Slack(decode) <= decode
  BY DEF Slack, LargerOf
<1> HIDE DEF cap
<1>4. StageGate(decode, cap) = decode + Slack(decode)
  BY <1>2, <1>3 DEF StageGate, SmallerOf, LargerOf
<1>5. StageGate(decode, HardCap(LoadConcurrency(batch, decode, factor), react))
        = decode + Slack(decode)
  BY <1>4 DEF cap, load
<1>6. \A g : g = decode + Slack(decode) => OuterBacklogCap(decode, g, g, 1) = decode
  BY DEF OuterBacklogCap
<1> QED BY <1>5, <1>6

\* _unified_parallelism uses every device; and what a prefill or decode role accepts, a
\* single engine takes as it is.
THEOREM ParallelismTheorem ==
  \A n \in Nat \ {0}, tp \in Nat, pp \in Nat :
    LET u == UnifiedParallelism(n, tp, pp) IN
    u[1] * u[2] = n /\ RoleParallelism(n, tp, pp) \in {<<>>, u}
<1> SUFFICES ASSUME NEW n \in Nat \ {0}, NEW tp \in Nat, NEW pp \in Nat
             PROVE  LET u == UnifiedParallelism(n, tp, pp) IN
                    u[1] * u[2] = n /\ RoleParallelism(n, tp, pp) \in {<<>>, u}
  OBVIOUS
<1> DEFINE p == IF pp < 1 \/ n % pp # 0 \/ pp > n THEN 1 ELSE pp
<1>1. p \in Nat /\ p >= 1 /\ (n \div p) * p = n
  OBVIOUS
<1>2. tp * pp = n => p = pp
  <2> SUFFICES ASSUME tp * pp = n PROVE pp >= 1 /\ n % pp = 0 /\ pp <= n
    OBVIOUS
  <2>1. pp >= 1 /\ tp >= 1
    OBVIOUS
  <2>2. pp <= n
    <3>1. \A x, y \in Nat : x >= 1 => y <= x * y
      OBVIOUS
    <3> QED BY <2>1, <3>1
  <2>3. n % pp = 0
    <3> DEFINE q == n \div pp
               r == n % pp
    <3>1. q \in Int /\ r \in Int /\ 0 <= r /\ r < pp /\ n = q * pp + r
      BY <2>1
    <3> HIDE DEF q, r
    <3>2. \A x \in Int, y \in Nat : (x >= 1 => x * y >= y) /\ (x <= -1 => x * y <= -y)
      OBVIOUS
    <3>3. (tp - q) * pp = r /\ tp - q \in Int
      BY <3>1
    <3>4. r = 0
      <4>1. ~(tp - q >= 1) /\ ~(tp - q <= -1)
        BY <2>1, <3>1, <3>2, <3>3
      <4>2. tp - q = 0
        BY <3>3, <4>1
      <4> QED BY <3>3, <4>2
    <3> QED BY <3>4 DEF r
  <2> QED BY <2>1, <2>2, <2>3
<1>3. UnifiedParallelism(n, tp, pp) = IF tp * p = n THEN <<tp, p>> ELSE <<n \div p, p>>
  BY DEF UnifiedParallelism
<1> HIDE DEF p
<1> QED BY <1>1, <1>2, <1>3 DEF RoleParallelism

-----------------------------------------------------------------------------
(***************************************************************************)
(* The cards (GpuPlan).  Tenants and reserves of a card bound what is       *)
(* planned for each of its engines, so the sum of what they are granted;    *)
(* and a launch is refused last, so what was free then is free still.       *)
(***************************************************************************)

\* The quotient of Rounded is within half a thousandth.
LEMMA RoundedFacts ==
  ASSUME NEW x \in Int
  PROVE  /\ Rounded(x) \in Int
         /\ 2 * (Rounded(x) * Total) <= 2 * x + Total
         /\ 2 * x < 2 * (Rounded(x) * Total) + Total
<1>1. Total \in Nat \ {0}
  BY GpuAssumption
<1>2. PICK d \in Nat \ {0} : d = 2 * Total
  BY <1>1
<1>3. PICK a \in Int : a = 2 * x + Total
  BY <1>1
<1>4. a \div d \in Int /\ d * (a \div d) <= a /\ a < d * (a \div d) + d
  BY <1>2
<1>5. PICK q \in Int : q = a \div d
  BY <1>4
<1>6. Rounded(x) = q
  BY <1>2, <1>3, <1>5 DEF Rounded
<1>7. 2 * (q * Total) = d * q
  BY <1>1, <1>2
<1>8. q * Total \in Int
  BY <1>1
<1> QED BY <1>1, <1>2, <1>3, <1>4, <1>5, <1>6, <1>7, <1>8

\* What _weight_floor_util and effective_util give.
LEMMA FloorType ==
  ASSUME NEW w \in Nat
  PROVE  WeightFloor(w) \in Nat
<1>1. Total \in Nat \ {0}
  BY GpuAssumption
<1>2. PICK a \in Nat : a = (w + 4) * 1000
  OBVIOUS
<1>3. a \div Total \in Nat
  BY <1>1
<1> QED BY <1>2, <1>3 DEF WeightFloor, SmallerOf

\* What vLLM refuses of effective_util's making is more than is free, and what is free is
\* less than 0.05 or than the weights. The margin of 0.3 GiB covers the rounding to
\* thousandths on cards of up to 600 GiB.
LEMMA GenuineRefusal ==
  ASSUME NEW free \in Int, NEW requested \in Int, requested >= 50, NEW w \in Nat, Total <= 600,
         LET util == EffectiveUtil(free, requested, w) IN ~(util > 0 /\ free >= util * Total)
  PROVE  free < 50 * Total \/ free < WeightFloor(w) * Total
<1>1. Total \in Nat \ {0}
  BY GpuAssumption
<1>2. PICK floor \in Nat : floor = WeightFloor(w)
  BY FloorType
<1>3. PICK reserve \in {24000, 300} : reserve = IF free < (Total - 2) * 1000 THEN 24000 ELSE 300
  OBVIOUS
<1>4. PICK util : util = EffectiveUtil(free, requested, w)
  OBVIOUS
<1>5. ~(util > 0 /\ free >= util * Total)
  BY <1>4
<1>6. PICK r \in Int : r = Rounded(free) /\ 2 * free < 2 * (r * Total) + Total
  BY RoundedFacts
<1>7. PICK s \in Int : s = Rounded(free - reserve) /\ 2 * (s * Total) <= 2 * (free - reserve) + Total
  <2>1. free - reserve \in Int
    OBVIOUS
  <2> QED BY <2>1, RoundedFacts
<1>8. PICK fit \in Int : fit = LargerOf(50, SmallerOf(requested, s))
  BY DEF LargerOf, SmallerOf
<1>9. util = IF free >= requested * Total + reserve
             THEN IF floor <= r THEN LargerOf(requested, floor) ELSE requested
             ELSE IF floor > 0 /\ fit < floor THEN SmallerOf(floor, r) ELSE fit
  BY <1>2, <1>3, <1>4, <1>6, <1>7, <1>8 DEF EffectiveUtil
<1>10. /\ floor * Total \in Int /\ requested * Total \in Int /\ r * Total \in Int
       /\ s * Total \in Int /\ 50 * Total \in Int
  BY <1>1
<1>11. CASE free < 50 * Total
  BY <1>11
<1>12. CASE free < floor * Total
  BY <1>2, <1>12
<1>13. CASE free >= 50 * Total /\ free >= floor * Total
  <2>1. util \in Int /\ util * Total \in Int
    BY <1>9, <1>1 DEF LargerOf, SmallerOf
  <2>2. r > 0
    <3>1. r <= 0 => r * Total <= 0
      BY <1>1
    <3> QED BY <3>1, <1>1, <1>6, <1>10, <1>13
  <2>3. CASE free >= requested * Total + reserve
    <3>1. util \in {requested, floor} /\ util > 0
      BY <2>3, <1>9 DEF LargerOf
    <3> QED BY <3>1, <2>3, <1>3, <1>5, <1>10, <1>13
  <2>4. CASE ~(free >= requested * Total + reserve) /\ floor > 0 /\ fit < floor
    <3>1. util = SmallerOf(floor, r) /\ util \in Int /\ util > 0 /\ util <= floor
      BY <2>2, <2>4, <1>9 DEF SmallerOf
    <3>2. util * Total <= floor * Total
      BY <3>1, <1>1
    <3> QED BY <3>1, <3>2, <2>1, <1>5, <1>10, <1>13
  <2>5. CASE ~(free >= requested * Total + reserve) /\ ~(floor > 0 /\ fit < floor)
    <3>1. util = fit /\ fit >= 50 /\ (fit = 50 \/ fit <= s)
      BY <2>5, <1>8, <1>9 DEF LargerOf, SmallerOf
    <3>2. CASE fit = 50
      BY <3>1, <3>2, <1>5, <1>10, <1>13
    <3>3. CASE fit <= s
      <4>1. util * Total <= s * Total
        BY <3>1, <3>3, <1>1
      <4>2. s * Total <= free
        BY <1>1, <1>3, <1>7, <1>10
      <4> QED BY <4>1, <4>2, <3>1, <2>1, <1>5, <1>10
    <3> QED BY <3>1, <3>2, <3>3
  <2> QED BY <2>3, <2>4, <2>5
<1> QED BY <1>10, <1>11, <1>12, <1>13

\* The trial's launches, and the engines and processes on its cards.
GpuTypes ==
  /\ layout \in Layouts /\ occupants \in [CardIds -> SUBSET AuxStages]
  /\ loaded \in [CardIds -> SUBSET AuxStages] /\ stale \in SUBSET CardIds
  /\ claims \in Seq(Int) /\ Len(claims) <= Len(layout)

\* What the assumption says of a layout.
LEMMA LayoutFacts ==
  ASSUME GpuTypes
  PROVE  /\ layout \in Seq([cards : (SUBSET CardIds) \ {{}}, spans : SUBSET CardIds, weights : Nat])
         /\ Len(layout) \in Nat /\ DOMAIN layout = 1 .. Len(layout)
         /\ \A i \in DOMAIN layout :
              /\ layout[i].cards # {} /\ layout[i].cards \subseteq layout[i].spans
              /\ layout[i].spans \subseteq CardIds /\ layout[i].weights \in Nat
              /\ IsFiniteSet(layout[i].cards) /\ IsFiniteSet(layout[i].spans)
<1>1. layout \in Seq([cards : (SUBSET CardIds) \ {{}}, spans : SUBSET CardIds, weights : Nat])
  BY GpuAssumption DEF GpuTypes
<1>2. Len(layout) \in Nat /\ DOMAIN layout = 1 .. Len(layout)
  BY <1>1
<1>3. \A i \in DOMAIN layout :
        layout[i] \in [cards : (SUBSET CardIds) \ {{}}, spans : SUBSET CardIds, weights : Nat]
  <2>1. PICK L : L = [cards : (SUBSET CardIds) \ {{}}, spans : SUBSET CardIds, weights : Nat]
    OBVIOUS
  <2>2. layout \in Seq(L)
    BY <1>1, <2>1
  <2>3. \A i \in DOMAIN layout : layout[i] \in L
    BY <1>2, <2>2
  <2> QED BY <2>1, <2>3
<1>4. \A i \in DOMAIN layout : layout[i].cards \subseteq layout[i].spans
  BY GpuAssumption DEF GpuTypes
<1>5. IsFiniteSet(CardIds)
  BY GpuAssumption
<1>6. \A i \in DOMAIN layout :
        /\ layout[i].cards # {} /\ layout[i].cards \subseteq CardIds
        /\ layout[i].spans \subseteq CardIds /\ layout[i].weights \in Nat
  BY <1>3
<1>7. \A i \in DOMAIN layout : IsFiniteSet(layout[i].cards) /\ IsFiniteSet(layout[i].spans)
  BY <1>5, <1>6, FS_Subset
<1> QED BY <1>1, <1>2, <1>4, <1>6, <1>7

\* The reserves of a card are sizes.
LEMMA AuxType ==
  ASSUME NEW A \in SUBSET AuxStages
  PROVE  SumOver(Reserve, A) \in Nat
<1> DEFINE g == [a \in A |-> Reserve[a]]
<1>1. IsFiniteSet(A)
  BY GpuAssumption, FS_Subset
<1>2. g \in [A -> Nat] /\ g \in [A -> Int] /\ \A a \in A : Reserve[a] = g[a]
  BY GpuAssumption
<1> HIDE DEF g
<1>3. SumOver(g, A) \in Nat
  BY <1>1, <1>2, SumOfNaturals
<1>4. SumOver(Reserve, A) = SumOver(g, A)
  BY <1>1, <1>2, SumSame
<1> QED BY <1>3, <1>4

\* The engines of a card are finitely many, and none is more than its tenants.
LEMMA TenantsType ==
  ASSUME GpuTypes, NEW c
  PROVE  /\ Tenants(c) \in Nat
         /\ \A E \in SUBSET {i \in DOMAIN layout : c \in layout[i].cards} :
              IsFiniteSet(E) /\ Cardinality(E) \in Nat /\ Cardinality(E) <= Tenants(c)
<1> DEFINE T == {i \in DOMAIN layout : c \in layout[i].cards}
<1>1. IsFiniteSet(1 .. Len(layout)) /\ T \subseteq 1 .. Len(layout)
  BY LayoutFacts, FS_Interval
<1>2. IsFiniteSet(T)
  BY <1>1, FS_Subset
<1>3. Tenants(c) = Cardinality(T)
  BY DEF Tenants
<1> HIDE DEF T
<1>4. Cardinality(T) \in Nat
  BY <1>2, FS_CardinalityType
<1>5. \A E \in SUBSET T : IsFiniteSet(E) /\ Cardinality(E) \in Nat /\ Cardinality(E) <= Cardinality(T)
  BY <1>2, FS_Subset, FS_CardinalityType
<1> QED BY <1>3, <1>4, <1>5 DEF T

\* The tightest card of a plan: as many tenants and as much reserved as on any.
LEMMA Tightest ==
  ASSUME GpuTypes, NEW i \in DOMAIN layout, NEW c \in layout[i].spans
  PROVE  /\ AuxReserve(layout[i].spans) \in Nat /\ AuxOn(c) \in Nat
         /\ AuxOn(c) <= AuxReserve(layout[i].spans)
         /\ Max({Tenants(d) : d \in layout[i].spans}) \in Nat
         /\ Tenants(c) <= Max({Tenants(d) : d \in layout[i].spans})
<1> DEFINE spans == layout[i].spans
           A == {AuxOn(d) : d \in spans}
           T == {Tenants(d) : d \in spans}
<1>1. IsFiniteSet(spans) /\ spans \subseteq CardIds
  BY LayoutFacts
<1>2. \A d \in spans : AuxOn(d) \in Nat /\ Tenants(d) \in Nat
  BY <1>1, AuxType, TenantsType DEF AuxOn, GpuTypes
<1>3. IsFiniteSet(A) /\ IsFiniteSet(T)
  <2> DEFINE f == [d \in spans |-> AuxOn(d)]
             g == [d \in spans |-> Tenants(d)]
  <2>1. /\ f = [d \in spans |-> f[d]] /\ A = {f[d] : d \in spans}
        /\ g = [d \in spans |-> g[d]] /\ T = {g[d] : d \in spans}
    OBVIOUS
  <2> HIDE DEF f, g, A, T, spans
  <2> QED BY <2>1, <1>1, FiniteValues
<1>4. A \subseteq Nat /\ T \subseteq Nat /\ AuxOn(c) \in A /\ Tenants(c) \in T
  BY <1>2
<1>5. AuxReserve(spans) = Max(A)
  BY DEF AuxReserve
<1> HIDE DEF A, T
<1>6. A # {} /\ T # {} /\ A \subseteq Int /\ T \subseteq Int
  BY <1>4
<1>7. Max(A) \in A /\ \A x \in A : x <= Max(A)
  BY <1>3, <1>6, LargestOf
<1>8. Max(T) \in T /\ \A x \in T : x <= Max(T)
  BY <1>3, <1>6, LargestOf
<1> QED BY <1>4, <1>5, <1>7, <1>8 DEF T

\* The budget of a launch is a number.
LEMMA BudgetType ==
  ASSUME GpuTypes, NEW i \in DOMAIN layout, NEW c \in layout[i].spans
  PROVE  Budget(layout[i].spans) \in Int
<1>1. Total \in Nat \ {0}
  BY GpuAssumption
<1>2. PICK R \in Nat : R = AuxReserve(layout[i].spans)
  BY Tightest
<1>3. PICK a \in Int : a = (Total - R - 4) * 1000
  BY <1>1
<1>4. a \div Total \in Int
  BY <1>1
<1> QED BY <1>2, <1>3, <1>4 DEF Budget, SmallerOf, LargerOf

\* Every planned share, times the engines that share the card, leaves room for the
\* card's reserve.
LEMMA PlanShare ==
  ASSUME GpuTypes, NEW i \in DOMAIN layout, NEW c \in layout[i].cards, Planned(i) > 50
  PROVE  /\ Planned(i) \in Nat /\ Tenants(c) \in Nat \ {0} /\ AuxOn(c) \in Nat
         /\ (Tenants(c) * Planned(i)) * Total <= 1000 * (Total - AuxOn(c))
<1> DEFINE spans == layout[i].spans
<1>1. Total \in Nat \ {0}
  BY GpuAssumption
<1>2. c \in spans
  BY LayoutFacts
<1>3. PICK M \in Nat : M = Max({Tenants(d) : d \in spans}) /\ Tenants(c) <= M
  BY <1>2, Tightest
<1>4. PICK R \in Nat : R = AuxReserve(spans) /\ AuxOn(c) \in Nat /\ AuxOn(c) <= R
  BY <1>2, Tightest
<1>5. Tenants(c) \in Nat \ {0}
  <2>1. {i} \in SUBSET {k \in DOMAIN layout : c \in layout[k].cards} /\ Cardinality({i}) = 1
    BY FS_Singleton
  <2> QED BY <2>1, TenantsType
<1>6. PICK B \in Int : B = Budget(spans)
  BY <1>2, BudgetType
<1>7. PICK q \in Int : q = B \div M /\ M * q <= B
  <2>1. M \in Nat \ {0}
    BY <1>3, <1>5
  <2>2. B \div M \in Int /\ M * (B \div M) <= B
    BY <2>1
  <2> QED BY <2>2
<1>8. Planned(i) = q /\ q > 50
  <2>1. Planned(i) = LargerOf(50, q)
    BY <1>3, <1>6, <1>7 DEF Planned
  <2> QED BY <2>1 DEF LargerOf
<1>9. Tenants(c) * q <= B
  <2>1. Tenants(c) * q <= M * q
    BY <1>3, <1>5, <1>8
  <2>2. Tenants(c) * q \in Int /\ M * q \in Int
    BY <1>5
  <2> QED BY <2>1, <2>2, <1>7
<1>10. B > 50
  <2>1. q <= Tenants(c) * q
    BY <1>5, <1>8
  <2>2. Tenants(c) * q \in Int
    BY <1>5
  <2> QED BY <2>1, <2>2, <1>8, <1>9
<1>11. B * Total <= 1000 * (Total - AuxOn(c))
  <2>1. CASE R = 0
    <3>1. B = 900 /\ AuxOn(c) = 0
      BY <2>1, <1>4, <1>6 DEF Budget
    <3> QED BY <3>1, <1>1
  <2>2. CASE R # 0
    <3>1. PICK a \in Int : a = (Total - R - 4) * 1000
      BY <1>1
    <3>2. PICK p \in Int : p = a \div Total /\ Total * p <= a
      BY <1>1
    <3>3. B = SmallerOf(900, LargerOf(50, p))
      BY <2>2, <3>1, <3>2, <1>4, <1>6 DEF Budget
    <3>4. B <= p
      BY <3>3, <1>10 DEF SmallerOf, LargerOf
    <3>5. B * Total <= Total * p /\ B * Total \in Int /\ Total * p \in Int
      BY <3>4, <1>1
    <3>6. a <= 1000 * (Total - AuxOn(c))
      BY <3>1, <1>1, <1>4
    <3> QED BY <3>2, <3>5, <3>6, <1>1, <1>4
  <2> QED BY <2>1, <2>2
<1>12. (Tenants(c) * q) * Total <= B * Total
  <2>1. PICK x \in Int : x = Tenants(c) * q
    BY <1>5
  <2> QED BY <2>1, <1>1, <1>9
<1>13. (Tenants(c) * q) * Total \in Int /\ B * Total \in Int
  BY <1>1, <1>5
<1> QED BY <1>1, <1>4, <1>5, <1>8, <1>11, <1>12, <1>13

\* A card holds its engines and its reserve.
LEMMA CardsHold ==
  ASSUME GpuTypes
  PROVE  CardsHoldTheirTenants
<1> SUFFICES ASSUME NEW c \in CardIds, AsPlanned(c)
             PROVE  SumOver(claims, EnginesOn(c)) * Total + 1000 * AuxOn(c) <= 1000 * Total
  BY DEF CardsHoldTheirTenants
<1> DEFINE E == EnginesOn(c)
<1>1. Total \in Nat \ {0}
  BY GpuAssumption
<1>2. E # {} /\ \A i \in E : claims[i] <= Planned(i) /\ Planned(i) > 50
  BY DEF AsPlanned
<1>3. \A i \in E : i \in DOMAIN layout /\ c \in layout[i].cards /\ claims[i] \in Int
  BY LayoutFacts DEF EnginesOn, Granted, GpuTypes
<1>4. IsFiniteSet(E) /\ Cardinality(E) \in Nat /\ Cardinality(E) <= Tenants(c)
  <2>1. E \in SUBSET {i \in DOMAIN layout : c \in layout[i].cards}
    BY <1>3
  <2> QED BY <2>1, TenantsType
<1> HIDE DEF E
<1>5. PICK t \in Nat \ {0} : t = Tenants(c)
  BY <1>2, <1>3, PlanShare
<1>6. PICK room \in Int : room = 1000 * (Total - AuxOn(c)) /\ AuxOn(c) \in Nat
  BY <1>1, <1>2, <1>3, PlanShare
<1>7. \A i \in E : Planned(i) \in Nat /\ (t * Planned(i)) * Total <= room
  BY <1>2, <1>3, <1>5, <1>6, PlanShare
<1>8. PICK d \in Nat \ {0} : d = t * Total
  BY <1>1
<1>9. \A i \in E : Planned(i) * d <= room
  <2> TAKE i \in E
  <2>1. PICK x \in Nat : x = Planned(i)
    BY <1>7
  <2>2. (t * x) * Total = x * d
    BY <1>1, <1>8
  <2> QED BY <2>1, <2>2, <1>7
<1>10. room >= 0
  <2>1. PICK i \in E : TRUE
    BY <1>2
  <2>2. PICK x \in Nat : x = Planned(i) /\ x * d <= room
    BY <1>7, <1>9
  <2>3. x * d \in Nat
    OBVIOUS
  <2> QED BY <2>2, <2>3
<1>11. PICK u \in Nat : u = room \div d /\ d * u <= room /\ room < d * u + d
  BY <1>10, Division
<1>12. \A i \in E : claims[i] <= u
  <2> TAKE i \in E
  <2>1. PICK x \in Nat : x = Planned(i) /\ x * d <= room /\ claims[i] <= x
    BY <1>2, <1>7, <1>9
  <2>2. ~(x > u)
    <3>1. x > u => d * u + d <= d * x
      BY Products
    <3>2. d * u + d \in Int /\ d * x \in Int /\ x * d = d * x
      OBVIOUS
    <3> QED BY <3>1, <3>2, <2>1, <1>11
  <2> QED BY <2>1, <2>2, <1>3
<1> DEFINE g == [i \in E |-> claims[i]]
<1>13. g \in [E -> Int] /\ \A i \in E : claims[i] = g[i] /\ g[i] <= u
  BY <1>3, <1>12
<1> HIDE DEF g
<1>14. SumOver(claims, E) = SumOver(g, E) /\ SumOver(g, E) \in Int
  BY <1>4, <1>13, SumSame, SumType
<1>15. SumOver(g, E) <= Cardinality(E) * u
  BY <1>4, <1>13, SumBound
<1>16. PICK total \in Int : total = SumOver(claims, E)
  BY <1>14
<1>17. total <= t * u
  <2>1. PICK k \in Nat : k = Cardinality(E) /\ k <= t
    BY <1>4, <1>5
  <2>2. k * u <= t * u /\ k * u \in Int /\ t * u \in Int
    BY <2>1
  <2> QED BY <2>1, <2>2, <1>14, <1>15, <1>16
<1>18. total * Total <= d * u
  <2>1. PICK x \in Int : x = t * u
    OBVIOUS
  <2>2. total * Total <= x * Total
    BY <2>1, <1>1, <1>17
  <2>3. x * Total = d * u
    BY <2>1, <1>1, <1>8
  <2> QED BY <2>2, <2>3
<1>19. total * Total \in Int /\ d * u \in Int
  BY <1>1
<1>20. total * Total <= room
  BY <1>11, <1>18, <1>19
<1> QED BY <1>1, <1>6, <1>16, <1>19, <1>20 DEF E

\* _adapt_engine_resources takes the smallest doubling of TP that fits, and its
\* utilization covers what it needs.
THEOREM AdaptedTheorem ==
  \A w \in Nat, tp \in Nat \ {0}, total \in Nat \ {0}, n \in Nat, util \in Nat :
    LET t == AdaptedTp(w, tp, total, n) IN
    /\ t \in {tp, 2 * tp, 4 * tp}
    /\ \A s \in {tp, 2 * tp, 4 * tp} : s < t => ~FitsCard(w, s, total)
    /\ FitsCard(w, t, total) => Need(w, t) \div total <= AdaptedUtil(w, t, total, util)
<1> SUFFICES ASSUME NEW w \in Nat, NEW tp \in Nat \ {0}, NEW total \in Nat \ {0}, NEW n \in Nat,
                    NEW util \in Nat
             PROVE  LET t == AdaptedTp(w, tp, total, n) IN
                    /\ t \in {tp, 2 * tp, 4 * tp}
                    /\ \A s \in {tp, 2 * tp, 4 * tp} : s < t => ~FitsCard(w, s, total)
                    /\ FitsCard(w, t, total) =>
                         Need(w, t) \div total <= AdaptedUtil(w, t, total, util)
  OBVIOUS
<1> DEFINE most == SmallerOf(4, n)
           reach == {t \in {tp, 2 * tp, 4 * tp} : t = tp \/ t <= most}
           fits == {t \in reach : FitsCard(w, t, total)}
           t == AdaptedTp(w, tp, total, n)
<1>1. most \in Nat
  BY DEF SmallerOf
<1>2. IsFiniteSet(reach) /\ IsFiniteSet(fits)
  <2>1. IsFiniteSet({tp, 2 * tp, 4 * tp})
    <3>1. IsFiniteSet({tp}) /\ IsFiniteSet({tp} \cup {2 * tp})
      BY FS_Singleton, FS_AddElement
    <3>2. IsFiniteSet(({tp} \cup {2 * tp}) \cup {4 * tp})
      BY <3>1, FS_AddElement
    <3>3. ({tp} \cup {2 * tp}) \cup {4 * tp} = {tp, 2 * tp, 4 * tp}
      OBVIOUS
    <3> QED BY <3>2, <3>3
  <2> QED BY <2>1, FS_Subset
<1>3. t = IF fits = {} THEN Max(reach) ELSE Min(fits)
  BY DEF AdaptedTp
<1>4. /\ tp \in reach /\ reach \subseteq {tp, 2 * tp, 4 * tp} /\ fits \subseteq reach
      /\ \A x \in fits : FitsCard(w, x, total)
      /\ \A x \in reach : FitsCard(w, x, total) => x \in fits
      /\ \A x \in reach : x = tp \/ x <= most
      /\ \A s \in {tp, 2 * tp, 4 * tp} : s <= most => s \in reach
  OBVIOUS
<1> HIDE DEF reach, fits, t, most
<1>5. reach \subseteq Int /\ fits \subseteq Int /\ reach # {}
  BY <1>4
<1>6. t \in reach /\ (fits # {} => t \in fits /\ \A x \in fits : t <= x)
  BY <1>2, <1>3, <1>4, <1>5, LargestOf
<1>7. ASSUME NEW s \in {tp, 2 * tp, 4 * tp}, s < t
      PROVE  ~FitsCard(w, s, total)
  <2>1. s \in reach
    BY <1>1, <1>4, <1>6, <1>7
  <2>2. s \notin fits
    BY <1>5, <1>6, <1>7
  <2> QED BY <2>1, <2>2, <1>4
<1>8. t \in Nat \ {0}
  BY <1>4, <1>6
<1>9. ASSUME FitsCard(w, t, total)
      PROVE  Need(w, t) \div total <= AdaptedUtil(w, t, total, util)
  <2>1. PICK a \in Nat : a = w * 1000
    OBVIOUS
  <2>2. a \div t \in Nat
    BY <1>8
  <2>3. PICK need \in Nat : need = Need(w, t) /\ need <= 920 * total
    BY <1>9, <2>1, <2>2 DEF Need, FitsCard
  <2>4. PICK q \in Nat : q = need \div total /\ total * q <= need
    BY Division
  <2>5. q <= 920
    <3>1. q > 920 => total * 920 + total <= total * q
      BY Products
    <3> QED BY <3>1, <2>3, <2>4
  <2> QED BY <2>3, <2>4, <2>5 DEF AdaptedUtil, LargerOf, SmallerOf
<1> QED BY <1>4, <1>6, <1>7, <1>9 DEF t

\* The sizes on which a run checks them agree as all do.
LEMMA SizesFit == SizesAgree
<1>1. \A n \in 1 .. 8, tp, pp \in 0 .. 8 :
        LET u == UnifiedParallelism(n, tp, pp) IN
        /\ u[1] * u[2] = n
        /\ RoleParallelism(n, tp, pp) \in {<<>>, u}
  BY ParallelismTheorem
<1>2. ASSUME NEW w \in {1, 14, 28, 60}, NEW total \in {24, 80}, NEW n \in 1 .. 4, NEW tp \in {1, 2}
      PROVE  LET t == AdaptedTp(w, tp, total, n) IN
             /\ \A s \in {1, 2, 4} : s < t /\ s >= tp => ~FitsCard(w, s, total)
             /\ FitsCard(w, t, total) => Need(w, t) \div total <= AdaptedUtil(w, t, total, 400)
  <2>1. /\ w \in Nat /\ total \in Nat \ {0} /\ n \in Nat /\ tp \in Nat \ {0} /\ 400 \in Nat
        /\ \A s \in {1, 2, 4} : s >= tp => s \in {tp, 2 * tp, 4 * tp}
    OBVIOUS
  <2> QED BY <2>1, AdaptedTheorem
<1>3. \A p \in 1 .. 6, cap \in 1 .. 9, fill \in {0, 30, 99, 100} :
        p < cap => NextIncrement(p, cap, fill) \in 1 .. (cap - p)
  <2> TAKE p \in 1 .. 6, cap \in 1 .. 9, fill \in {0, 30, 99, 100}
  <2>1. p \in Nat \ {0} /\ cap \in Nat /\ fill \in Nat
    OBVIOUS
  <2> QED BY <2>1, IncrementTheorem
<1>4. \A batch, decode \in 1 .. 8, factor \in {1, 4}, react \in BOOLEAN :
        LET gate == StageGate(decode, HardCap(LoadConcurrency(batch, decode, factor), react)) IN
        OuterBacklogCap(decode, gate, gate, 1) = decode
  BY BacklogTheorem
<1> QED BY <1>1, <1>2, <1>3, <1>4 DEF SizesAgree

-----------------------------------------------------------------------------
\* What a launch computes of the memory of its cards.
LEMMA FreeType ==
  ASSUME GpuTypes, NEW c \in CardIds
  PROVE  Free(c) \in Int
<1> DEFINE E == EnginesOn(c)
           g == [i \in E |-> claims[i]]
<1>1. IsFiniteSet(E) /\ g \in [E -> Int] /\ \A i \in E : claims[i] = g[i]
  <2>1. IsFiniteSet(1 .. Len(claims)) /\ E \subseteq 1 .. Len(claims)
    BY FS_Interval DEF EnginesOn, Granted, GpuTypes
  <2>2. \A i \in 1 .. Len(claims) : claims[i] \in Int
    BY DEF GpuTypes
  <2> QED BY <2>1, <2>2, FS_Subset
<1> HIDE DEF E, g
<1>2. SumOver(claims, E) = SumOver(g, E) /\ SumOver(g, E) \in Int
  BY <1>1, SumSame, SumType
<1>3. SumOver(Reserve, loaded[c]) \in Nat
  BY AuxType DEF GpuTypes
<1>4. PICK s \in Int, r \in Nat : s = SumOver(claims, E) /\ r = SumOver(Reserve, loaded[c])
  BY <1>2, <1>3
<1>5. Total \in Nat /\ Stale \in Nat /\ (1000 - s) * Total \in Int
  BY GpuAssumption
<1> QED BY <1>4, <1>5 DEF Free, E

\* The tightest of them is a number.
LEMMA FreeOfLaunch ==
  ASSUME GpuTypes, NEW i \in DOMAIN layout
  PROVE  Min({Free(c) : c \in layout[i].cards}) \in Int
<1> DEFINE cards == layout[i].cards
           f == [c \in cards |-> Free(c)]
           F == {f[c] : c \in cards}
<1>1. IsFiniteSet(cards) /\ cards # {} /\ cards \subseteq CardIds
  BY LayoutFacts
<1>2. f = [c \in cards |-> f[c]] /\ \A c \in cards : f[c] \in Int
  BY <1>1, FreeType
<1>3. IsFiniteSet(F)
  <2> HIDE DEF f
  <2> QED BY <1>1, <1>2, FiniteValues
<1>4. F # {} /\ F \subseteq Int
  BY <1>1, <1>2
<1>5. Min(F) \in Int
  <2> HIDE DEF F
  <2> QED BY <1>3, <1>4, LargestOf
<1>6. F = {Free(c) : c \in cards}
  OBVIOUS
<1> QED BY <1>5, <1>6

\* A plan is a size of at least 0.05.
LEMMA PlannedType ==
  ASSUME GpuTypes, NEW i \in DOMAIN layout
  PROVE  Planned(i) \in Int /\ Planned(i) >= 50
<1>1. PICK c \in layout[i].cards : c \in layout[i].spans
  BY LayoutFacts
<1>2. Tenants(c) \in Nat \ {0}
  <2>1. {i} \in SUBSET {k \in DOMAIN layout : c \in layout[k].cards} /\ Cardinality({i}) = 1
    BY FS_Singleton
  <2> QED BY <2>1, TenantsType
<1>3. PICK M \in Nat \ {0} : M = Max({Tenants(d) : d \in layout[i].spans})
  <2>1. PICK m \in Nat : m = Max({Tenants(d) : d \in layout[i].spans}) /\ Tenants(c) <= m
    BY <1>1, Tightest
  <2>2. m \in Nat \ {0}
    BY <1>2, <2>1
  <2> QED BY <2>1, <2>2
<1>4. Budget(layout[i].spans) \in Int
  BY <1>1, BudgetType
<1>5. PICK q \in Int : q = Budget(layout[i].spans) \div M
  BY <1>4
<1>6. Planned(i) = LargerOf(50, q)
  BY <1>3, <1>5 DEF Planned
<1> QED BY <1>6 DEF LargerOf

-----------------------------------------------------------------------------
\* What effective_util gives is a number.
LEMMA UtilType ==
  ASSUME NEW free \in Int, NEW requested \in Int, NEW w \in Nat
  PROVE  EffectiveUtil(free, requested, w) \in Int
<1>1. WeightFloor(w) \in Nat
  BY FloorType
<1>2. Rounded(free) \in Int /\ Rounded(free - 24000) \in Int /\ Rounded(free - 300) \in Int
  <2>1. free - 24000 \in Int /\ free - 300 \in Int
    OBVIOUS
  <2> QED BY <2>1, RoundedFacts
<1> QED BY <1>1, <1>2 DEF EffectiveUtil, SmallerOf, LargerOf

\* A refused launch takes nothing from a card.
LEMMA SameFree ==
  ASSUME GpuTypes, GpuTypes', UNCHANGED <<layout, loaded, stale>>,
         Len(claims') = Len(claims) + 1, claims'[Len(claims) + 1] = 0,
         \A k \in DOMAIN claims : claims'[k] = claims[k]
  PROVE  \A c \in CardIds : Free(c)' = Free(c)
<1> TAKE c \in CardIds
<1>1. Len(claims) \in Nat /\ \A k \in 1 .. Len(claims) : claims[k] \in Int /\ claims'[k] = claims[k]
  BY DEF GpuTypes
<1>2. EnginesOn(c)' = EnginesOn(c)
  BY <1>1 DEF EnginesOn, Granted
<1> DEFINE E == EnginesOn(c)
           g == [i \in E |-> claims[i]]
<1>3. IsFiniteSet(E) /\ g \in [E -> Int]
      /\ \A i \in E : claims[i] = g[i] /\ claims'[i] = g[i]
  <2>1. IsFiniteSet(1 .. Len(claims)) /\ E \subseteq 1 .. Len(claims)
    BY <1>1, FS_Interval DEF EnginesOn, Granted
  <2> QED BY <1>1, <2>1, FS_Subset
<1> HIDE DEF E, g
<1>4. SumOver(claims, E) = SumOver(g, E) /\ SumOver(claims', E) = SumOver(g, E)
  BY <1>3, SumSame
<1> QED BY <1>2, <1>4 DEF Free, E

\* A refusal is the last thing that happens.
RefusedLast == \A i \in DOMAIN claims : claims[i] = 0 => i = Len(claims)
GpuInv == GpuTypes /\ RefusedLast /\ RefusalsAreGenuine

\* The invariant of the launches holds when none has begun,
LEMMA GpuInitInv == GpuInit => GpuInv
<1> SUFFICES ASSUME GpuInit PROVE GpuInv
  OBVIOUS
<1>1. claims = <<>> /\ layout \in Layouts
  BY DEF GpuInit
<1>2. GpuTypes
  <2>1. layout \in Seq([cards : (SUBSET CardIds) \ {{}}, spans : SUBSET CardIds, weights : Nat])
    BY <1>1, GpuAssumption
  <2>2. Len(layout) \in Nat
    BY <2>1
  <2> QED BY <1>1, <2>2 DEF GpuInit, GpuTypes
<1> QED BY <1>1, <1>2 DEF GpuInv, RefusedLast, RefusalsAreGenuine

\* Once refused nothing happens; before that nobody has been.
LEMMA NobodyRefused ==
  ASSUME GpuInv, ~Refused
  PROVE  \A i \in DOMAIN claims : claims[i] # 0
<1>1. Len(claims) \in Nat /\ DOMAIN claims = 1 .. Len(claims)
  BY DEF GpuInv, GpuTypes
<1> QED BY <1>1 DEF GpuInv, RefusedLast, Refused

\* and every launch, load and late exit keeps it.
LEMMA GpuNextInv ==
  ASSUME Total <= 600, GpuInv, [GpuNext]_gpuVars
  PROVE  GpuInv'
<1>0. Len(claims) \in Nat /\ DOMAIN claims = 1 .. Len(claims) /\ claims \in Seq(Int)
  BY DEF GpuInv, GpuTypes
<1>1. CASE Launch
  <2>1. PICK i \in DOMAIN layout : i = Len(claims) + 1
    <3>1. DOMAIN layout = 1 .. Len(layout) /\ Len(layout) \in Nat
      BY LayoutFacts DEF GpuInv
    <3> QED BY <1>0, <1>1, <3>1 DEF Launch
  <2>2. PICK free \in Int : free = Min({Free(c) : c \in layout[i].cards})
    BY FreeOfLaunch DEF GpuInv
  <2>3. PICK w \in Nat : w = layout[i].weights
    BY LayoutFacts DEF GpuInv
  <2>4. PICK util : util = EffectiveUtil(free, Planned(i), w)
    OBVIOUS
  <2>5. PICK x : x = IF util > 0 /\ free >= util * Total THEN util ELSE 0
    OBVIOUS
  <2>6. /\ claims' = Append(claims, x) /\ ~Refused
        /\ layout' = layout /\ occupants' = occupants /\ loaded' = loaded /\ stale' = stale
    BY <1>1, <2>1, <2>2, <2>3, <2>4, <2>5 DEF Launch
  <2>7. x \in Int
    <3>1. PICK q \in Int : q = Planned(i)
      BY PlannedType DEF GpuInv
    <3>2. util \in Int
      BY <2>4, <3>1, UtilType
    <3> QED BY <2>5, <3>2
  <2>8. /\ claims' \in Seq(Int) /\ Len(claims') = i /\ DOMAIN claims' = 1 .. i /\ claims'[i] = x
        /\ \A k \in DOMAIN claims : claims'[k] = claims[k] /\ k \in DOMAIN claims'
        /\ \A k \in DOMAIN claims' : k = i \/ k \in DOMAIN claims
    BY <1>0, <2>1, <2>6, <2>7
  <2>9. GpuTypes'
    <3>1. DOMAIN layout = 1 .. Len(layout) /\ Len(layout) \in Nat
      BY LayoutFacts DEF GpuInv
    <3> QED BY <2>1, <2>6, <2>8, <3>1 DEF GpuInv, GpuTypes
  <2>10. \A k \in DOMAIN claims : claims'[k] # 0
    BY <2>6, <2>8, NobodyRefused
  <2>11. RefusedLast'
    BY <2>8, <2>10 DEF RefusedLast
  <2>12. CASE x # 0
    <3>1. \A k \in DOMAIN claims' : claims'[k] # 0
      BY <2>8, <2>10, <2>12
    <3> QED BY <3>1, <2>9, <2>11 DEF GpuInv, RefusalsAreGenuine
  <2>13. CASE x = 0
    <3>1. \A c \in CardIds : Free(c)' = Free(c)
      <4>1. GpuTypes /\ Len(claims') = Len(claims) + 1 /\ claims'[Len(claims) + 1] = 0
        BY <2>1, <2>8, <2>13 DEF GpuInv
      <4>2. UNCHANGED <<layout, loaded, stale>> /\ \A k \in DOMAIN claims : claims'[k] = claims[k]
        BY <2>6, <2>8
      <4> QED BY <4>1, <4>2, <2>9, SameFree
    <3>2. layout[i].cards \subseteq CardIds
      BY LayoutFacts DEF GpuInv
    <3>3. {Free(c)' : c \in layout[i].cards} = {Free(c) : c \in layout[i].cards}
      BY <3>1, <3>2
    <3>4. ~(util > 0 /\ free >= util * Total)
      BY <2>5, <2>13
    <3>5. free < 50 * Total \/ free < WeightFloor(w) * Total
      BY <2>1, <2>3, <2>4, <3>4, PlannedType, GenuineRefusal DEF GpuInv
    <3>6. Min({Free(c) : c \in layout[i].cards})' = free
      BY <2>2, <2>6, <3>3
    <3>7. \A k \in DOMAIN claims' : claims'[k] = 0 => k = i
      BY <2>8, <2>10
    <3>8. RefusalsAreGenuine'
      BY <2>3, <2>6, <3>5, <3>6, <3>7 DEF RefusalsAreGenuine
    <3> QED BY <3>8, <2>9, <2>11 DEF GpuInv
  <2> QED BY <2>12, <2>13
<1>2. CASE \E c \in CardIds : AuxLoads(c) \/ StaleLeaves(c)
  <2>1. claims' = claims /\ layout' = layout /\ occupants' = occupants /\ ~Refused
    BY <1>2 DEF AuxLoads, StaleLeaves
  <2>2. loaded' \in [CardIds -> SUBSET AuxStages] /\ stale' \in SUBSET CardIds
    BY <1>2 DEF AuxLoads, StaleLeaves, GpuInv, GpuTypes
  <2>3. \A i \in DOMAIN claims : claims[i] # 0
    BY <2>1, NobodyRefused
  <2> QED BY <2>1, <2>2, <2>3 DEF GpuInv, GpuTypes, RefusedLast, RefusalsAreGenuine
<1>3. CASE UNCHANGED gpuVars
  <2>1. UNCHANGED <<layout, occupants, loaded, stale, claims>>
    BY <1>3 DEF gpuVars
  <2>2. GpuTypes' /\ RefusedLast'
    BY <2>1 DEF GpuInv, GpuTypes, RefusedLast
  <2>3. \A c : Free(c)' = Free(c)
    BY <2>1 DEF Free, EnginesOn, Granted
  <2>4. RefusalsAreGenuine'
    BY <2>1, <2>3 DEF GpuInv, RefusalsAreGenuine
  <2> QED BY <2>2, <2>4 DEF GpuInv
<1> QED BY <1>1, <1>2, <1>3 DEF GpuNext

\* For any cards of up to 600 GiB, layouts, reserves, weights and orders of loading:
\* the plan fits the cards, and who is refused had too little.
THEOREM PlansTheorem ==
  ASSUME Total <= 600
  PROVE  GpuInit /\ [][GpuNext]_gpuVars => []PlansFitTheCards
<1>1. GpuInv => PlansFitTheCards
  BY CardsHold, SizesFit DEF GpuInv, PlansFitTheCards
<1>2. GpuInv /\ [GpuNext]_gpuVars => GpuInv'
  BY GpuNextInv
<1> QED BY <1>1, <1>2, GpuInitInv, PTL
=============================================================================
