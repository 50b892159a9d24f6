------------------------------ MODULE RequestPath ------------------------------
(***************************************************************************)
(* One request through the stage services of a closed-loop attempt, and     *)
(* what the services count meanwhile (serving_runtime.py): the sequential   *)
(* path takes every stage once, the ReAct path generates, searches and      *)
(* reranks round after round. Services count from the start of the process; *)
(* the statistics they export are to cover the measured window.             *)
(*                                                                          *)
(* BatchedStage models how a worker stage forms its batches and ClosedLoop  *)
(* who sends requests; here a batch is one step and any request may come at *)
(* any time.                                                                *)
(***************************************************************************)
EXTENDS Naturals, FiniteSets, Sequences

CONSTANTS Requests,
          Chain,        \* the stages in their order
          Engines,      \* those of them that are LLM stages
          Direct,       \* and those that are neither batched nor counted
          MaxInflight,  \* permits of an LLM stage
          BatchSize,    \* of a worker stage
          MaxIter       \* ReAct: round cap

\* _build_services: one service per stage, of the stage's kind.
Stages == {Chain[i] : i \in DOMAIN Chain}
Workers == Stages \ (Engines \cup Direct)
\* A pipeline has a stage once: a request's visits are kept under its name.
ASSUME PathAssumption ==
  /\ Chain \in Seq(Stages)
  /\ \A i, j \in DOMAIN Chain : Chain[i] = Chain[j] => i = j
  /\ Stages \cap {"new", "assembling", "answered", "failed"} = {}
  /\ Engines \cup Direct \subseteq Stages /\ Engines \cap Direct = {}
  /\ {"generator", "retriever"} \subseteq Stages
  /\ "generator" \in Engines /\ "retriever" \notin Engines \cup Direct
  /\ {MaxInflight, BatchSize, MaxIter} \subseteq Nat \ {0}

VARIABLES mode,      \* sequential or react
          stageOf,   \* where each request is: new, a stage, assembling, answered, failed
          permitted, \* requests that hold a permit of their LLM stage
          visits,    \* RequestState: visits of each stage
          output,    \* RequestState: last output, truncated
          counters,  \* per stage: submitted/completed or batches/rows
          window,    \* before, open or closed
          marks,     \* snapshots at the start and the end of the window
          peak,      \* win_max_inflight_observed or win_max_batch_observed
          probe,     \* samples taken, index of the window's first
          inWindow   \* history: what happened while the window was open

pathVars == <<mode, stageOf, permitted, visits, output, counters, window, marks, peak, probe,
              inWindow>>

Zero == [s \in Stages |-> [begun |-> 0, ended |-> 0]]
PathInit ==
  /\ mode \in {"sequential", "react"} /\ stageOf = [r \in Requests |-> "new"] /\ permitted = {}
  /\ visits = [r \in Requests |-> [s \in Stages |-> 0]]
  /\ output = [r \in Requests |-> [text |-> "none", truncated |-> TRUE]]
  /\ counters = Zero /\ window = "before" /\ marks = [start |-> Zero, end |-> Zero]
  /\ peak = [s \in Stages |-> 0] /\ probe = [taken |-> 0, index |-> 0]
  /\ inWindow = [count |-> Zero, peak |-> [s \in Stages |-> 0], samples |-> 0]

Inflight(s) == Cardinality({r \in permitted : stageOf[r] = s})
Larger(a, b) == IF a >= b THEN a ELSE b

(***************************************************************************)
(* Counting. A level or a batch size always raises the window's peak, also  *)
(* after the window has closed; the counters are cut at both ends.          *)
(***************************************************************************)
Counted(adds, s, level) ==
  LET Add(c) == [t \in Stages |-> [begun |-> c[t].begun + adds[t].begun,
                                  ended |-> c[t].ended + adds[t].ended]] IN
  /\ counters' = Add(counters)
  /\ peak' = [peak EXCEPT ![s] = Larger(@, level)]
  /\ inWindow' = IF window = "open"
                 THEN [inWindow EXCEPT !.count = Add(@), !.peak[s] = Larger(@, level)]
                 ELSE inWindow
  /\ UNCHANGED <<window, marks, probe>>

\* n requests leave stage "from", where "done" is counted, for stage "to": an LLM
\* stage counts them as submitted on arrival.
Passing(from, done, to, n) ==
  [t \in Stages |-> [begun |-> (IF t = from THEN done.begun ELSE 0)
                              + (IF t = to /\ t \in Engines THEN n ELSE 0),
                     ended |-> IF t = from THEN done.ended ELSE 0]]

CountersAlone == UNCHANGED <<counters, peak, inWindow, window, marks, probe>>

\* start_measurement_locked: every service is marked, the engines' peak starts at
\* their present level, a worker's at 0; the probe's window begins.
MarkWindowStart ==
  /\ window = "before" /\ window' = "open"
  /\ marks' = [marks EXCEPT !.start = counters]
  /\ LET now == [s \in Stages |-> IF s \in Engines THEN Inflight(s) ELSE 0] IN
     peak' = now /\ inWindow' = [count |-> Zero, peak |-> now, samples |-> 0]
  /\ probe' = [probe EXCEPT !.index = probe.taken]
  /\ UNCHANGED <<mode, stageOf, permitted, visits, output, counters>>

\* finish_measurement_locked: it stops the probes too.
MarkNothing == UNCHANGED marks
MarkEnd == marks' = [marks EXCEPT !.end = counters]
MarkWindowEnd ==
  /\ window = "open" /\ window' = "closed" /\ MarkEnd
  /\ UNCHANGED <<mode, stageOf, permitted, visits, output, counters, peak, probe, inWindow>>

\* _windowed_counters: lifetime totals when no window was marked.
Windowed(s) ==
  LET end == IF window = "closed" THEN marks.end ELSE counters
      start == IF window = "before" THEN Zero ELSE marks.start IN
  [begun |-> end[s].begun - start[s].begun, ended |-> end[s].ended - start[s].ended]

\* The probe loop: a sample a second, from serving start until the window ends,
\* here twice at most.
ProbeSamples ==
  /\ window # "closed" /\ probe.taken < 2
  /\ probe' = [probe EXCEPT !.taken = @ + 1]
  /\ inWindow' = [inWindow EXCEPT !.samples = @ + (IF window = "open" THEN 1 ELSE 0)]
  /\ UNCHANGED <<mode, stageOf, permitted, visits, output, counters, peak, window, marks>>

\* engine_probe_stats and _series: the window's samples, or all of them when it has
\* none. The CPU probe gives nothing for less than two.
InWindow == probe.taken - probe.index
EngineSamples == IF InWindow > 0 THEN InWindow ELSE probe.taken
CpuSamples == IF InWindow < 2 THEN 0 ELSE InWindow

\* stats(): of a worker stage, of an LLM stage.
WorkerStats(s) ==
  [batches |-> Windowed(s).begun, rows |-> Windowed(s).ended, largest |-> peak[s]]
EngineStats(s) ==
  [submitted |-> Windowed(s).begun, completed |-> Windowed(s).ended, highest |-> peak[s],
   inflight |-> Inflight(s)]

(***************************************************************************)
(* Moving through the stages.                                               *)
(***************************************************************************)
\* The stage behind s on the sequential path; the request is answered at the end.
Behind(s) ==
  LET i == CHOOSE j \in DOMAIN Chain : Chain[j] = s IN
  IF i = Len(Chain) THEN "answered" ELSE Chain[i + 1]

\* Where a ReAct request goes after a search or a rerank.
Searched(s) == IF s = "retriever" /\ "reranker" \in Stages THEN "reranker" ELSE "generator"

Arrive(movers, s) ==
  stageOf' = [r \in Requests |-> IF r \in movers THEN s ELSE stageOf[r]]

AddStage(rs, s) ==
  visits' = [r \in Requests |-> IF r \in rs THEN [visits[r] EXCEPT ![s] = @ + 1] ELSE visits[r]]

Admit(r) ==
  LET to == IF mode = "react" THEN "generator" ELSE Chain[1] IN
  /\ stageOf[r] = "new" /\ Arrive({r}, to)
  /\ Counted(Passing("new", [begun |-> 0, ended |-> 0], to, 1), to, 0)
  /\ UNCHANGED <<mode, permitted, visits, output>>

\* generate_text: the permit.
Acquire(r) ==
  LET s == stageOf[r] IN
  /\ s \in Engines /\ r \notin permitted /\ Inflight(s) < MaxInflight
  /\ permitted' = permitted \cup {r} /\ Counted(Zero, s, Inflight(s) + 1)
  /\ UNCHANGED <<mode, stageOf, visits, output>>

\* What the loop does with an output: a search alone goes on, and a final answer,
\* also beside a search, or neither, ends it. The last round cannot use a search.
Outputs == {"search", "final"}
EndsTooLate(text, rounds) == text # "search" \/ rounds > MaxIter
Ends(text, rounds) == text # "search" \/ rounds = MaxIter

Generated(r, to, text) ==
  LET s == stageOf[r] IN
  /\ r \in permitted /\ permitted' = permitted \ {r} /\ Arrive({r}, to) /\ AddStage({r}, s)
  /\ Counted(Passing(s, [begun |-> 0, ended |-> 1], to, 1), s, 0)
  /\ output' = [output EXCEPT ![r] = [text |-> text, truncated |-> text = "search"]]
  /\ UNCHANGED mode

\* The generator of the sequential path, the query expander, a round of ReAct.
Answer(r) ==
  mode = "sequential" /\ stageOf[r] = "generator" /\ Generated(r, Behind(stageOf[r]), "final")
Expand(r) ==
  mode = "sequential" /\ stageOf[r] \in Engines \ {"generator"}
  /\ Generated(r, Behind(stageOf[r]), "final")
Think(r, text) ==
  /\ mode = "react" /\ stageOf[r] = "generator"
  /\ Generated(r, IF Ends(text, visits[r]["generator"] + 1) THEN "assembling" ELSE "retriever",
               text)

\* A direct stage: in a thread, alone.
PureAlone(r) ==
  /\ mode = "sequential" /\ stageOf[r] \in Direct
  /\ LET s == stageOf[r] IN
     /\ Arrive({r}, Behind(s)) /\ AddStage({r}, s)
     /\ Counted(Passing("none", [begun |-> 0, ended |-> 0], Behind(s), 1), s, 0)
  /\ UNCHANGED <<mode, permitted, output>>

\* A worker serves a batch: all of its calls go on together.
ServeBatch(s, batch) ==
  LET to == IF mode = "sequential" THEN Behind(s) ELSE Searched(s)
      n == Cardinality(batch) IN
  /\ s \in Workers /\ n \in 1 .. BatchSize /\ \A r \in batch : stageOf[r] = s
  /\ Arrive(batch, to) /\ AddStage(batch, s)
  /\ Counted(Passing(s, [begun |-> 1, ended |-> n], to, n), s, n)
  /\ UNCHANGED <<mode, permitted, output>>

\* A batch that raises is not counted: each of its calls fails.
BatchRaises(s, batch) ==
  /\ s \in Workers /\ Cardinality(batch) \in 1 .. BatchSize
  /\ \A r \in batch : stageOf[r] = s
  /\ Arrive(batch, "failed") /\ CountersAlone /\ UNCHANGED <<mode, permitted, visits, output>>

\* The engine fails a request, or the request is cancelled: waiting or running,
\* it leaves the stage, and its permit comes back.
PermitBack(r) == permitted \ {r}
LeavesEngine(r) ==
  /\ stageOf[r] \in Engines /\ Arrive({r}, "failed") /\ permitted' = PermitBack(r)
  /\ CountersAlone /\ UNCHANGED <<mode, visits, output>>

\* _assemble_final_row, in a thread.
Assemble(r) ==
  /\ stageOf[r] = "assembling" /\ Arrive({r}, "answered")
  /\ CountersAlone /\ UNCHANGED <<mode, permitted, visits, output>>

PathNext ==
  \/ MarkWindowStart \/ MarkWindowEnd \/ ProbeSamples
  \/ \E r \in Requests : Admit(r) \/ Acquire(r) \/ LeavesEngine(r) \/ Assemble(r) \/ Answer(r)
                         \/ Expand(r) \/ PureAlone(r) \/ \E text \in Outputs : Think(r, text)
  \/ \E s \in Stages, batch \in SUBSET Requests : ServeBatch(s, batch) \/ BatchRaises(s, batch)

PathSpec == PathInit /\ [][PathNext]_pathVars

(***************************************************************************)
(* Properties.                                                              *)
(***************************************************************************)

\* What a service exports is what happened in the window: the counters count
\* exactly its events, neither warmup's nor those of the drain, whose requests
\* still run; the peak is never below a level the window saw, and equals it while
\* the window is open, so no average batch exceeds the largest one; the probes'
\* samples are the window's if it has any.
WindowStatsAreTheWindow ==
  /\ window # "before" =>
       /\ \A s \in Stages : /\ Windowed(s) = inWindow.count[s]
                            /\ peak[s] >= inWindow.peak[s]
                            /\ window = "open" => peak[s] = inWindow.peak[s]
       /\ inWindow.samples > 0 => EngineSamples = inWindow.samples
       /\ CpuSamples \in {0, inWindow.samples}
  /\ \A s \in Workers : LET w == WorkerStats(s) IN w.rows <= w.batches * w.largest
  /\ \A s \in Engines : LET e == EngineStats(s) IN
       e.inflight <= e.highest /\ e.highest <= MaxInflight

\* An answer's account of itself: a sequential request saw every stage once; a
\* ReAct request generated once more than it searched, reranked every search,
\* stayed within the cap, and is truncated exactly when its last output was a
\* search without an answer - then it used every round.
RoundsAreAccountedFor ==
  \A r \in Requests : stageOf[r] = "answered" =>
    IF mode = "sequential" THEN \A s \in Stages : visits[r][s] = 1
    ELSE /\ visits[r]["generator"] \in 1 .. MaxIter
         /\ visits[r]["retriever"] = visits[r]["generator"] - 1
         /\ "reranker" \in Stages => visits[r]["reranker"] = visits[r]["retriever"]
         /\ output[r].truncated <=> output[r].text = "search"
         /\ output[r].truncated => visits[r]["generator"] = MaxIter

=============================================================================
