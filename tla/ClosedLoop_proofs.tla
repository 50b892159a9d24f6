-------------------------- MODULE ClosedLoop_proofs --------------------------
(***************************************************************************)
(* The closed loop's invariants and action properties, for any population,  *)
(* dataset, span, target and sample size.  They come in layers: the types,  *)
(* the course of the attempt, the account of its request numbers, and the   *)
(* size of the sample.                                                      *)
(***************************************************************************)
EXTENDS ClosedLoop, FiniteSetTheorems, TLAPS

Filling == {r \in Rows : fill[r] # None}

\* How far the main task is says what became of the window and of the drivers.
Course ==
  /\ main = "run" => hit = {}
  /\ main \in {"drain", "cancel", "fill", "clear", "done"} => phase = "closed" /\ ~rejected
  /\ main \in {"cancel", "fill", "clear", "done"} => Pending \subseteq hit
  /\ Filling # {} => phase = "closed" /\ Pending \subseteq hit
  /\ main \in {"clear", "done"} => Covered
  /\ main = "done" => Failed = {}

\* How the proof, its support and the window go together.
Proven ==
  /\ phase = "warmup" => gated /\ proof = None
  /\ gated /\ phase # "warmup" => proof # None
  /\ support # None => Covered

\* Every request number is in one place only: no two drivers, no two fills and no
\* driver and fill run the same request, and one in flight has no result yet.
OneOwner ==
  /\ \A d, e \in Running : request[d].qid = request[e].qid => d = e
  /\ \A r, s \in Rows : fill[r] # None /\ fill[r] = fill[s] => r = s
  /\ \A r, s \in Rows : first[r] # None /\ first[r] = first[s] => r = s
  /\ \A d \in Running, r \in Rows : fill[r] # request[d].qid /\ first[r] # request[d].qid
  /\ \A d \in Running : request[d].qid \notin reservoir
  /\ \A r, s \in Rows : fill[r] # None => first[s] # fill[r]
  /\ \A r \in Rows : fill[r] # None => first[r] = None /\ fill[r] \notin reservoir

Used(q) ==
  \/ q \in reservoir
  \/ \E r \in Rows : q \in {first[r], fill[r]}
  \/ \E d \in Running : q = request[d].qid

\* The recorder holds what is in flight, won or sampled, all of it numbered before
\* now, and until an abort nothing else.
Recorded ==
  /\ \A q \in recorded : q < nextSeq
  /\ \A q \in Nat : Used(q) => q \in recorded
  /\ main \notin {"abort", "aborted"} => \A q \in recorded : Used(q)

Custody == OneOwner /\ Recorded

\* The reservoir is full, or holds the whole cohort.
Sampled ==
  /\ IsFiniteSet(reservoir)
  /\ Cardinality(reservoir) = IF cohort < SampleCap THEN cohort ELSE SampleCap

-----------------------------------------------------------------------------
(***************************************************************************)
(* Types.                                                                  *)
(***************************************************************************)
LEMMA Parameters ==
  /\ Span \in Nat /\ Span > 0 /\ Target \in Nat /\ SampleCap \in Nat /\ SampleCap > 0
  /\ None \notin Nat /\ Rows # {}
  BY ClosedLoopAssumption

\* Every driver with a request running has one.
RunningTypes == \A d \in Running : request[d] \in Requests

Typed == TypeOK /\ RunningTypes

LEMMA InitTyped == Init => Typed
<1> SUFFICES ASSUME Init
             PROVE  Typed
  OBVIOUS
<1>1. PoolTypes
  BY Parameters DEF Init, PoolTypes, DriverStates
<1>2. TraceTypes /\ ProofTypes /\ WindowTypes /\ MainTypes
  BY Parameters DEF Init, TraceTypes, ProofTypes, WindowTypes, MainTypes
<1>3. RunningTypes
  BY DEF Init, RunningTypes, Running
<1> QED BY <1>1, <1>2, <1>3 DEF Typed, TypeOK, Init

\* What an action leaves alone keeps its type.
LEMMA SameTypes ==
  /\ UNCHANGED poolVars => (PoolTypes => PoolTypes') /\ (RunningTypes => RunningTypes')
  /\ UNCHANGED traceVars => (TraceTypes => TraceTypes')
  /\ UNCHANGED proofVars => (ProofTypes => ProofTypes')
  /\ UNCHANGED windowVars => (WindowTypes => WindowTypes')
  /\ UNCHANGED mainVars => (MainTypes => MainTypes')
<1>1. UNCHANGED poolVars => (PoolTypes => PoolTypes') /\ (RunningTypes => RunningTypes')
  BY DEF poolVars, PoolTypes, RunningTypes, Running
<1> QED BY <1>1 DEF traceVars, proofVars, windowVars, mainVars, TraceTypes, ProofTypes,
                    WindowTypes, MainTypes

\* What a completion does, whatever the phase, to its driver and its row.
LEMMA RegisterTyped ==
  ASSUME Typed, NEW d \in Drivers, driver[d] = "running", Recycle(d), Register(d)
  PROVE  /\ request[d].qid \in Nat /\ request[d].row \in Rows
         /\ PoolTypes' /\ RunningTypes'
         /\ first' \in [Rows -> Nat \cup {None}]
<1>0. PoolTypes /\ TraceTypes /\ RunningTypes
  BY DEF Typed, TypeOK
<1>1. request[d] \in Requests
  BY <1>0 DEF RunningTypes, Running
<1>2. request[d].qid \in Nat /\ request[d].row \in Rows
  BY <1>1 DEF Requests
<1>3. PoolTypes' /\ RunningTypes'
  BY <1>0 DEF Recycle, PoolTypes, RunningTypes, Running, DriverStates
<1>4. first' \in [Rows -> Nat \cup {None}]
  BY <1>0, <1>2 DEF Register, TraceTypes
<1> QED BY <1>2, <1>3, <1>4

\* The gate may open the window, on a proof that starts at a natural number.
LEMMA OpeningTyped ==
  ASSUME ProofTypes, WindowTypes, NEW done \in Nat, NEW known \in Nat \cup {None},
         NEW stable \in MayBeStable(done, ProofStart(known)), MaybeStart(stable, known)
  PROVE  /\ proof' \in Nat \cup {None} /\ target' \in Nat
         /\ phase' \in {"warmup", "open", "closed"}
         /\ saturation' \in {"none", "candidate", "saturated", "unsaturated"}
  BY Parameters DEF MaybeStart, StartMeasurement, ProofStart, MayBeStable, Opens, ProofTypes,
     WindowTypes

LEMMA DriverStepTyped ==
  ASSUME Typed, NEW d \in Drivers, DriverStep(d)
  PROVE  Typed'
<1>0. /\ PoolTypes /\ TraceTypes /\ ProofTypes /\ WindowTypes /\ MainTypes /\ RunningTypes
      /\ llm \in BOOLEAN /\ gated \in BOOLEAN
  BY DEF Typed, TypeOK
<1>1. CASE Activate(d)
  <2>1. PoolTypes' /\ RunningTypes'
    BY <1>0, <1>1 DEF Activate, PoolTypes, RunningTypes, Running, DriverStates
  <2> QED BY <1>0, <1>1, <2>1, SameTypes DEF Activate, Typed, TypeOK, config
<1>2. CASE Leave(d)
  <2>1. PoolTypes' /\ RunningTypes'
    BY <1>0, <1>2 DEF Leave, PoolTypes, RunningTypes, Running, DriverStates
  <2>2. WindowTypes'
    BY <1>0, <1>2 DEF Leave, FinishMeasurement, WindowTypes
  <2> QED BY <1>0, <1>2, <2>1, <2>2, SameTypes DEF Leave, Typed, TypeOK, config
<1>3. CASE Admit(d)
  <2>1. PICK r \in epoch : /\ request' = [request EXCEPT ![d] = [qid |-> nextSeq, row |-> r]]
                           /\ epoch' = WithoutRow(r)
    BY <1>3 DEF Admit
  <2>2. epoch' \subseteq Rows /\ epoch' # {} /\ r \in Rows
    BY <1>0, <2>1 DEF WithoutRow, PoolTypes
  <2>3. [qid |-> nextSeq, row |-> r] \in Requests
    BY <1>0, <2>2 DEF Requests, PoolTypes
  <2>4. PoolTypes' /\ RunningTypes'
    BY <1>0, <1>3, <2>1, <2>2, <2>3 DEF Admit, PoolTypes, RunningTypes, Running, DriverStates
  <2>5. TraceTypes'
    BY <1>0, <1>3 DEF Admit, TraceTypes, PoolTypes
  <2> QED BY <1>0, <1>3, <2>4, <2>5, SameTypes DEF Admit, Typed, TypeOK, config
<1>4. CASE CompleteInWarmup(d)
  <2>1. driver[d] = "running" /\ Recycle(d) /\ Register(d) /\ Discard({request[d].qid})
    BY <1>4 DEF CompleteInWarmup
  <2>2. PICK stable \in MayBeStable(warmed + 1, ProofStart(support')) :
          MaybeStart(stable, support') /\ rejected' = (rejected \/ (timer = "due" /\ ~Opens(stable)))
    BY <1>4 DEF CompleteInWarmup
  <2>3. support' \in Nat \cup {None} /\ warmed' \in Nat
    BY <1>0, <1>4 DEF CompleteInWarmup, ProofTypes
  <2>4. /\ proof' \in Nat \cup {None} /\ target' \in Nat
        /\ phase' \in {"warmup", "open", "closed"}
        /\ saturation' \in {"none", "candidate", "saturated", "unsaturated"}
    BY <1>0, <2>2, <2>3, OpeningTyped DEF ProofTypes
  <2>5. ProofTypes' /\ WindowTypes'
    BY <1>0, <1>4, <2>2, <2>3, <2>4 DEF CompleteInWarmup, ProofTypes, WindowTypes
  <2>6. PoolTypes' /\ RunningTypes' /\ TraceTypes'
    BY <1>0, <1>4, <2>1, RegisterTyped DEF CompleteInWarmup, Discard, TraceTypes
  <2> QED BY <1>0, <1>4, <2>5, <2>6, SameTypes DEF CompleteInWarmup, Typed, TypeOK, config
<1>5. CASE CompleteInWindow(d)
  <2>1. driver[d] = "running" /\ Recycle(d) /\ Register(d)
    BY <1>5 DEF CompleteInWindow
  <2>2. WindowTypes'
    BY <1>0, <1>5, Parameters DEF CompleteInWindow, FinishMeasurement, WindowTypes
  <2>3. reservoir' \subseteq reservoir \cup {request[d].qid} /\ recorded' \subseteq recorded
    BY <1>5 DEF CompleteInWindow, Discard
  <2>4. PoolTypes' /\ RunningTypes' /\ TraceTypes'
    BY <1>0, <2>1, <2>3, RegisterTyped DEF TraceTypes
  <2> QED BY <1>0, <1>5, <2>2, <2>4, SameTypes DEF CompleteInWindow, Typed, TypeOK, config
<1>6. CASE CompleteAfterWindow(d)
  <2>1. PoolTypes' /\ RunningTypes' /\ TraceTypes'
    BY <1>0, <1>6, RegisterTyped DEF CompleteAfterWindow, Discard, TraceTypes
  <2> QED BY <1>0, <1>6, <2>1, SameTypes DEF CompleteAfterWindow, Typed, TypeOK, config
<1>7. CASE RequestFails(d)
  <2>1. PoolTypes' /\ RunningTypes' /\ TraceTypes'
    BY <1>0, <1>7 DEF RequestFails, PoolTypes, RunningTypes, Running, TraceTypes, DriverStates
  <2> QED BY <1>0, <1>7, <2>1, SameTypes DEF RequestFails, Typed, TypeOK, config
<1>8. CASE Unwind(d)
  <2>1. PoolTypes' /\ RunningTypes' /\ TraceTypes'
    BY <1>0, <1>8 DEF Unwind, PoolTypes, RunningTypes, Running, TraceTypes, DriverStates
  <2> QED BY <1>0, <1>8, <2>1, SameTypes DEF Unwind, Typed, TypeOK, config
<1> QED BY <1>1, <1>2, <1>3, <1>4, <1>5, <1>6, <1>7, <1>8 DEF DriverStep, Complete

LEMMA GrowTyped ==
  ASSUME Typed, NEW S \in SUBSET Drivers, Grow(S)
  PROVE  Typed'
<1>1. /\ PoolTypes /\ TraceTypes /\ ProofTypes /\ WindowTypes /\ MainTypes /\ RunningTypes
      /\ llm \in BOOLEAN /\ gated \in BOOLEAN
  BY DEF Typed, TypeOK
<1>2. PoolTypes' /\ RunningTypes' /\ ProofTypes'
  BY <1>1 DEF Grow, PoolTypes, RunningTypes, Running, ProofTypes, DriverStates
<1> QED BY <1>1, <1>2, SameTypes DEF Grow, Typed, TypeOK, config

LEMMA MonitorStepTyped ==
  ASSUME Typed, MonitorStep
  PROVE  Typed'
<1>0. /\ PoolTypes /\ TraceTypes /\ ProofTypes /\ WindowTypes /\ MainTypes /\ RunningTypes
      /\ llm \in BOOLEAN /\ gated \in BOOLEAN
  BY DEF Typed, TypeOK
<1>1. CASE AdapterSeesRamp
  <2>1. ProofTypes' /\ WindowTypes'
    <3>1. \/ UNCHANGED <<phase, proof, target>>
          \/ StartMeasurement(support)
      BY <1>1 DEF AdapterSeesRamp
    <3>2. proof' \in Nat \cup {None} /\ target' \in Nat /\ phase' \in {"warmup", "open", "closed"}
      BY <1>0, <3>1, Parameters DEF StartMeasurement, ProofTypes, WindowTypes
    <3>3. /\ adapter' \in {"observing", "done"}
          /\ saturation' \in {saturation, "saturated", "candidate"}
      BY <1>1 DEF AdapterSeesRamp
    <3> QED BY <1>0, <1>1, <3>2, <3>3 DEF AdapterSeesRamp, ProofTypes, WindowTypes
  <2> QED BY <1>0, <1>1, <2>1, SameTypes DEF AdapterSeesRamp, Typed, TypeOK, config
<1>2. CASE VerdictSaturated
  <2>1. PICK start \in support..warmed : Fresh(warmed, start) /\ StartMeasurement(start)
    BY <1>2 DEF VerdictSaturated
  <2>2. start \in Nat
    BY <1>0, <1>2 DEF VerdictSaturated, ProofTypes
  <2>3. ProofTypes' /\ WindowTypes'
    BY <1>0, <1>2, <2>1, <2>2, Parameters
       DEF VerdictSaturated, StartMeasurement, ProofTypes, WindowTypes
  <2> QED BY <1>0, <1>2, <2>3, SameTypes DEF VerdictSaturated, Typed, TypeOK, config
<1>3. CASE VerdictUnsaturated
  BY <1>0, <1>3, SameTypes
     DEF VerdictUnsaturated, ProofTypes, WindowTypes, Typed, TypeOK, config
<1>4. CASE AdapterGivesUp
  BY <1>0, <1>4, SameTypes DEF AdapterGivesUp, ProofTypes, Typed, TypeOK, config
<1>5. CASE WarmupDeadline
  BY <1>0, <1>5, SameTypes DEF WarmupDeadline, ProofTypes, Typed, TypeOK, config
<1>6. CASE WarmupTimer
  <2>1. CASE phase # "warmup"
    <3>1. ProofTypes' /\ WindowTypes'
      BY <1>0, <1>6, <2>1 DEF WarmupTimer, ProofTypes, WindowTypes
    <3> QED BY <1>0, <1>6, <3>1, SameTypes DEF WarmupTimer, Typed, TypeOK, config
  <2>2. CASE phase = "warmup"
    <3>1. PICK stable \in MayBeStable(warmed, ProofStart(support)) :
            /\ MaybeStart(stable, support)
            /\ timer' = IF Opens(stable) \/ timer = "due" THEN "over" ELSE "deferred"
            /\ rejected' = (rejected \/ (timer = "due" /\ ~Opens(stable)))
      BY <1>6, <2>2 DEF WarmupTimer
    <3>2. /\ proof' \in Nat \cup {None} /\ target' \in Nat
          /\ phase' \in {"warmup", "open", "closed"}
          /\ saturation' \in {"none", "candidate", "saturated", "unsaturated"}
      BY <1>0, <3>1, OpeningTyped DEF ProofTypes
    <3>3. ProofTypes' /\ WindowTypes'
      BY <1>0, <1>6, <3>1, <3>2 DEF WarmupTimer, ProofTypes, WindowTypes
    <3> QED BY <1>0, <1>6, <3>3, SameTypes DEF WarmupTimer, Typed, TypeOK, config
  <2> QED BY <2>1, <2>2
<1>7. CASE MeasuredCapPasses
  BY <1>0, <1>7, SameTypes DEF MeasuredCapPasses, WindowTypes, Typed, TypeOK, config
<1>8. CASE MeasuredTimer
  BY <1>0, <1>8, SameTypes DEF MeasuredTimer, FinishMeasurement, WindowTypes, Typed, TypeOK, config
<1> QED BY <1>1, <1>2, <1>3, <1>4, <1>5, <1>6, <1>7, <1>8 DEF MonitorStep

\* A step of the main task that starts or ends no fill.
MainMoves ==
  /\ UNCHANGED <<Others, nextSeq, traceVars, fill>>
  /\ hit' \in {hit, hit \cup Pending}
  /\ main' \in {"drain", "cancel", "fill", "clear", "done", "abort", "aborted"}

LEMMA MainStepTyped ==
  ASSUME Typed, MainStep
  PROVE  Typed'
<1>0. /\ PoolTypes /\ TraceTypes /\ ProofTypes /\ WindowTypes /\ MainTypes /\ RunningTypes
      /\ llm \in BOOLEAN /\ gated \in BOOLEAN
  BY DEF Typed, TypeOK
<1>1. CASE MainMoves
  <2>1. PoolTypes' /\ RunningTypes' /\ MainTypes'
    BY <1>0, <1>1 DEF MainMoves, Others, PoolTypes, RunningTypes, Running, Pending, MainTypes
  <2> QED BY <1>0, <1>1, <2>1, SameTypes DEF MainMoves, Others, Typed, TypeOK, config
<1>2. ASSUME NEW r \in Rows, FillStarts(r) \/ FillDone(r)
      PROVE  Typed'
  <2>1. PoolTypes' /\ RunningTypes'
    BY <1>0, <1>2 DEF FillStarts, FillDone, Others, PoolTypes, RunningTypes, Running
  <2>2. MainTypes'
    BY <1>0, <1>2 DEF FillStarts, FillDone, Others, MainTypes, PoolTypes
  <2>3. TraceTypes'
    <3>1. CASE FillStarts(r)
      BY <1>0, <3>1 DEF FillStarts, TraceTypes, PoolTypes
    <3>2. CASE FillDone(r)
      BY <1>0, <3>2 DEF FillDone, TraceTypes, MainTypes
    <3> QED BY <1>2, <3>1, <3>2
  <2> QED BY <1>0, <1>2, <2>1, <2>2, <2>3, SameTypes
          DEF FillStarts, FillDone, Others, Typed, TypeOK, config
<1>3. MainMoves \/ \E r \in Rows : FillStarts(r) \/ FillDone(r)
  BY DEF MainStep, MainMoves, WindowEnds, Reject, DriverFailureSeen, DrainEnds, DriversCancelled,
     FillEnds, Aborted, FillFails, CancelDrivers
<1> QED BY <1>1, <1>2, <1>3

LEMMA TypedStep == Typed /\ [Next]_vars => Typed'
<1>1. ASSUME Typed, UNCHANGED vars
      PROVE  Typed'
  BY <1>1, SameTypes DEF vars, config, Typed, TypeOK
<1> QED BY <1>1, DriverStepTyped, GrowTyped, MonitorStepTyped, MainStepTyped DEF Next

-----------------------------------------------------------------------------
(***************************************************************************)
(* The course of the attempt.                                              *)
(***************************************************************************)
\* What no driver and no monitor undoes: a stop, a cancellation, an answer.
Onward ==
  /\ main' = main /\ fill' = fill
  /\ hit = {} => hit' = {}
  /\ phase = "closed" => phase' = "closed" /\ rejected' = rejected
  /\ phase = "closed" /\ Pending \subseteq hit => Pending' \subseteq hit' /\ Failed' \subseteq Failed
  /\ Covered => Covered'

LEMMA CourseOnward == Course /\ Onward => Course'
  BY DEF Course, Onward, Filling

\* An answered row stays answered.
LEMMA RegisterCovers ==
  ASSUME Typed, NEW d \in Drivers, driver[d] = "running", Recycle(d), Register(d)
  PROVE  /\ Covered => Covered'
         /\ \A r \in Rows : first[r] # None => first'[r] = first[r]
  BY DEF Register, Covered, Typed, TypeOK, TraceTypes

LEMMA DriverStepOnward ==
  ASSUME Typed, NEW d \in Drivers, DriverStep(d)
  PROVE  Onward
<1>0. driver \in [Drivers -> DriverStates]
  BY DEF Typed, TypeOK, PoolTypes
<1>1. CASE Activate(d)
  BY <1>0, <1>1 DEF Activate, Onward, Pending, Failed, Covered, mainVars, windowVars, traceVars
<1>2. CASE Leave(d)
  BY <1>0, <1>2 DEF Leave, FinishMeasurement, Onward, Pending, Failed, Covered, mainVars, traceVars
<1>3. CASE Admit(d)
  BY <1>0, <1>3 DEF Admit, Onward, Pending, Failed, Covered, mainVars, windowVars
<1>4. CASE Complete(d)
  <2>1. driver[d] = "running" /\ d \notin hit /\ Recycle(d) /\ Register(d)
    BY <1>4 DEF Complete, CompleteInWarmup, CompleteInWindow, CompleteAfterWindow
  <2>2. d \in Pending
    BY <2>1 DEF Pending
  <2>3. main' = main /\ fill' = fill /\ hit' = hit
    BY <1>4, <2>1 DEF Complete, CompleteInWarmup, CompleteInWindow, CompleteAfterWindow, mainVars,
       Recycle
  <2>4. phase = "closed" => phase' = "closed" /\ rejected' = rejected
    BY <1>4 DEF Complete, CompleteInWarmup, CompleteInWindow, CompleteAfterWindow, windowVars
  <2> QED BY <2>1, <2>2, <2>3, <2>4, RegisterCovers DEF Onward
<1>5. CASE RequestFails(d)
  BY <1>0, <1>5 DEF RequestFails, Onward, Pending, Failed, Covered, mainVars, windowVars
<1>6. CASE Unwind(d)
  BY <1>0, <1>6 DEF Unwind, Onward, Pending, Failed, Covered, mainVars, windowVars
<1> QED BY <1>1, <1>2, <1>3, <1>4, <1>5, <1>6 DEF DriverStep

LEMMA GrowOnward ==
  ASSUME NEW S \in SUBSET Drivers, Grow(S)
  PROVE  Onward
  BY DEF Grow, Onward, Covered, mainVars, windowVars, traceVars

LEMMA MonitorStepOnward ==
  ASSUME MonitorStep
  PROVE  Onward
<1>1. UNCHANGED <<poolVars, traceVars, mainVars>>
  BY DEF MonitorStep, AdapterSeesRamp, VerdictSaturated, VerdictUnsaturated, AdapterGivesUp,
     WarmupDeadline, WarmupTimer, MeasuredCapPasses, MeasuredTimer
<1>2. phase = "closed" => phase' = "closed" /\ rejected' = rejected
  BY DEF MonitorStep, AdapterSeesRamp, VerdictSaturated, VerdictUnsaturated, AdapterGivesUp,
     WarmupDeadline, WarmupTimer, MeasuredCapPasses, MeasuredTimer, FinishMeasurement, windowVars,
     Stopped
<1> QED BY <1>1, <1>2 DEF Onward, poolVars, traceVars, mainVars, Pending, Failed, Covered

LEMMA MainStepCourse ==
  ASSUME Typed, Course, MainStep
  PROVE  Course'
<1>0. /\ first \in [Rows -> Nat \cup {None}] /\ fill \in [Rows -> Nat \cup {None}]
      /\ Pending \subseteq Drivers
  BY DEF Typed, TypeOK, TraceTypes, MainTypes, Pending
<1>1. CASE MainMoves
  <2>1. /\ Pending' = Pending /\ Failed' = Failed /\ (Covered' <=> Covered) /\ Filling' = Filling
        /\ UNCHANGED <<phase, rejected>> /\ main' # "run"
    BY <1>1 DEF MainMoves, Others, windowVars, traceVars, Pending, Failed, Covered, Filling
  <2>2. hit \subseteq hit'
    BY <1>1 DEF MainMoves
  <2>3. /\ main' \in {"drain", "cancel", "fill", "clear", "done"} => phase = "closed" /\ ~rejected
        /\ main' \in {"cancel", "fill", "clear", "done"} => Pending \subseteq hit'
        /\ main' \in {"clear", "done"} => Covered
        /\ main' = "done" => Failed = {}
    <3>1. CASE WindowEnds \/ Reject \/ DriverFailureSeen
      BY <3>1 DEF WindowEnds, Reject, DriverFailureSeen, CancelDrivers
    <3>2. CASE DrainEnds \/ FillEnds
      BY <3>2 DEF DrainEnds, FillEnds, CancelDrivers, Course
    <3>3. CASE DriversCancelled
      BY <3>3 DEF DriversCancelled, CancelDrivers, Course
    <3>4. CASE Aborted \/ \E r \in Rows : FillFails(r)
      BY <3>4 DEF Aborted, FillFails, CancelDrivers
    <3>5. CASE \E r \in Rows : FillStarts(r) \/ FillDone(r)
      BY <2>2, <3>5 DEF FillStarts, FillDone, Course
    <3> QED BY <3>1, <3>2, <3>3, <3>4, <3>5 DEF MainStep
  <2> QED BY <2>1, <2>2, <2>3 DEF Course
<1>2. ASSUME NEW r \in Rows, FillStarts(r) \/ FillDone(r)
      PROVE  Course'
  <2>1. /\ Pending' = Pending /\ Failed' = Failed /\ UNCHANGED <<phase, rejected, hit, main>>
    BY <1>2 DEF FillStarts, FillDone, Others, windowVars, Pending, Failed
  <2>2. main = "fill" \/ Filling # {}
    BY <1>2 DEF FillStarts, FillDone, Filling
  <2>3. phase = "closed" /\ Pending \subseteq hit
    BY <2>2 DEF Course
  <2>4. Covered => Covered'
    BY <1>0, <1>2 DEF FillStarts, FillDone, Covered
  <2> QED BY <2>1, <2>3, <2>4 DEF Course
<1>3. MainMoves \/ \E r \in Rows : FillStarts(r) \/ FillDone(r)
  BY DEF MainStep, MainMoves, WindowEnds, Reject, DriverFailureSeen, DrainEnds, DriversCancelled,
     FillEnds, Aborted, FillFails, CancelDrivers
<1> QED BY <1>1, <1>2, <1>3

LEMMA CourseStep == Typed /\ Course /\ [Next]_vars => Course'
<1>1. UNCHANGED vars => Onward
  BY DEF vars, poolVars, traceVars, windowVars, mainVars, Onward, Pending, Failed, Covered
<1> QED BY <1>1, CourseOnward, DriverStepOnward, GrowOnward, MonitorStepOnward, MainStepCourse
        DEF Next

-----------------------------------------------------------------------------
(***************************************************************************)
(* The proof.                                                              *)
(***************************************************************************)
\* What a window that opens stands on.
Opened ==
  /\ Covered'
  /\ Fresh(warmed', proof') /\ proof' >= support'
  /\ Active' = Tasks'

\* Nothing happens to the window, or it closes.
Untouched == proof' = proof /\ phase' \in {phase, IF phase = "open" THEN "closed" ELSE phase}

\* A warmup goes on, or the window opens on proof.
Warmed ==
  /\ phase = "warmup"
  /\ \/ phase' = phase /\ proof' = proof
     \/ phase' = "open" /\ Opened

\* No support becomes known before every row is answered.
Supported ==
  /\ gated' = gated
  /\ Covered => Covered'
  /\ support' = support \/ Covered'

LEMMA DriverStepProven ==
  ASSUME Typed, Proven, NEW d \in Drivers, DriverStep(d)
  PROVE  Supported /\ (Untouched \/ Warmed)
<1>0. Covered => Covered'
  BY DriverStepOnward DEF Onward
<1>1. CASE Activate(d) \/ Leave(d) \/ Admit(d) \/ RequestFails(d) \/ Unwind(d)
  BY <1>0, <1>1 DEF Activate, Leave, Admit, RequestFails, Unwind, Supported, Untouched, config,
     proofVars, windowVars, FinishMeasurement
<1>2. CASE CompleteInWindow(d) \/ CompleteAfterWindow(d)
  BY <1>0, <1>2 DEF CompleteInWindow, CompleteAfterWindow, Supported, Untouched, config,
     proofVars, windowVars, FinishMeasurement
<1>3. CASE CompleteInWarmup(d)
  <2>1. /\ driver[d] = "running" /\ phase = "warmup" /\ gated' = gated
        /\ driver' = [driver EXCEPT ![d] = "ready"]
        /\ support' = IF support = None /\ \A r \in Rows : first'[r] # None THEN warmed + 1
                                                                           ELSE support
        /\ warmed' = warmed + 1
    BY <1>3 DEF CompleteInWarmup, Recycle, config
  <2>2. PICK stable \in MayBeStable(warmed + 1, ProofStart(support')) : MaybeStart(stable, support')
    BY <1>3 DEF CompleteInWarmup
  <2>3. Supported
    BY <1>0, <2>1 DEF Supported, Covered
  <2>4. CASE ~Opens(stable)
    BY <2>1, <2>2, <2>3, <2>4 DEF MaybeStart, Warmed
  <2>5. CASE Opens(stable)
    <3>1. proof = None /\ ProofStart(support') = support'
      BY <2>1 DEF Proven, ProofStart
    <3>2. Fresh(warmed + 1, support') /\ Active = Tasks /\ phase' = "open" /\ proof' = support'
      BY <2>2, <2>5, <3>1 DEF Opens, MayBeStable, MaybeStart, StartMeasurement
    <3>3. support' \in Nat /\ Covered'
      BY <2>1, <2>3, <3>2 DEF Fresh, Proven, Supported, Typed, TypeOK, ProofTypes
    <3>4. Active' = Tasks'
      BY <2>1, <3>2 DEF Active, Tasks, Typed, TypeOK, PoolTypes
    <3> QED BY <2>1, <2>3, <3>2, <3>3, <3>4 DEF Warmed, Opened
  <2> QED BY <2>4, <2>5
<1> QED BY <1>1, <1>2, <1>3 DEF DriverStep, Complete

LEMMA MonitorStepProven ==
  ASSUME Typed, Proven, MonitorStep
  PROVE  Supported /\ (Untouched \/ Warmed)
<1>0. /\ (Covered' <=> Covered) /\ Active' = Active /\ Tasks' = Tasks
      /\ UNCHANGED <<gated, support, warmed>>
  BY DEF MonitorStep, AdapterSeesRamp, VerdictSaturated, VerdictUnsaturated, AdapterGivesUp,
     WarmupDeadline, WarmupTimer, MeasuredCapPasses, MeasuredTimer, config, poolVars, traceVars,
     proofVars, Covered, Active, Tasks
<1>1. Supported
  BY <1>0 DEF Supported
<1>2. CASE \/ VerdictUnsaturated \/ AdapterGivesUp \/ WarmupDeadline \/ MeasuredCapPasses
           \/ MeasuredTimer
  BY <1>1, <1>2 DEF VerdictUnsaturated, AdapterGivesUp, WarmupDeadline, MeasuredCapPasses,
     MeasuredTimer, FinishMeasurement, Untouched, windowVars, proofVars
<1>3. ASSUME phase = "warmup", NEW start, Fresh(warmed, start), start \in Nat, support \in Nat,
             start >= support, StartMeasurement(start), Active = Tasks
      PROVE  Warmed
  BY <1>0, <1>3, Parameters DEF Warmed, Opened, StartMeasurement, Proven
<1>4. CASE AdapterSeesRamp
  <2>1. CASE UNCHANGED <<phase, proof>>
    BY <1>1, <2>1 DEF Untouched
  <2>2. CASE ~UNCHANGED <<phase, proof>>
    <3>1. phase = "warmup" /\ Active = Tasks /\ Fresh(warmed, support) /\ StartMeasurement(support)
      BY <1>4, <2>2 DEF AdapterSeesRamp, MayBeStable
    <3>2. support \in Nat
      BY <3>1 DEF Fresh, Typed, TypeOK, ProofTypes
    <3> QED BY <1>1, <1>3, <3>1, <3>2
  <2> QED BY <2>1, <2>2
<1>5. CASE VerdictSaturated
  <2>1. PICK start \in support..warmed : Fresh(warmed, start) /\ StartMeasurement(start)
    BY <1>5 DEF VerdictSaturated
  <2>2. phase = "warmup" /\ Active = Tasks /\ support \in Nat
    BY <1>5 DEF VerdictSaturated, Typed, TypeOK, ProofTypes
  <2>3. start \in Nat /\ start >= support
    BY <2>1, <2>2
  <2> QED BY <1>1, <1>3, <2>1, <2>2, <2>3
<1>6. CASE WarmupTimer
  <2>1. CASE phase # "warmup"
    BY <1>1, <1>6, <2>1 DEF WarmupTimer, Untouched
  <2>2. CASE phase = "warmup"
    <3>1. PICK stable \in MayBeStable(warmed, ProofStart(support)) : MaybeStart(stable, support)
      BY <1>6, <2>2 DEF WarmupTimer
    <3>2. ProofStart(support) = support
      BY <2>2 DEF ProofStart, Proven
    <3>3. CASE ~Opens(stable)
      BY <1>1, <3>1, <3>3 DEF MaybeStart, Untouched
    <3>4. CASE Opens(stable)
      <4>1. Fresh(warmed, support) /\ StartMeasurement(support) /\ Active = Tasks
        BY <3>1, <3>2, <3>4 DEF MaybeStart, MayBeStable, Opens
      <4>2. support \in Nat
        BY <4>1 DEF Fresh, Typed, TypeOK, ProofTypes
      <4> QED BY <1>1, <1>3, <2>2, <4>1, <4>2
    <3> QED BY <3>3, <3>4
  <2> QED BY <2>1, <2>2
<1> QED BY <1>2, <1>4, <1>5, <1>6 DEF MonitorStep

LEMMA StepProven == Typed /\ Proven /\ [Next]_vars => Supported /\ (Untouched \/ Warmed)
<1>1. ASSUME NEW S \in SUBSET Drivers, Grow(S)
      PROVE  Supported /\ Untouched
  BY <1>1 DEF Grow, Supported, Untouched, Covered, config, traceVars, windowVars
<1>2. ASSUME Typed, MainStep
      PROVE  Supported /\ Untouched
  <2>1. UNCHANGED <<config, proofVars, windowVars>>
    BY <1>2 DEF MainStep, WindowEnds, Reject, DriverFailureSeen, DrainEnds, DriversCancelled,
       FillEnds, Aborted, FillStarts, FillDone, FillFails, Others
  <2>2. Covered => Covered'
    <3>1. \A r \in Rows : first[r] # None => first'[r] # None
      BY <1>2 DEF MainStep, WindowEnds, Reject, DriverFailureSeen, DrainEnds, DriversCancelled,
         FillEnds, Aborted, FillStarts, FillDone, FillFails, traceVars, Typed, TypeOK, TraceTypes
    <3> QED BY <3>1 DEF Covered
  <2> QED BY <2>1, <2>2 DEF Supported, Untouched, config, proofVars, windowVars
<1>3. UNCHANGED vars => Supported /\ Untouched
  BY DEF vars, Supported, Untouched, Covered, config, traceVars, proofVars, windowVars
<1> QED BY <1>1, <1>2, <1>3, DriverStepProven, MonitorStepProven DEF Next

LEMMA ProvenStep == Typed /\ Proven /\ [Next]_vars => Proven'
<1>1. Proven /\ Supported /\ Untouched => Proven'
  BY DEF Proven, Supported, Untouched
<1>2. Proven /\ Supported /\ Warmed => Proven'
  BY DEF Proven, Supported, Warmed, Opened, Fresh
<1> QED BY <1>1, <1>2, StepProven

-----------------------------------------------------------------------------
(***************************************************************************)
(* The account of request numbers: what a step may do to them.             *)
(***************************************************************************)
\* Nothing: whoever runs a request still runs it.
Quiet ==
  /\ Running' = Running /\ \A d \in Running : request'[d] = request[d]
  /\ UNCHANGED <<traceVars, nextSeq, fill>>

\* A driver is given the next number.
Begins(d) ==
  /\ d \notin Running /\ Running' = Running \cup {d}
  /\ request'[d].qid = nextSeq /\ \A e \in Running : request'[e] = request[e]
  /\ nextSeq' = nextSeq + 1 /\ recorded' = recorded \cup {nextSeq}
  /\ UNCHANGED <<first, reservoir, fill>>

\* A driver's request is over; no other driver's is.
Ends(d) ==
  /\ d \in Running /\ Running' = Running \ {d}
  /\ \A e \in Running' : request'[e] = request[e]
  /\ UNCHANGED <<nextSeq, fill>>

Drops(d) ==
  /\ Ends(d)
  /\ recorded' = recorded \ {request[d].qid}
  /\ UNCHANGED <<first, reservoir>>

\* It joins the reservoir, and what then leaves the reservoir is dropped, but for
\* the first answers.
Finishes(d, out) ==
  /\ Ends(d) /\ Filling = {}
  /\ \/ UNCHANGED first
     \/ \E r \in Rows : first[r] = None /\ first' = [first EXCEPT ![r] = request[d].qid]
  /\ reservoir' = (reservoir \cup {request[d].qid}) \ out
  /\ recorded' = recorded \ {q \in out : \A r \in Rows : first'[r] # q}

LEMMA CompletionFinishes ==
  ASSUME Typed, Course, OneOwner, NEW d \in Drivers, Complete(d)
  PROVE  \E out \in SUBSET (reservoir \cup {request[d].qid}) : Finishes(d, out)
<1>1. /\ driver[d] = "running" /\ d \notin hit /\ Recycle(d) /\ Register(d) /\ UNCHANGED mainVars
  BY DEF Complete, CompleteInWarmup, CompleteInWindow, CompleteAfterWindow
<1>2. d \in Pending /\ d \in Running
  BY <1>1 DEF Pending, Running
<1>3. Filling = {}
  BY <1>1, <1>2 DEF Course
<1>4. Ends(d)
  BY <1>1, <1>2 DEF Recycle, Ends, Running, mainVars, Typed, TypeOK, PoolTypes
<1>5. \/ UNCHANGED first
      \/ \E r \in Rows : first[r] = None /\ first' = [first EXCEPT ![r] = request[d].qid]
  BY <1>1, RegisterTyped DEF Register
<1>6. request[d].qid \notin reservoir
  BY <1>2 DEF OneOwner
<1>7. CASE CompleteInWarmup(d) \/ CompleteAfterWindow(d)
  <2>1. Discard({request[d].qid}) /\ UNCHANGED reservoir
    BY <1>7 DEF CompleteInWarmup, CompleteAfterWindow
  <2>2. Finishes(d, {request[d].qid})
    BY <1>3, <1>4, <1>5, <1>6, <2>1 DEF Finishes, Discard
  <2> QED BY <2>2
<1>8. CASE CompleteInWindow(d)
  <2>1. CASE reservoir' = reservoir \cup {request[d].qid} /\ UNCHANGED recorded
    <3>1. Finishes(d, {})
      BY <1>3, <1>4, <1>5, <2>1 DEF Finishes
    <3> QED BY <3>1
  <2>2. CASE \E out \in reservoir \cup {request[d].qid} :
                /\ reservoir' = (reservoir \cup {request[d].qid}) \ {out}
                /\ Discard({out})
    <3>1. PICK out \in reservoir \cup {request[d].qid} :
                /\ reservoir' = (reservoir \cup {request[d].qid}) \ {out}
                /\ Discard({out})
      BY <2>2
    <3>2. Finishes(d, {out})
      BY <1>3, <1>4, <1>5, <3>1 DEF Finishes, Discard
    <3> QED BY <3>2
  <2> QED BY <1>8, <2>1, <2>2 DEF CompleteInWindow
<1> QED BY <1>7, <1>8 DEF Complete

LEMMA StepKinds ==
  ASSUME Typed, Course, OneOwner, [Next]_vars
  PROVE  \/ Quiet
         \/ \E d \in Drivers : Begins(d) \/ Drops(d)
         \/ \E d \in Drivers : \E out \in SUBSET (reservoir \cup {request[d].qid}) : Finishes(d, out)
         \/ \E r \in Rows : FillStarts(r) \/ FillDone(r)
<1>0. driver \in [Drivers -> DriverStates] /\ request \in [Drivers -> Requests \cup {None}]
  BY DEF Typed, TypeOK, PoolTypes
<1>1. ASSUME NEW d \in Drivers, DriverStep(d), ~Complete(d)
      PROVE  Quiet \/ Begins(d) \/ Drops(d)
  <2>1. CASE Activate(d)
    BY <1>0, <2>1 DEF Activate, Quiet, Running, mainVars
  <2>2. CASE Leave(d)
    BY <1>0, <2>2 DEF Leave, Quiet, Running, mainVars
  <2>3. CASE Admit(d)
    BY <1>0, <2>3 DEF Admit, Begins, Running, mainVars
  <2>4. CASE RequestFails(d)
    BY <1>0, <2>4 DEF RequestFails, Drops, Ends, Running, mainVars
  <2>5. CASE Unwind(d) /\ driver[d] = "running"
    BY <1>0, <2>5 DEF Unwind, Drops, Ends, Running, mainVars
  <2>6. CASE Unwind(d) /\ driver[d] # "running"
    BY <1>0, <2>6 DEF Unwind, Quiet, Running, mainVars, traceVars
  <2> QED BY <1>1, <2>1, <2>2, <2>3, <2>4, <2>5, <2>6 DEF DriverStep
<1>2. ASSUME NEW S \in SUBSET Drivers, Grow(S)
      PROVE  Quiet
  BY <1>0, <1>2 DEF Grow, Quiet, Running, mainVars
<1>3. ASSUME MonitorStep
      PROVE  Quiet
  BY <1>3 DEF MonitorStep, AdapterSeesRamp, VerdictSaturated, VerdictUnsaturated, AdapterGivesUp,
     WarmupDeadline, WarmupTimer, MeasuredCapPasses, MeasuredTimer, poolVars, mainVars, Quiet,
     Running
<1>4. ASSUME MainStep
      PROVE  Quiet \/ \E r \in Rows : FillStarts(r) \/ FillDone(r)
  <2>1. MainMoves \/ \E r \in Rows : FillStarts(r) \/ FillDone(r)
    BY <1>4 DEF MainStep, MainMoves, WindowEnds, Reject, DriverFailureSeen, DrainEnds,
       DriversCancelled, FillEnds, Aborted, FillFails, CancelDrivers
  <2> QED BY <2>1 DEF MainMoves, Others, Quiet, Running
<1>5. UNCHANGED vars => Quiet
  BY DEF vars, poolVars, mainVars, Quiet, Running
<1> QED BY <1>1, <1>2, <1>3, <1>4, <1>5, CompletionFinishes DEF Next

-----------------------------------------------------------------------------
(***************************************************************************)
(* Custody, kind by kind.                                                  *)
(***************************************************************************)
AbortIsFinal == main \in {"abort", "aborted"} => main' \in {"abort", "aborted"}

LEMMA QuietCustody ==
  ASSUME Custody, Quiet, AbortIsFinal
  PROVE  Custody'
<1>1. \A q : Used(q)' <=> Used(q)
  BY DEF Quiet, Used, traceVars
<1> QED BY <1>1 DEF Custody, OneOwner, Recorded, Quiet, traceVars, AbortIsFinal

LEMMA BeginsCustody ==
  ASSUME Typed, Custody, NEW d \in Drivers, Begins(d), AbortIsFinal
  PROVE  Custody'
<1>0. nextSeq \in Nat /\ recorded \subseteq Nat
  BY DEF Typed, TypeOK, PoolTypes, TraceTypes
<1>1. ~Used(nextSeq)
  BY <1>0 DEF Custody, Recorded
<1>2. \A q : Used(q)' <=> Used(q) \/ q = nextSeq
  BY DEF Begins, Used
<1>3. OneOwner'
  BY <1>1, Parameters DEF Custody, OneOwner, Begins, Used
<1>4. Recorded'
  <2>1. recorded' = recorded \cup {nextSeq} /\ nextSeq' = nextSeq + 1
    BY DEF Begins
  <2>2. \A q \in recorded' : q < nextSeq'
    BY <1>0, <2>1 DEF Custody, Recorded
  <2> QED BY <1>0, <1>2, <2>1, <2>2 DEF Custody, Recorded, AbortIsFinal
<1> QED BY <1>3, <1>4 DEF Custody

LEMMA DropsCustody ==
  ASSUME Typed, Custody, NEW d \in Drivers, Drops(d), AbortIsFinal
  PROVE  Custody'
<1>1. \A q : Used(q)' <=> Used(q) /\ q # request[d].qid
  BY DEF Drops, Ends, Used, Custody, OneOwner
<1>2. OneOwner'
  BY DEF Custody, OneOwner, Drops, Ends
<1>3. Recorded'
  BY <1>1 DEF Custody, Recorded, Drops, Ends, AbortIsFinal, Typed, TypeOK, TraceTypes
<1> QED BY <1>2, <1>3 DEF Custody

LEMMA FinishesCustody ==
  ASSUME Typed, Custody, NEW d \in Drivers, NEW out \in SUBSET (reservoir \cup {request[d].qid}),
         Finishes(d, out), AbortIsFinal
  PROVE  Custody'
<1> DEFINE mine == request[d].qid
<1>0. /\ mine \in Nat /\ first \in [Rows -> Nat \cup {None}] /\ reservoir \subseteq Nat
      /\ d \in Running /\ Running' = Running \ {d} /\ \A r \in Rows : fill[r] = None
  BY DEF Typed, TypeOK, RunningTypes, Requests, TraceTypes, Finishes, Ends, Filling
<1>1. \A r \in Rows : first'[r] \in {first[r], mine} /\ (first[r] # None => first'[r] = first[r])
  BY <1>0 DEF Finishes
<1>2. \A r, s \in Rows : first'[r] # None /\ first'[r] = first'[s] => r = s
  BY <1>0, Parameters DEF Finishes, Custody, OneOwner
<1>3. OneOwner'
  BY <1>0, <1>1, <1>2 DEF Custody, OneOwner, Finishes, Ends
<1>4. \A q \in Nat : Used(q)' => Used(q)
  BY <1>0, <1>1 DEF Used, Finishes, Ends
<1>5. \A q \in Nat : Used(q)' => q \notin out \/ \E r \in Rows : first'[r] = q
  <2>1. \A e \in Running' : /\ request'[e].qid \notin reservoir
                            /\ request'[e].qid # mine
    BY <1>0 DEF Finishes, Ends, Custody, OneOwner
  <2>2. \A r \in Rows : fill'[r] \notin Nat
    BY <1>0, Parameters DEF Finishes, Ends
  <2>3. reservoir' = (reservoir \cup {mine}) \ out
    BY DEF Finishes
  <2> QED BY <2>1, <2>2, <2>3 DEF Used
<1>6. \A q \in Nat : Used(q) => Used(q)' \/ (q \in out /\ \A r \in Rows : first'[r] # q)
  BY <1>0, <1>1 DEF Used, Finishes, Ends
<1>7. recorded' = recorded \ {q \in out : \A r \in Rows : first'[r] # q} /\ nextSeq' = nextSeq
  BY DEF Finishes, Ends
<1>8. Recorded'
  BY <1>4, <1>5, <1>6, <1>7 DEF Custody, Recorded, AbortIsFinal, Typed, TypeOK, TraceTypes
<1> QED BY <1>3, <1>8 DEF Custody

LEMMA FillCustody ==
  ASSUME Typed, Custody, NEW r \in Rows, FillStarts(r) \/ FillDone(r)
  PROVE  Custody'
<1>0. /\ nextSeq \in Nat /\ recorded \subseteq Nat /\ first \in [Rows -> Nat \cup {None}]
      /\ fill \in [Rows -> Nat \cup {None}]
  BY DEF Typed, TypeOK, PoolTypes, TraceTypes, MainTypes
<1>1. UNCHANGED <<Running, request, reservoir, main>>
  BY DEF FillStarts, FillDone, Others, Running
<1>2. CASE FillStarts(r)
  <2>1. ~Used(nextSeq)
    BY <1>0 DEF Custody, Recorded
  <2>2. /\ fill' = [fill EXCEPT ![r] = nextSeq] /\ nextSeq' = nextSeq + 1 /\ first[r] = None
        /\ recorded' = recorded \cup {nextSeq} /\ first' = first /\ fill[r] = None
    BY <1>2 DEF FillStarts
  <2>3. \A q \in Nat : Used(q)' <=> Used(q) \/ q = nextSeq
    BY <1>0, <1>1, <2>2, Parameters DEF Used
  <2>4. OneOwner'
    BY <1>0, <1>1, <2>1, <2>2, Parameters DEF Custody, OneOwner, Used
  <2>5. Recorded'
    BY <1>0, <1>1, <2>2, <2>3 DEF Custody, Recorded
  <2> QED BY <2>4, <2>5 DEF Custody
<1>3. CASE FillDone(r)
  <2>1. /\ fill' = [fill EXCEPT ![r] = None] /\ first' = [first EXCEPT ![r] = fill[r]]
        /\ fill[r] # None /\ UNCHANGED <<recorded, nextSeq>>
    BY <1>3 DEF FillDone
  <2>2. first[r] = None
    BY <2>1 DEF Custody, OneOwner
  <2>3. \A q \in Nat : Used(q)' <=> Used(q)
    BY <1>0, <1>1, <2>1, <2>2, Parameters DEF Used
  <2>4. OneOwner'
    BY <1>0, <1>1, <2>1, <2>2, Parameters DEF Custody, OneOwner
  <2>5. Recorded'
    BY <1>0, <1>1, <2>1, <2>3 DEF Custody, Recorded
  <2> QED BY <2>4, <2>5 DEF Custody
<1> QED BY <1>2, <1>3

LEMMA CustodyStep == Typed /\ Course /\ Custody /\ [Next]_vars => Custody'
<1>1. [Next]_vars => AbortIsFinal
  <2>1. MainStep => AbortIsFinal
    BY DEF AbortIsFinal, MainStep, WindowEnds, Reject, DriverFailureSeen, DrainEnds, DriversCancelled, FillEnds,
       Aborted, FillStarts, FillDone, FillFails, CancelDrivers
  <2>2. MonitorStep \/ UNCHANGED vars => main' = main
    BY MonitorStepOnward DEF Onward, vars, mainVars
  <2>3. ASSUME NEW d \in Drivers, DriverStep(d)
        PROVE  main' = main
    BY <2>3 DEF DriverStep, Activate, Leave, Admit, Complete, CompleteInWarmup, CompleteInWindow,
       CompleteAfterWindow, RequestFails, Unwind, mainVars
  <2>4. ASSUME NEW S \in SUBSET Drivers, Grow(S)
        PROVE  main' = main
    BY <2>4, GrowOnward DEF Onward
  <2> QED BY <2>1, <2>2, <2>3, <2>4 DEF Next, AbortIsFinal
<1> QED BY <1>1, StepKinds, QuietCustody, BeginsCustody, DropsCustody, FinishesCustody, FillCustody
        DEF Custody

-----------------------------------------------------------------------------
(***************************************************************************)
(* The sample.                                                             *)
(***************************************************************************)
LEMMA SampleGrows ==
  ASSUME Typed, OneOwner, Sampled, NEW d \in Drivers, CompleteInWindow(d)
  PROVE  Sampled'
<1> DEFINE mine == request[d].qid
           with == reservoir \cup {mine}
<1>0. /\ mine \notin reservoir /\ cohort \in Nat /\ cohort' = cohort + 1
      /\ SampleCap \in Nat /\ SampleCap > 0
  BY Parameters DEF CompleteInWindow, OneOwner, Running, Typed, TypeOK, WindowTypes
<1>1. IsFiniteSet(with) /\ Cardinality(with) = Cardinality(reservoir) + 1
  BY <1>0, FS_AddElement DEF Sampled
<1>2. CASE Cardinality(reservoir) < SampleCap
  <2>1. reservoir' = with
    BY <1>2 DEF CompleteInWindow
  <2> QED BY <1>0, <1>1, <1>2, <2>1 DEF Sampled
<1>3. CASE ~(Cardinality(reservoir) < SampleCap)
  <2>1. PICK out \in with : reservoir' = with \ {out}
    BY <1>3 DEF CompleteInWindow
  <2>2. IsFiniteSet(reservoir') /\ Cardinality(reservoir') = Cardinality(with) - 1
    BY <1>1, <2>1, FS_RemoveElement
  <2>3. Cardinality(reservoir) = SampleCap /\ ~(cohort < SampleCap)
    BY <1>0, <1>3 DEF Sampled
  <2> QED BY <1>0, <1>1, <2>2, <2>3 DEF Sampled
<1> QED BY <1>2, <1>3

LEMMA SampledStep == Typed /\ OneOwner /\ Sampled /\ [Next]_vars => Sampled'
<1>1. ASSUME NEW d \in Drivers, DriverStep(d), ~CompleteInWindow(d)
      PROVE  UNCHANGED <<reservoir, cohort>>
  BY <1>1 DEF DriverStep, Activate, Leave, Admit, Complete, CompleteInWarmup, CompleteAfterWindow,
     RequestFails, Unwind, traceVars, windowVars
<1>2. ASSUME \/ \E S \in SUBSET Drivers : Grow(S)
             \/ MonitorStep \/ MainStep \/ UNCHANGED vars
      PROVE  UNCHANGED <<reservoir, cohort>>
  <2>1. ASSUME NEW S \in SUBSET Drivers, Grow(S)
        PROVE  UNCHANGED <<reservoir, cohort>>
    BY <2>1 DEF Grow, traceVars, windowVars
  <2>2. MonitorStep => UNCHANGED <<reservoir, cohort>>
    BY DEF MonitorStep, AdapterSeesRamp, VerdictSaturated, VerdictUnsaturated, AdapterGivesUp,
       WarmupDeadline, WarmupTimer, MeasuredCapPasses, MeasuredTimer, traceVars, windowVars
  <2>3. MainStep => UNCHANGED <<reservoir, cohort>>
    BY DEF MainStep, WindowEnds, Reject, DriverFailureSeen, DrainEnds, DriversCancelled, FillEnds,
       Aborted, FillStarts, FillDone, FillFails, Others, traceVars, windowVars
  <2>4. UNCHANGED vars => UNCHANGED <<reservoir, cohort>>
    BY DEF vars, traceVars, windowVars
  <2> QED BY <1>2, <2>1, <2>2, <2>3, <2>4
<1>3. UNCHANGED <<reservoir, cohort>> /\ Sampled => Sampled'
  BY DEF Sampled
<1> QED BY <1>1, <1>2, <1>3, SampleGrows DEF Next, DriverStep, Complete

-----------------------------------------------------------------------------
(***************************************************************************)
(* The theorems.                                                           *)
(***************************************************************************)
LoopInv == Typed /\ Course /\ Proven /\ Custody /\ Sampled

LEMMA LoopInvInit == Init => LoopInv
<1> SUFFICES ASSUME Init
             PROVE  LoopInv
  OBVIOUS
<1>1. Typed
  BY InitTyped
<1>2. Course /\ Proven
  BY DEF Init, Course, Proven, Filling
<1>3. Running = {} /\ \A q \in Nat : ~Used(q)
  BY Parameters DEF Init, Running, Used
<1>4. Custody
  BY <1>3 DEF Init, Custody, OneOwner, Recorded
<1>5. Sampled
  BY Parameters, FS_EmptySet DEF Init, Sampled
<1> QED BY <1>1, <1>2, <1>4, <1>5 DEF LoopInv

LEMMA LoopInvStep == LoopInv /\ [Next]_vars => LoopInv'
  BY TypedStep, CourseStep, ProvenStep, CustodyStep, SampledStep DEF LoopInv, Custody

THEOREM LoopInvariant == Spec => []LoopInv
<1>1. Init => LoopInv
  BY LoopInvInit
<1>2. LoopInv /\ [Next]_vars => LoopInv'
  BY LoopInvStep
<1> QED BY <1>1, <1>2, PTL DEF Spec

\* For any population, dataset and sample size: the traces the result needs are in the
\* recorder, and until an abort only those in flight are there besides.
THEOREM CustodyTheorem == Spec => []TraceCustody
<1>1. LoopInv => TraceCustody
  <2> SUFFICES ASSUME LoopInv
               PROVE  TraceCustody
    OBVIOUS
  <2>1. /\ first \in [Rows -> Nat \cup {None}] /\ fill \in [Rows -> Nat \cup {None}]
        /\ reservoir \subseteq Nat /\ recorded \subseteq Nat
    BY DEF LoopInv, Typed, TypeOK, TraceTypes, MainTypes
  <2>2. Winners \cup reservoir \subseteq recorded
    BY <2>1 DEF LoopInv, Custody, Recorded, Used, Winners
  <2>3. ASSUME main \notin {"abort", "aborted"}, NEW q \in recorded
        PROVE  q \in Winners \cup reservoir \cup InFlight
    <3>1. q \in Nat /\ q # None
      BY <2>1, Parameters
    <3>2. Used(q)
      BY <2>3 DEF LoopInv, Custody, Recorded
    <3> QED BY <3>1, <3>2 DEF Used, Winners, InFlight
  <2> QED BY <2>2, <2>3 DEF TraceCustody
<1> QED BY <1>1, LoopInvariant, PTL

\* A result is one of a proven window that closed, whole, and with a full sample.
THEOREM ResultTheorem == Spec => []ResultIsSound
<1>1. LoopInv => ResultIsSound
  BY DEF LoopInv, Course, Proven, Custody, OneOwner, Sampled, Covered, ResultIsSound
<1> QED BY <1>1, LoopInvariant, PTL

\* The window opens only on a fresh proof, with every driver active.
THEOREM OpeningTheorem == Spec => WindowOpensOnProof
<1>1. ASSUME LoopInv, [Next]_vars
      PROVE  [phase = "warmup" /\ phase' = "open" =>
                /\ Covered'
                /\ Fresh(warmed', proof') /\ proof' >= support'
                /\ Active' = Tasks']_vars
  <2>1. Untouched \/ Warmed
    BY <1>1, StepProven DEF LoopInv
  <2> QED BY <2>1 DEF Untouched, Warmed, Opened
<1> QED BY <1>1, LoopInvariant, PTL DEF Spec, WindowOpensOnProof

\* The measured population neither grows nor shrinks while the window is open.
THEOREM PopulationTheorem == Spec => ClosedPopulation
<1>1. ASSUME LoopInv, [Next]_vars
      PROVE  [phase = "open" /\ main = "run" /\ ~rejected =>
                /\ Tasks' = Tasks
                /\ phase' = "open" => Active \subseteq Active' \cup Failed']_vars
  <2> SUFFICES ASSUME phase = "open", main = "run", ~rejected
               PROVE  Tasks' = Tasks /\ (phase' = "open" => Active \subseteq Active' \cup Failed')
    OBVIOUS
  <2>0. driver \in [Drivers -> DriverStates] /\ hit = {}
    BY <1>1 DEF LoopInv, Typed, TypeOK, PoolTypes, Course
  <2>1. ASSUME NEW d \in Drivers, DriverStep(d)
        PROVE  Tasks' = Tasks /\ (phase' = "open" => Active \subseteq Active' \cup Failed')
    <3>1. \E s \in {"ready", "running", "returned", "failed"} :
            /\ driver' = [driver EXCEPT ![d] = s] /\ driver[d] # "absent"
            /\ s = "returned" => phase' = "closed"
      BY <2>0, <2>1 DEF DriverStep, Activate, Leave, Admit, Complete, CompleteInWarmup,
         CompleteInWindow, CompleteAfterWindow, RequestFails, Unwind, Recycle, FinishMeasurement,
         Stopped
    <3> QED BY <2>0, <3>1 DEF Tasks, Active, Failed
  <2>2. ASSUME MonitorStep \/ MainStep \/ UNCHANGED vars
        PROVE  UNCHANGED driver
    <3>1. MonitorStep => UNCHANGED driver
      BY DEF MonitorStep, AdapterSeesRamp, VerdictSaturated, VerdictUnsaturated, AdapterGivesUp,
         WarmupDeadline, WarmupTimer, MeasuredCapPasses, MeasuredTimer, poolVars
    <3>2. MainStep => UNCHANGED driver
      BY DEF MainStep, WindowEnds, Reject, DriverFailureSeen, DrainEnds, DriversCancelled,
         FillEnds, Aborted, FillStarts, FillDone, FillFails, Others
    <3>3. UNCHANGED vars => UNCHANGED driver
      BY DEF vars, poolVars
    <3> QED BY <2>2, <3>1, <3>2, <3>3
  <2>3. ASSUME NEW S \in SUBSET Drivers
        PROVE  ~Grow(S)
    BY DEF Grow
  <2> QED BY <1>1, <2>1, <2>2, <2>3 DEF Next, Tasks, Active
<1> QED BY <1>1, LoopInvariant, PTL DEF Spec, ClosedPopulation

=============================================================================
