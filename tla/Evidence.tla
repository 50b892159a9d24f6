-------------------------------- MODULE Evidence -------------------------------
(***************************************************************************)
(* What makes the rate of a measured window evidence (serving_runtime.py):  *)
(* the stability proof of warmup, the span the wall budget affords, the     *)
(* stationarity of the window and the verdict on the whole summary, with    *)
(* the balanced order rows are admitted in and the sample of completions    *)
(* that is kept for tracing.                                                *)
(*                                                                          *)
(* The window is a stream of waves: gaps[i] is the time from wave i-1 (the  *)
(* window's start for the first) to wave i, a wave is one completion span.  *)
(* A stream changes its regime at most once. Fractions are compared by      *)
(* cross multiplication: 0.15 is 3/20, 0.10 is 1/10.                        *)
(***************************************************************************)
EXTENDS Integers, Sequences, FiniteSets, FiniteSetsExt, SequencesExt

CONSTANTS Gaps,      \* possible gaps, in seconds
          MaxWaves,  \* bound
          MaxTail    \* bound: seconds after the last wave

ASSUME EvidenceAssumption ==
  Gaps \subseteq Nat \ {0} /\ Gaps # {} /\ {MaxWaves, MaxTail} \subseteq Nat

VARIABLES gaps, tail
evidenceVars == <<gaps, tail>>

EvidenceInit == gaps = <<>> /\ tail = 0

Wave ==
  /\ Len(gaps) < MaxWaves
  /\ \E g \in Gaps : /\ gaps # <<>> => g >= gaps[Len(gaps)] /\ tail <= g
                     /\ gaps' = Append(gaps, g) /\ tail' = 0
Quiet == tail < MaxTail /\ tail' = tail + 1 /\ UNCHANGED gaps

EvidenceNext == Wave \/ Quiet

(***************************************************************************)
(* Times and bins.                                                          *)
(***************************************************************************)
SumOf(s) == FoldSeq(LAMBDA x, y : x + y, 0, s)
Done == LET d[i \in 0 .. Len(gaps)] == IF i = 0 THEN 0 ELSE d[i - 1] + gaps[i] IN d
End == Done[Len(gaps)] + tail
Gap(a, b) == IF a >= b THEN a - b ELSE b - a
Least(a, b) == IF a <= b THEN a ELSE b

\* A coefficient of variation of at most 3/20: n * sum of squares - square of the
\* sum, over the square of the sum, is at most 9/400.
Even(xs) ==
  LET s == SumOf(xs) q == SumOf([i \in DOMAIN xs |-> xs[i] * xs[i]]) IN
  s > 0 /\ 400 * (Len(xs) * q - s * s) <= 9 * s * s

\* _qps_subwindow_cv: five bins of wall time, the last takes what is behind it.
Bin(t) == Least((t * 5) \div End, 4)
Bins == [b \in 1 .. 5 |-> Cardinality({i \in DOMAIN gaps : Bin(Done[i]) = b - 1})]

\* _wall_subwindow_workload_diagnostics, of tokens of the waves: what the bins
\* hold is what the waves brought.
BinTokens(tokens) ==
  [b \in 1 .. 5 |->
     FoldSet(LAMBDA i, n : n + tokens[i], 0, {i \in DOMAIN gaps : Bin(Done[i]) = b - 1})]

(***************************************************************************)
(* Proofs of a steady rate.                                                 *)
(***************************************************************************)
\* _completion_rate_stable: two disjoint groups of w completions, w - 1 intervals
\* each, within a tenth of their mean.
SpansSteadyShared(w, from) ==
  LET n == Len(gaps) recent == Done[n] - Done[n - w + 1]
      before == Done[n - w + 1] - Done[n - 2 * w + 1] IN
  n - from >= 2 * w /\ 20 * Gap(recent, before) <= recent + before
SpansSteady(w, from) ==
  LET n == Len(gaps) recent == Done[n] - Done[n - w + 1]
      before == Done[n - w] - Done[n - 2 * w + 1] IN
  /\ n - from >= 2 * w
  /\ \/ recent = 0 /\ before = 0
     \/ recent > 0 /\ before > 0 /\ 20 * Gap(recent, before) <= recent + before

\* _wall_budget_stability_span: the candidate completed "done" queries; at its
\* rate the measured budget holds "expected". 10 is 1/0.10, 17 is 5 * 3 / 0.90
\* rounded up. 0: it cannot be afforded.
MinimumSpan == 10
MeasurementSpan(expected) ==
  IF expected \div 17 >= MinimumSpan THEN Least(expected \div 4, expected \div 17)
                                     ELSE expected \div 4
EffectiveSpan(preferred, done, expected) ==
  LET budget == Least(done \div 2, MeasurementSpan(expected)) IN
  IF budget >= MinimumSpan THEN Least(preferred, budget) ELSE 0

\* The first wave is phase-partial: only the gaps between waves are durations.
Durations == IF gaps = <<>> THEN <<>> ELSE Tail(gaps)
Rates == LET scale == ProductSet(Gaps) IN [i \in DOMAIN Durations |-> scale \div Durations[i]]

\* Every tail of at least three spans against what is before it, at most half.
TailAgrees(rates) ==
  \A k \in 3 .. (Len(rates) \div 2) :
    LET m == Len(rates)
        before == SumOf(SubSeq(rates, 1, m - k)) * k
        after == SumOf(SubSeq(rates, m - k + 1, m)) * (m - k) IN
    20 * Gap(before, after) <= 3 * (before + after)

Dense == \A b \in 1 .. 5 : Bins[b] >= 3
SpansUsable == Len(gaps) >= 4
TerminalStall == \E longest \in {Durations[i] : i \in DOMAIN Durations} :
                   tail > longest /\ \A i \in DOMAIN Durations : Durations[i] <= longest

\* _qps_stationarity_evidence
Method == IF SpansUsable /\ ~TerminalStall /\ ~Dense THEN "spans" ELSE "wall"
Stationary ==
  IF Method = "spans" THEN Even(Rates) /\ TailAgrees(Rates)
  ELSE gaps # <<>> /\ End > 0 /\ Even(Bins)

(***************************************************************************)
(* The summary and its verdict. An optional number is <<>> or <<number>>;   *)
(* <<>> also stands for NaN and for what is no number.                      *)
(***************************************************************************)

\* throughput_rates: the window's rate counts every completion, the delta drops
\* the first; both as <<queries, seconds>>.
PhaseRate == IF End > 0 THEN <<Len(gaps), End>> ELSE <<0, 1>>
DeltaRate == IF Len(gaps) >= 2 THEN <<Len(gaps) - 1, SumOf(Durations)>> ELSE <<0, 1>>

Summary(gate, saturation, errors) ==
  [gate |-> gate, saturated |-> saturation.saturated, errors |-> errors,
   waves |-> IF saturation.span > 0 THEN <<Len(gaps) >= 2 * saturation.span>> ELSE <<FALSE>>,
   cv |-> IF gaps = <<>> \/ End = 0 THEN <<>> ELSE <<Stationary>>]

\* build_measured_gt_admissibility
Admissible(s) ==
  /\ s.gate = "rate stable" /\ s.saturated = <<TRUE>> /\ s.errors = <<0>>
  /\ s.waves = <<TRUE>> /\ s.cv = <<TRUE>>

(***************************************************************************)
(* Which rows are admitted, which completions are sampled.                  *)
(***************************************************************************)
\* idx_for_seq: order[e] is the permutation of epoch e.
RowOf(order, n, seq) == order[seq \div n][(seq % n) + 1]

\* Each completed invocation has a priority of its own, here itself.
Offer(kept, capacity, q) ==
  IF Cardinality(kept) < capacity THEN kept \cup {q}
  ELSE LET worst == Max(kept) IN IF q >= worst THEN kept ELSE (kept \ {worst}) \cup {q}

(***************************************************************************)
(* Property.                                                                *)
(***************************************************************************)

Slowdown == {i \in DOMAIN Durations : Durations[i] > Durations[1]}

\* A steady stream proves itself: constant waves are rate-stable for every span
\* that fits twice, and stationary by spans from the fourth on. The bins of a dense
\* stream may still cut a wave to either side: 20 waves can fall 3, 4, 4, 4, 5 and
\* be refused; from 25 on they pass.
SteadyStreamsPass ==
  (\A i \in DOMAIN gaps : gaps[i] = gaps[1]) =>
    /\ \A w \in 2 .. (Len(gaps) \div 2) : SpansSteady(w, 0)
    /\ SpansUsable /\ tail < gaps[1] /\ (Method = "spans" \/ Len(gaps) >= 25) => Stationary

\* A stream that has slowed down by a third or more over its last three to half of
\* its spans is refused by the span proof, however long it was steady before; one
\* that has stopped is not judged by it.
LateSlowdownsFail ==
  /\ Method = "spans" /\ Cardinality(Slowdown) \in 3 .. (Len(Durations) \div 2) =>
       \A saturation \in {[saturated |-> <<TRUE>>, span |-> 1]} :
         ~Admissible(Summary("rate stable", saturation, <<0>>))
  /\ TerminalStall => Method = "wall"

\* No completion of the window is lost or counted twice by the bins, and the
\* delta rate leaves out exactly one.
BinsPartition ==
  /\ End > 0 => SumOf(Bins) = Len(gaps)
                /\ SumOf(BinTokens([i \in DOMAIN gaps |-> gaps[i]])) = Done[Len(gaps)]
  /\ Len(gaps) >= 2 => PhaseRate[1] = DeltaRate[1] + 1 /\ PhaseRate[2] >= DeltaRate[2]

\* A span the wall budget grants fits twice into what the candidate completed and,
\* at its rate, four times into the measured window; when the window affords the
\* dense proof, three times into each fifth of it even a tenth below that rate.
GrantedSpansCanBeProved ==
  \A preferred \in {32, 41, 256}, done \in 0 .. 44,
     expected \in {9, 39, 40, 43, 169, 170, 187, 700} :
    LET w == EffectiveSpan(preferred, done, expected) IN
    w # 0 => /\ w >= MinimumSpan /\ w <= preferred /\ 2 * w <= done /\ 4 * w <= expected
             /\ expected >= 17 * MinimumSpan => 9 * expected >= 150 * w

\* However completions are ordered, the sample is the best of them; however the
\* epochs are permuted, no row is ever admitted twice more than another.
OrdersDoNotMatter ==
  /\ \A p \in Permutations(1 .. 4), k \in 1 .. 3, n \in 1 .. 4 :
       LET seen == {p[i] : i \in 1 .. n}
           kept == FoldLeft(LAMBDA s, q : Offer(s, k, q), {}, [i \in 1 .. n |-> p[i]]) IN
       /\ Cardinality(kept) = Least(k, n) /\ kept \subseteq seen
       /\ \A q \in kept, r \in seen \ kept : q < r
  /\ \A p, q \in Permutations(1 .. 3), m \in 0 .. 6 :
       LET order == [e \in {0, 1} |-> IF e = 0 THEN p ELSE q]
           Times(r) == Cardinality({s \in 0 .. m - 1 : RowOf(order, 3, s) = r}) IN
       \A r, t \in 1 .. 3 : Times(r) <= Times(t) + 1

EvidenceIsSound ==
  /\ SteadyStreamsPass /\ LateSlowdownsFail /\ BinsPartition
  /\ Len(gaps) = 1 /\ tail = 0 => GrantedSpansCanBeProved /\ OrdersDoNotMatter

=============================================================================
