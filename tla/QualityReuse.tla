----------------------------- MODULE QualityReuse -----------------------------
(***************************************************************************)
(* Reuse of answers and scores between evaluations with the same generation *)
(* inputs: the fingerprint store (gen_fingerprint.py), the generator node   *)
(* that looks it up (nodes/generator/run.py), and the scoring at the end of *)
(* the pipeline, which learns from marker files in the run directory whether *)
(* the answers were inherited (static_rag_evaluator.py).                    *)
(*                                                                          *)
(* One process evaluates one configuration after the other. An evaluation   *)
(* has a fingerprint f and the metrics it was asked for; an answer set is    *)
(* the number of the generation that sampled it, and a score names the       *)
(* answers it was computed from and its metrics.                             *)
(***************************************************************************)
EXTENDS Naturals

CONSTANTS Fingerprints,
          Metrics,        \* sets of metrics an evaluation may ask for
          MaxSamples,     \* bound: generations
          Nothing         \* no record, no marker, no score

VARIABLES record,    \* fingerprints/gen/<fp>.json: answers, quality, contract
          hit, pending,   \* fp_hit.json and fp_pending.json per run directory
          step,      \* of the evaluation: idle, generate, save, score, scored
          input,     \* its fingerprint, metrics and run directory
          answers,   \* its answers
          score,     \* what it returns
          samples,   \* generations so far
          lent,      \* history: it began with a hit marker in its directory
          soiled     \* history: what the pending markers found so far named

reuseVars == <<record, hit, pending, step, input, answers, score, samples, lent, soiled>>

\* _static_run, and a directory the caller gives to one evaluation or to many.
Dirs == {"static", "given"}

Scored(a, w) == [of |-> a, metrics |-> w]

\* A store left by earlier runs: nothing, or a complete record of an older
\* quality contract, whose answers are the generation 0.
ReuseInit ==
  /\ record \in [Fingerprints ->
       {Nothing, [answers |-> 0, quality |-> Scored(0, {}), contract |-> "old"]}]
  /\ hit = [d \in Dirs |-> Nothing] /\ pending = [d \in Dirs |-> Nothing]
  /\ step = "idle" /\ input \in [fp : Fingerprints, metrics : Metrics, dir : {"static"}]
  /\ answers = 0 /\ score = Nothing /\ samples = 0 /\ lent = FALSE /\ soiled = {}

\* load_complete_record
Complete(r) == r # Nothing /\ r.quality # Nothing /\ r.contract = "now"

\* save_answers: a complete donor is kept, an incomplete record replaced.
SavedKeepsAny(r, a) ==
  IF r # Nothing THEN r ELSE [answers |-> a, quality |-> Nothing, contract |-> "now"]
Saved(r, a) ==
  IF Complete(r) THEN r ELSE [answers |-> a, quality |-> Nothing, contract |-> "now"]

\* attach_quality: the first complete donor wins.
Attached(r, q) == IF r = Nothing \/ r.quality # Nothing THEN r ELSE [r EXCEPT !.quality = q]

\* evaluate: _static_run is emptied first, a caller's run directory is not.
Wiped(marker) == [marker EXCEPT !["static"] = Nothing]
Evaluate(f, w, d) ==
  /\ step \in {"idle", "scored"} /\ step' = "generate"
  /\ input' = [fp |-> f, metrics |-> w, dir |-> d] /\ score' = Nothing
  /\ IF d = "static" THEN hit' = Wiped(hit) /\ pending' = Wiped(pending)
                     ELSE UNCHANGED <<hit, pending>>
  /\ lent' = (hit'[d] # Nothing)
  /\ soiled' = soiled \cup ({pending'[d]} \ {Nothing})
  /\ UNCHANGED <<record, answers, samples>>

\* A marker that cannot be written is skipped; half of one reads as none.
Marked(marker) == {[marker EXCEPT ![input.dir] = m] : m \in {marker[input.dir], Nothing, input.fp}}

Inherit ==
  /\ step = "generate" /\ Complete(record[input.fp]) /\ step' = "score"
  /\ answers' = record[input.fp].answers /\ hit' \in Marked(hit)
  /\ UNCHANGED <<record, pending, input, score, samples, lent, soiled>>

Generate ==
  /\ step = "generate" /\ ~Complete(record[input.fp]) /\ samples < MaxSamples
  /\ samples' = samples + 1 /\ answers' = samples' /\ step' = "save"
  /\ UNCHANGED <<record, hit, pending, input, score, lent, soiled>>

\* Without prompts, a fingerprint or the flag, no record is looked up or saved.
GenerateUnkeyed ==
  /\ step = "generate" /\ samples < MaxSamples
  /\ samples' = samples + 1 /\ answers' = samples' /\ step' = "score"
  /\ UNCHANGED <<record, hit, pending, input, score, lent, soiled>>

Save ==
  /\ step = "save" /\ step' = "score"
  /\ record' = [record EXCEPT ![input.fp] = Saved(@, answers)]
  /\ pending' \in Marked(pending)
  /\ UNCHANGED <<hit, input, answers, score, samples, lent, soiled>>

\* An OSError is logged and reuse is off for this evaluation.
SaveFails ==
  /\ step = "save" /\ step' = "score"
  /\ UNCHANGED <<record, hit, pending, input, answers, score, samples, lent, soiled>>

Donor == IF hit[input.dir] = Nothing THEN Nothing ELSE record[hit[input.dir]]

InheritScore ==
  /\ step = "score" /\ Complete(Donor)
  /\ score' = Donor.quality /\ step' = "scored"
  /\ UNCHANGED <<record, hit, pending, input, answers, samples, lent, soiled>>

Judge ==
  /\ step = "score" /\ ~Complete(Donor)
  /\ score' = Scored(answers, input.metrics) /\ step' = "scored"
  /\ record' \in {record, IF pending[input.dir] = Nothing THEN record
                  ELSE [record EXCEPT ![pending[input.dir]] = Attached(@, score')]}
  /\ UNCHANGED <<hit, pending, input, answers, samples, lent, soiled>>

\* The generation or the judging raises, or the process dies.
Fails ==
  /\ step \notin {"idle", "scored"} /\ step' = "idle"
  /\ UNCHANGED <<record, hit, pending, input, answers, score, samples, lent, soiled>>

ReuseNext ==
  \/ \E f \in Fingerprints, w \in Metrics, d \in Dirs : Evaluate(f, w, d)
  \/ Inherit \/ Generate \/ GenerateUnkeyed \/ Save \/ SaveFails
  \/ InheritScore \/ Judge \/ Fails

ReuseSpec == ReuseInit /\ [][ReuseNext]_reuseVars

(***************************************************************************)
(* Properties.                                                              *)
(***************************************************************************)

\* Every score returned was computed from the answers returned with it, whether
\* judged or inherited, through failed judging, failed saves and retries, and
\* also when the caller gives a run directory (save_answers: "so its later
\* quality attachment describes this generation"). Two leftovers are the
\* exceptions, and only a caller's directory, which is used as-is, can hold them:
\* an evaluation that begins with a hit marker may be given that donor's scores
\* for answers of its own, against "a HIT marker means the generator inherited a
\* donor's answers" (static_rag_evaluator.py:615), and one that begins with a
\* pending marker may attach its score to the record the marker names, which
\* later evaluations with that fingerprint inherit, in any directory. See README.
ScoresAreOfTheAnswers ==
  score # Nothing => score.of = answers \/ lent \/ input.fp \in soiled

\* An evaluation returns the metrics it was asked for: metrics_override changes
\* "only the scoring metric set". It does not hold: see README.
AskedMetricsAreReturned == score # Nothing => input.metrics \subseteq score.metrics

=============================================================================
