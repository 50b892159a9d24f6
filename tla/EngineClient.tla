------------------------------ MODULE EngineClient ------------------------------
(***************************************************************************)
(* The client side of a vLLM server process (vllm_subprocess.py): a batch   *)
(* of prompts under a concurrency limit, each a POST that is tried once     *)
(* more when its connection was stale, over an HTTP session that is kept    *)
(* per event loop; what a request asks for so that it fits the served       *)
(* context; and which server a launch starts. The pair of engines posts,    *)
(* retries and keeps sessions in the same way (vllm_pd_pair.py).            *)
(*                                                                          *)
(* A call of generate_batch has an event loop of its own (asyncio.run). The *)
(* measured runtime closes the session before its loop ends, the generator  *)
(* node used directly does not. A new loop may get the id of a dead one.    *)
(***************************************************************************)
EXTENDS Integers, FiniteSets

CONSTANTS Calls,       \* 1..n, one after the other
          Prompts,
          LoopIds,     \* id(loop)
          MaxNumSeqs   \* possible numbers of sequences of the engine

ASSUME ClientAssumption ==
  /\ Calls \subseteq Nat \ {0} /\ Prompts # {} /\ IsFiniteSet(Prompts)
  /\ LoopIds # {} /\ MaxNumSeqs \subseteq Int

VARIABLES measured,   \* who calls: the measured runtime, or the node
          seqs,       \* max_num_seqs
          call,       \* of each call: new, running, raising, over
          loop,       \* and its loop's id
          sessions,   \* _http_by_loop: the call a session was made in, 0: none
          post,       \* per call and prompt: waiting, posting, answered, failed, cancelled
          over,       \* the session it was posted over
          again,      \* it is on its second attempt
          reply,      \* the engine has run it and its answer is on the way
          ran         \* history: how often the engine ran it in this loop

clientVars == <<measured, seqs, call, loop, sessions, post, over, again, reply, ran>>

Smaller(a, b) == IF a <= b THEN a ELSE b
AtLeast1(a) == IF a >= 1 THEN a ELSE 1
Jobs == Calls \X Prompts

\* _positive_int_env, _stream_concurrency_limit: 0 is None, and what is no number.
PositiveEnv(raw) == IF raw > 0 THEN raw ELSE 0
StreamLimit(n, default, env) ==
  AtLeast1(Smaller(AtLeast1(n), IF PositiveEnv(env) > 0 THEN PositiveEnv(env) ELSE default))
Streams(k) == {p \in Prompts : post[<<k, p>>] = "posting"}
HasRoom(k) == Cardinality(Streams(k)) < StreamLimit(Cardinality(Prompts), seqs, 0)

ClientInit ==
  /\ measured \in BOOLEAN /\ seqs \in MaxNumSeqs
  /\ call = [k \in Calls |-> "new"] /\ loop \in [Calls -> LoopIds]
  /\ sessions = [i \in LoopIds |-> 0] /\ post = [j \in Jobs |-> "waiting"]
  /\ over = [j \in Jobs |-> 0] /\ again = [j \in Jobs |-> FALSE]
  /\ reply = [j \in Jobs |-> FALSE] /\ ran = [j \in Jobs |-> 0]

\* generate_batch: every prompt at once, under a semaphore of its own.
GenerateBatch(k) ==
  /\ call[k] = "new" /\ \A c \in Calls : c < k => call[c] = "over"
  /\ call' = [call EXCEPT ![k] = "running"]
  /\ UNCHANGED <<measured, seqs, loop, sessions, post, over, again, reply, ran>>

CallLives(k) == call[k] \in {"running", "raising"}

\* _http_session, _raw_completion: a session is there if one of this id is open.
SendRequest(k, p) ==
  LET s == IF sessions[loop[k]] = 0 THEN k ELSE sessions[loop[k]] IN
  /\ CallLives(k) /\ post[<<k, p>>] = "waiting" /\ HasRoom(k)
  /\ post' = [post EXCEPT ![<<k, p>>] = "posting"]
  /\ over' = [over EXCEPT ![<<k, p>>] = s] /\ sessions' = [sessions EXCEPT ![loop[k]] = s]
  /\ UNCHANGED <<measured, seqs, call, loop, again, reply, ran>>

\* The engine runs the request. A session of another loop sends nothing.
EngineRuns(k, p) ==
  /\ CallLives(k) /\ post[<<k, p>>] = "posting" /\ over[<<k, p>>] = k /\ ~reply[<<k, p>>]
  /\ reply' = [reply EXCEPT ![<<k, p>>] = TRUE] /\ ran' = [ran EXCEPT ![<<k, p>>] = @ + 1]
  /\ UNCHANGED <<measured, seqs, call, loop, sessions, post, over, again>>

PostEnds(k, p, how) ==
  /\ post' = [post EXCEPT ![<<k, p>>] = how]
  /\ UNCHANGED <<measured, seqs, call, loop, sessions, over, again, reply, ran>>

ReplyArrives(k, p) ==
  CallLives(k) /\ post[<<k, p>>] = "posting" /\ reply[<<k, p>>] /\ PostEnds(k, p, "answered")

\* ServerDisconnectedError or ClientOSError, before the engine ran it or after: the
\* first one is tried again at once.
RetriesOnce(j) == again[j]
StaleConnection(k, p) ==
  /\ CallLives(k) /\ post[<<k, p>>] = "posting" /\ over[<<k, p>>] = k
  /\ IF RetriesOnce(<<k, p>>) THEN PostEnds(k, p, "failed")
     ELSE /\ again' = [again EXCEPT ![<<k, p>>] = TRUE]
          /\ reply' = [reply EXCEPT ![<<k, p>>] = FALSE]
          /\ UNCHANGED <<measured, seqs, call, loop, sessions, post, over, ran>>

\* HTTP 400, a timeout, or a session whose loop is closed: nothing is tried again.
RequestFails(k, p) ==
  CallLives(k) /\ post[<<k, p>>] = "posting" /\ ~reply[<<k, p>>] /\ PostEnds(k, p, "failed")

\* gather: the first failure raises, its siblings go on until the loop is left.
GatherRaises(k) ==
  /\ call[k] = "running" /\ \E p \in Prompts : post[<<k, p>>] = "failed"
  /\ call' = [call EXCEPT ![k] = "raising"]
  /\ UNCHANGED <<measured, seqs, loop, sessions, post, over, again, reply, ran>>

\* aclose_http, before a measured loop is left; then asyncio.run cancels what runs.
KeepSessions(k) == sessions
CloseSessions(k) == IF measured THEN [sessions EXCEPT ![loop[k]] = 0] ELSE sessions
LeaveLoop(k) ==
  /\ \/ call[k] = "raising"
     \/ call[k] = "running" /\ \A p \in Prompts : post[<<k, p>>] = "answered"
  /\ call' = [call EXCEPT ![k] = "over"] /\ sessions' = CloseSessions(k)
  /\ post' = [j \in Jobs |-> IF j[1] = k /\ post[j] \in {"waiting", "posting"}
                             THEN "cancelled" ELSE post[j]]
  /\ over' = [j \in Jobs |-> 0] /\ again' = [j \in Jobs |-> FALSE]
  /\ reply' = [j \in Jobs |-> FALSE] /\ ran' = [j \in Jobs |-> 0]
  /\ UNCHANGED <<measured, seqs, loop>>

ClientNext ==
  \E k \in Calls :
    \/ GenerateBatch(k) \/ GatherRaises(k) \/ LeaveLoop(k)
    \/ \E p \in Prompts : \/ SendRequest(k, p) \/ EngineRuns(k, p) \/ ReplyArrives(k, p)
                          \/ StaleConnection(k, p) \/ RequestFails(k, p)

(***************************************************************************)
(* What a request asks for. 0 is None.                                      *)
(***************************************************************************)
\* _resolve_served_max_model_len, _query_served_max_model_len, _hf_model_context_len:
\* the launch's length, what the server says, or the largest the model config names.
ModelContext(named) == IF named = {} THEN 0 ELSE CHOOSE n \in named : \A m \in named : m <= n
ServedContext(key, served, named) ==
  IF key > 0 THEN key ELSE IF served > 0 THEN served ELSE ModelContext(named)

\* _chat_request_budget: the output cap stands, the server cuts the prompt.
ChatBudget(requested, context) ==
  [max |-> AtLeast1(requested),
   truncate |-> IF context > 0 THEN AtLeast1(context - AtLeast1(requested)) ELSE 0]

\* _fit_request_to_context, of a prompt of so many tokens and characters: here the
\* output cap gives way, and only what is still too long is cut.
FittedKeepsMax(requested, context, tokens) == requested
FittedMax(requested, context, tokens) ==
  IF context - tokens >= requested THEN requested
  ELSE AtLeast1(Smaller(requested, context - tokens))
FittedBudget(requested, context, tokens, chars) ==
  LET r == AtLeast1(requested) fitted == FittedMax(r, context, tokens) IN
  IF context <= 0 \/ chars + r <= context THEN [max |-> r, truncate |-> 0]
  ELSE [max |-> fitted,
        truncate |-> IF tokens + fitted > context THEN AtLeast1(context - fitted) ELSE 0]

\* The server's own check of a request.
Accepts(context, tokens, budget) ==
  (IF budget.truncate > 0 THEN Smaller(tokens, budget.truncate) ELSE tokens) + budget.max
    <= context

\* _stream_timeout_s, _openai_stream_timeout: 0 is unset or no number.
StreamTimeout(raw) == IF raw = 0 THEN 900 ELSE IF raw >= 5 THEN raw ELSE 5
PhaseTimeouts(raw) ==
  {Smaller(10, StreamTimeout(raw)), Smaller(30, StreamTimeout(raw)), StreamTimeout(raw)}

(***************************************************************************)
(* Which server a launch starts: "refused" is a ValueError.                 *)
(***************************************************************************)
Environments ==
  [stage : BOOLEAN, component : BOOLEAN, timing : BOOLEAN, runId : BOOLEAN]

\* _vllm_server_command_prefix
ServerCommand(env, count) ==
  IF \/ count <= 0
     \/ env.stage /\ env.timing
     \/ (env.stage \/ env.timing) /\ count # 1
     \/ env.stage /\ ~env.runId
  THEN "refused"
  ELSE IF env.stage \/ env.timing THEN "calibration" ELSE IF count = 1 THEN "api" ELSE "serve"

\* _component_telemetry_worker_args
WorkerClass(env, count, pp) ==
  IF ~env.component THEN "vllm"
  ELSE IF ~env.runId \/ count # 1 \/ pp # 1 THEN "refused" ELSE "component"

(***************************************************************************)
(* Properties.                                                              *)
(***************************************************************************)

\* Whatever fails, is retried or left behind, a call opens no more streams than its
\* limit, leaves no request running, has an engine run no request a third time, and
\* returns only answers, one for each prompt; in measured use no request
\* is ever posted over the session of a loop that is gone.
CallsCleanUpAfterThemselves ==
  /\ \A k \in Calls :
       LET answered == {p \in Prompts : post[<<k, p>>] = "answered"} IN
       /\ Cardinality(Streams(k)) <= AtLeast1(seqs)
       /\ CallLives(k) => \A p \in answered : ran[<<k, p>>] >= 1
       /\ call[k] = "over" =>
            /\ Streams(k) = {}
            /\ answered = Prompts \/ \E p \in Prompts : post[<<k, p>>] = "failed"
  /\ \A j \in Jobs : ran[j] <= 2 /\ (measured => over[j] \in {0, j[1]})

\* Asked with the context the server really has, a chat request is refused exactly
\* when its output alone fills it, and a fitted one never; the guess from the model
\* config is used only when nothing better is known. An instrumented server has one
\* frontend, a run id, and never both instruments.
RequestsFitTheContext ==
  call[1] = "running" /\ (\A j \in Jobs : post[j] = "waiting") =>
    /\ \A requested \in 0 .. 6, context \in 2 .. 6, tokens \in 0 .. 8 :
         /\ Accepts(context, tokens, ChatBudget(requested, context))
              <=> AtLeast1(requested) + Smaller(tokens, 1) <= context
         /\ \A chars \in tokens .. 8 :
              Accepts(context, tokens, FittedBudget(requested, context, tokens, chars))
    /\ \A key, served \in {-1, 0, 4}, named \in SUBSET {3, 5} :
         ServedContext(key, served, named) = 5 => key <= 0 /\ served <= 0
    /\ \A raw \in {0, 1, 7, 40, 700} : \A t \in PhaseTimeouts(raw) : t <= StreamTimeout(raw)
    /\ \A env \in Environments, count \in 0 .. 2, pp \in 1 .. 2 :
         LET server == ServerCommand(env, count) worker == WorkerClass(env, count, pp) IN
         "refused" \notin {server, worker} =>
           /\ server = "calibration" \/ worker = "component" => count = 1
           /\ env.stage \/ worker = "component" => env.runId
           /\ ~(env.stage /\ env.timing) /\ (worker = "component" => pp = 1)

=============================================================================
