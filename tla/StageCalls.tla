----------------------------- MODULE StageCalls -----------------------------
(***************************************************************************)
(* What a batched stage service promises its callers, without saying how:  *)
(* every submitted call is answered at most once, the calls one execution  *)
(* serves share its fate, at most BatchSize of them are served together,   *)
(* and a service that stopped accepting refuses new calls and withdraws    *)
(* the ones it has not started to serve.                                   *)
(***************************************************************************)
EXTENDS Naturals, FiniteSets

CONSTANTS Calls,      \* the calls callers may make
          BatchSize   \* how many calls one execution may serve

VARIABLES answer,     \* what each call has got so far
          accepting   \* does the service still take calls

vars == <<answer, accepting>>

Answers == {"unsent", "open", "result", "exception", "cancelled", "refused"}

TypeOK ==
    /\ answer \in [Calls -> Answers]
    /\ accepting \in BOOLEAN

Init ==
    /\ answer = [c \in Calls |-> "unsent"]
    /\ accepting = TRUE

Open == {c \in Calls : answer[c] = "open"}

Give(S, a) == [c \in Calls |-> IF c \in S THEN a ELSE answer[c]]

Send(c) ==
    /\ answer[c] = "unsent"
    /\ answer' = Give({c}, IF accepting THEN "open" ELSE "refused")
    /\ UNCHANGED accepting

Withdraw(c) ==
    /\ answer[c] = "open"
    /\ answer' = Give({c}, "cancelled")
    /\ UNCHANGED accepting

Serve(S) ==
    /\ S # {}
    /\ Cardinality(S) <= BatchSize
    /\ \E a \in {"result", "exception"} : answer' = Give(S, a)
    /\ UNCHANGED accepting

Stop(S) ==
    /\ accepting
    /\ accepting' = FALSE
    /\ answer' = Give(S, "cancelled")

Next ==
    \/ \E c \in Calls : Send(c) \/ Withdraw(c)
    \/ \E S \in SUBSET Open : Serve(S) \/ Stop(S)

Spec == Init /\ [][Next]_vars

=============================================================================
