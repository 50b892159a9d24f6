----------------------------- MODULE AtomicPair -----------------------------
(***************************************************************************)
(* What the FAISS cache promises about a persisted pair: a reader's check  *)
(* finds no pair, or one whose index and metadata were written together;   *)
(* a pair is replaced only by being withdrawn first.                       *)
(***************************************************************************)
CONSTANT None

VARIABLE visible    \* the pair a readiness check accepts

Init == visible = None

Publish ==
    /\ visible = None
    /\ visible' # None
    /\ visible'.index = visible'.meta

Withdraw ==
    /\ visible # None
    /\ visible' = None

Spec == Init /\ [][Publish \/ Withdraw]_visible

=============================================================================
