--------------------------------- MODULE Lists ---------------------------------
(***************************************************************************)
(* Lists as the nodes and the ingestion handle them: a comprehension with a *)
(* condition, sorted(), make_batch and sum(). None of the lists is built by *)
(* recursion: what is at a place is found by counting what comes before it. *)
(***************************************************************************)
EXTENDS Integers, Sequences, FiniteSets, FiniteSetsExt

\* The elements at the given positions, in their order.
Picked(s, at) ==
  [k \in 1 .. Cardinality(at) |->
     s[CHOOSE i \in at : Cardinality({j \in at : j <= i}) = k]]

\* The elements by an order; what it does not tell apart stays in place.
Ordered(s, Before(_, _)) ==
  [k \in DOMAIN s |->
     s[CHOOSE i \in DOMAIN s :
         Cardinality({j \in DOMAIN s : \/ Before(s[j], s[i])
                                       \/ j <= i /\ ~Before(s[i], s[j])}) = k]]

\* make_batch: pieces of n elements, the last of what is left.
MakeBatch(s, n) ==
  [i \in 1 .. (Len(s) + n - 1) \div n |->
     SubSeq(s, n * (i - 1) + 1, IF n * i < Len(s) THEN n * i ELSE Len(s))]

\* The sum of the values f has on S.
SumOver(f, S) == MapThenSumSet(LAMBDA x : f[x], S)
=============================================================================
