---------------------------- MODULE FaissCacheMC ----------------------------
(***************************************************************************)
(* FaissCache for TLC: two ids, added one at a time; writers and threads   *)
(* are interchangeable.                                                    *)
(***************************************************************************)
EXTENDS FaissCache, TLC

CONSTANTS a, b

SomeBatches == {<<a>>, <<b>>}

Symmetry == {p @@ q : p \in Permutations(Writers), q \in Permutations(Threads)}

=============================================================================
