---------------------------- MODULE ClosedLoopMC ----------------------------
(***************************************************************************)
(* ClosedLoop for TLC: the rows are interchangeable, and so are the drivers *)
(* of the initial population.                                              *)
(***************************************************************************)
EXTENDS ClosedLoop, TLC

Symmetry == {p @@ q : p \in Permutations(Rows), q \in Permutations(Initial)}

=============================================================================
