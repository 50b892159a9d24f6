---------------------------- MODULE DeploymentMC ----------------------------
(* A box with two cards. Main generator and query expander share one server,  *)
(* or one of them is a prefill/decode pair; one layout needs a card too many. *)
EXTENDS Deployment

CONSTANTS u1, u2, p1

MCTrials ==
  {[main |-> u1, aux |-> u1, slots |-> 1, hf |-> TRUE, kids |-> 0],
   [main |-> p1, aux |-> u2, slots |-> 2, hf |-> FALSE, kids |-> 1],
   [main |-> u2, aux |-> p1, slots |-> 2, hf |-> FALSE, kids |-> 0],
   [main |-> u2, aux |-> NoKey, slots |-> 1, hf |-> FALSE, kids |-> 2],
   [main |-> u1, aux |-> NoKey, slots |-> 3, hf |-> FALSE, kids |-> 0]}
=============================================================================
