-------------------------- MODULE MCGrantAgentCalls --------------------------
(* Adders for the model checker: nothing in the model tells one from       *)
(* another.                                                                *)
EXTENDS GrantAgentCalls, TLC

AddersAlike == Permutations(Adders)
=============================================================================
