------------------------ MODULE MCAmqpSubscriptions ------------------------
(***************************************************************************)
(* TLC instances of AmqpSubscriptions: symmetry of keys and of calls.      *)
(***************************************************************************)
EXTENDS AmqpSubscriptions, TLC

AmqpSymmetry == Permutations(Keys) \union Permutations(Calls)
=============================================================================
