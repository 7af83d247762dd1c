--------------------------- MODULE MCDebugPage ---------------------------
(***************************************************************************)
(* TLC instance of DebugPage: symmetry of slots and of gateways.           *)
(***************************************************************************)
EXTENDS DebugPage, TLC

PageSymmetry == Permutations(South) \union Permutations(Gateways)
=============================================================================
