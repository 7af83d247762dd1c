--------------------------- MODULE MCGatewayTable ---------------------------
(***************************************************************************)
(* TLC instances of GatewayTable: symmetry of gateways and goroutines.     *)
(***************************************************************************)
EXTENDS GatewayTable, TLC

TableSymmetry == Permutations(Macs) \union Permutations(Pulls)
=============================================================================
