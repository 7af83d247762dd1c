-------------------------- MODULE MCPacketRouting --------------------------
(***************************************************************************)
(* TLC instances of PacketRouting: symmetry of gateways and of slots.      *)
(***************************************************************************)
EXTENDS PacketRouting, TLC

RoutingSymmetry == Permutations(Gateways) \union Permutations(Acts)
=============================================================================
