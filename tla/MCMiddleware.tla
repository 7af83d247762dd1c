----------------------------- MODULE MCMiddleware -----------------------------
(***************************************************************************)
(* TLC instances of Middleware: uplink and downlink limited, status not;    *)
(* one uplink message that is not LoRaWAN; a gateway with two spellings.   *)
(***************************************************************************)
EXTENDS Middleware, TLC

CONSTANTS u1, u2, u3, g1, G1

MCLimits == [uplink |-> 1, downlink |-> 0, status |-> 0]
MCLower == (g1 :> g1) @@ (G1 :> g1)
MiddlewareSymmetry ==
  Permutations(Jobs) \union Permutations({u1, u2}) \union Permutations(Lists)
=============================================================================
