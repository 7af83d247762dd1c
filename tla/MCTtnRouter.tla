----------------------------- MODULE MCTtnRouter -----------------------------
(***************************************************************************)
(* TLC instances of TtnRouter. Activations and workers are alike; the slots *)
(* for gatewayConns and streams are not, since the model chooses among them *)
(***************************************************************************)
EXTENDS TtnRouter, TLC

RouterSymmetry == Permutations(Acts) \union Permutations(Workers)
=============================================================================
