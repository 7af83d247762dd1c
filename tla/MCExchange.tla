----------------------------- MODULE MCExchange -----------------------------
(***************************************************************************)
(* TLC instances of Exchange: symmetry of done channels and of workers.    *)
(***************************************************************************)
EXTENDS Exchange, TLC

ChanSymmetry == Permutations(Chans)
ChanWorkerSymmetry == Permutations(Chans) \union Permutations(Workers)
=============================================================================
