------------------------ MODULE MCMqttSubscriptions ------------------------
(***************************************************************************)
(* TLC instances of MqttSubscriptions: symmetry of topics and of slots.    *)
(***************************************************************************)
EXTENDS MqttSubscriptions, TLC

MqttSymmetry == Permutations(Topics) \union Permutations(Insts) \union Permutations(Handlers)
=============================================================================
