----------------------------- MODULE MC_Alias ------------------------------
(* Small instances of MqttAlias for TLC. *)
EXTENDS MqttAlias, TLC

\* No topic is a proper prefix of another one.
PrefixFreePairs == {<<t, t>> : t \in Topics}
Symmetry == Permutations(Topics)
=============================================================================
