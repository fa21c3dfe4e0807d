------------------------------- MODULE MC_Pub -------------------------------
(* Small instances of MqttPub for TLC. *)
EXTENDS MqttPub, TLC
=============================================================================
