----------------------------- MODULE MC_Session -----------------------------
(* Small instances of MqttSession for TLC. *)
EXTENDS MqttSession, TLC
=============================================================================
