------------------------------ MODULE MC_Exec -------------------------------
(* Small instances of MqttExec for TLC. *)
EXTENDS MqttExec, TLC
=============================================================================
