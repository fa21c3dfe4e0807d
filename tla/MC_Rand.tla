------------------------------ MODULE MC_Rand ------------------------------
(* Small instances of RandServer for TLC. *)
EXTENDS RandServer
=============================================================================
