------------------------------ MODULE MC_Http ------------------------------
(* A small instance of HttpClient for TLC. *)
EXTENDS HttpClient
=============================================================================
