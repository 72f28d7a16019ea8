------------------------------ MODULE MCServer ------------------------------
(* Server for TLC. *)
EXTENDS Server
=============================================================================
