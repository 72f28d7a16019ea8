--------------------------- MODULE MCConnections ---------------------------
(* Connections for TLC.  Its run checks liveness, so without symmetry. *)
EXTENDS Connections
=============================================================================
