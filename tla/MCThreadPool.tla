---------------------------- MODULE MCThreadPool ----------------------------
(* ThreadPool for TLC.  Its runs check liveness, so without symmetry. *)
EXTENDS ThreadPool
=============================================================================
