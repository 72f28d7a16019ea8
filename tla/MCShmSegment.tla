---------------------------- MODULE MCShmSegment ----------------------------
(* ShmSegment for TLC: threads and packets are interchangeable. *)
EXTENDS ShmSegment, TLC

Symmetry == Permutations(Threads) \union Permutations(Packets)
=============================================================================
