---------------------------- MODULE MCCardStore ----------------------------
(* CardStore for TLC: every card is worth 1, every balance starts at 0;    *)
(* threads and telephones are interchangeable.                             *)
EXTENDS CardStore, TLC

MCValue == [c \in Cards |-> 1]
MCInitial == [tel \in Tels |-> 0]

Symmetry == Permutations(Threads) \union Permutations(Tels)
=============================================================================
