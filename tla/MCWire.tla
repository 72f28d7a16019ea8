------------------------------- MODULE MCWire -------------------------------
(* Wire for TLC: the texts are those of up to four characters 0, 9 with at *)
(* most one point, behind a digit, as SQLite prints numbers.               *)
EXTENDS Wire

MCTexts ==
  {text \in UNION {[1 .. n -> {Zero, Zero + 9, Point}] : n \in 1 .. 4} :
     /\ text[1] # Point
     /\ Cardinality({i \in DOMAIN text : text[i] = Point}) <= 1}
=============================================================================
