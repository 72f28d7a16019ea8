-------------------------------- MODULE Floats --------------------------------
(* What a float of the code keeps of a number.  Sums of money are counted  *)
(* in the smallest unit that their text shows; a result that has been      *)
(* rounded is off by at most one such unit and one part in Precision.      *)
EXTENDS Integers

CONSTANT
  Precision      \* a float holds a number to one part in Precision

ASSUME FloatAssumption == Precision \in Nat /\ Precision >= 10

Error(x) == 1 + x \div Precision

(* What x may be after it was rounded; it never becomes negative. *)
Near(x) == {y \in (x - Error(x)) .. (x + Error(x)) : y >= 0}
=============================================================================
