----------------------------- MODULE Conversions -----------------------------
(***************************************************************************)
(* The conversions of the texts SQLite returns: char_to_float and          *)
(* char_to_int of readshmtask, loop by loop, in the width of their int and *)
(* float, and the decimal value they should have.  A text is a sequence of *)
(* character codes.                                                        *)
(*                                                                         *)
(* Amounts are counted in units of 10^-Len(text).  What is left in a float *)
(* after its roundings depends on bits of it that a text does not show, so *)
(* an amount is the interval it lies in: a rounding moves each end outward *)
(* by what it may be off (rounding keeps the order of numbers).  In what   *)
(* follows side is 1 for the upper end and -1 for the lower.               *)
(***************************************************************************)
EXTENDS Floats, Sequences, FiniteSetsExt

CONSTANTS
  Half,      \* an int is in -Half .. Half - 1: 2^31
  Exact      \* a float holds the whole numbers up to Exact: 2^24

Point == 46
Zero  == 48

ASSUME WidthAssumption == Half \in Nat \ {0} /\ Exact \in Nat

Power10(n) ==
  LET power[i \in 0 .. n] == IF i = 0 THEN 1 ELSE 10 * power[i-1]
  IN  power[n]

Unit(text) == Power10(Len(text))
HasPoint(text) == \E i \in DOMAIN text : text[i] = Point

(* node_pos: the index, from 0, of the first point; 0 when there is none.  *)
NodePos(text) ==
  IF HasPoint(text) THEN Min({i \in DOMAIN text : text[i] = Point}) - 1 ELSE 0

(* pre=pre*10+data[i]-'0': rounded after each of the three, once it is     *)
(* larger than the whole numbers a float holds.                            *)
Shifted(pre, c, side) ==
  LET x == pre * 10 + c
  IN  x - Zero + (IF x <= Exact THEN 0 ELSE side * (3 * Error(x)))

Pre(text, side) ==
  LET pre[i \in 0 .. NodePos(text)] ==
        IF i = 0 THEN 0 ELSE Shifted(pre[i-1], text[i], side)
  IN  pre[NodePos(text)]

(* x*0.1: the end of the interval, in whole units. *)
Tenth(x, side) == (IF side = 1 THEN x + 9 ELSE x) \div 10

(* Faulty variant: the loop runs forward, so the last digit weighs most.   *)
FractionForward(text, side) ==
  LET next[i \in NodePos(text) + 1 .. Len(text)] ==
        IF i = NodePos(text) + 1 THEN 0
        ELSE Tenth(next[i-1], side) + (text[i] - Zero) * Unit(text)
               + side * Error(10 * Unit(text))
  IN  next[Len(text)]

(* next=next*0.1+data[i]-'0', from the last character back to node_pos:    *)
(* computed in double, rounded once, and less than ten.                    *)
Fraction(text, side) ==
  LET next[i \in NodePos(text) + 2 .. Len(text) + 1] ==
        IF i > Len(text) THEN 0
        ELSE Tenth(next[i+1], side) + (text[i] - Zero) * Unit(text)
               + side * Error(10 * Unit(text))
  IN  next[NodePos(text) + 2]

(* sum=pre+next*0.1, rounded once. *)
CharToFloat(text, side) ==
  LET sum == Pre(text, side) * Unit(text) + Tenth(Fraction(text, side), side)
  IN  sum + side * Error(sum)

(* What is left of a number in an int. *)
InInt(x) == ((x + Half) % (2 * Half)) - Half

(* Faulty variant: the characters are added, not the digits. *)
CharToIntOfCodes(text) ==
  LET sum[i \in 0 .. Len(text)] ==
        IF i = 0 THEN 0 ELSE InInt(sum[i-1] * 10 + text[i])
  IN  sum[Len(text)]

(* sum=sum*10+data[i]-'0'. *)
CharToInt(text) ==
  LET sum[i \in 0 .. Len(text)] ==
        IF i = 0 THEN 0 ELSE InInt(sum[i-1] * 10 + text[i] - Zero)
  IN  sum[Len(text)]

-----------------------------------------------------------------------------
(* The decimal value of a text, in the same units: each digit times the   *)
(* weight of its place before or behind the point.                         *)
PointAt(text) == IF HasPoint(text) THEN NodePos(text) + 1 ELSE Len(text) + 1

Weight(text, i) ==
  IF i < PointAt(text) THEN Power10(Len(text) + PointAt(text) - 1 - i)
                       ELSE Power10(Len(text) + PointAt(text) - i)

Decimal(text) ==
  LET sum[i \in 0 .. Len(text)] ==
        IF i = 0 THEN 0
        ELSE IF i = PointAt(text) THEN sum[i-1]
        ELSE sum[i-1] + (text[i] - Zero) * Weight(text, i)
  IN  sum[Len(text)]

(* Without a point, node_pos is 0 as if the first character were it.       *)
WithPoint(text) ==
  IF HasPoint(text) THEN text ELSE [text EXCEPT ![1] = Point]

(* What the roundings behind the point come to, and that of the sum.       *)
OffBehind(text) == Error(10 * Unit(text)) + 1
Tolerance(text, value) == OffBehind(text) + Error(value + OffBehind(text))
=============================================================================
