----------------------------- MODULE CardLedger -----------------------------
(* What the recharge cards of UnicomMini.sql promise: a card is for sale,  *)
(* is sold once, and is then turned once into money on a telephone's       *)
(* balance, in one indivisible step.  The balance is read into a float,    *)
(* and the sum is printed from one.                                        *)
EXTENDS Floats

CONSTANTS
  Cards,     \* the rows of tbl_card
  Tels,      \* the rows of tbl_balance
  Value,     \* card_money of each card
  Initial    \* the balances at the start

VARIABLES
  status,    \* card_state: 0 for sale, 1 sold, 2 used
  balance    \* tbl_balance

vars == <<status, balance>>

Init ==
  /\ status = [c \in Cards |-> 0]
  /\ balance = Initial

Sell(c) ==
  /\ status[c] = 0
  /\ status' = [status EXCEPT ![c] = 1]
  /\ UNCHANGED balance

Redeem(c, tel) ==
  /\ status[c] = 1
  /\ status' = [status EXCEPT ![c] = 2]
  /\ \E read \in Near(balance[tel]) : \E sum \in Near(read + Value[c]) :
       balance' = [balance EXCEPT ![tel] = sum]

Next == \E c \in Cards : Sell(c) \/ \E tel \in Tels : Redeem(c, tel)

Spec == Init /\ [][Next]_vars
=============================================================================
