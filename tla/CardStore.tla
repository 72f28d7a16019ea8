------------------------------ MODULE CardStore ------------------------------
(***************************************************************************)
(* The threads of the database process (readshmtask::run, one request per  *)
(* task) and the SQLite database they share through CSingleton::get_data.  *)
(* SQLite serialises the connection, so one SQL statement is one step; a   *)
(* request that needs several (buying a card, recharging a telephone) runs *)
(* them one by one, with no transaction around them and nothing locked,    *)
(* while the other threads of the pool run theirs.  A statement may fail;  *)
(* get_data prints the error, and the task goes on with no rows.           *)
(*                                                                         *)
(* card_money never changes, so it is the constant Value.  A balance is a  *)
(* number of the last digit %f prints; reading its text into a float, and  *)
(* printing the float sum, each round it (Floats).  The four enquiries,    *)
(* the login among them, read and write nothing.                           *)
(* The reply segment is ShmSegment's: here a task finds room in it or not. *)
(***************************************************************************)
EXTENDS Floats, FiniteSets

CONSTANTS
  Threads,       \* the threads of the pool (30 to 100)
  NCards,        \* tbl_card has the rows 1..NCards, read in this order
  Value,         \* card_money of each of them
  Tels,          \* the telephones of tbl_balance
  NoTel,         \* a telephone that is not in tbl_balance
  Initial,       \* the balances at the start
  Counts,        \* card_count of the purchases
  MaxRequests,   \* bound: requests
  MaxRestarts,   \* bound: crashes of the process
  MaxFailures    \* bound: statements that fail

Cards == 1 .. NCards
NoCard == 0      \* a card number that is not in tbl_card

ASSUME StoreAssumption ==
  /\ NCards \in Nat
  /\ Value \in [Cards -> Nat]
  /\ NoTel \notin Tels
  /\ Initial \in [Tels -> Nat]
  /\ Counts \subseteq Nat
  /\ MaxRequests \in Nat
  /\ MaxRestarts \in Nat
  /\ MaxFailures \in Nat
  /\ IsFiniteSet(Threads)

Moneys == {Value[c] : c \in Cards}

(* The requests, by type; "odd" is a purchase with ask_buy other than 0, 1 *)
Purchases == [op : {"ask", "confirm"}, money : Moneys, n : Counts]
Recharges == [op : {"recharge"}, card : Cards \union {NoCard},
                                 tel : Tels \union {NoTel}]
Requests == Purchases \union Recharges \union [op : {"enquire", "odd"}]

NoRequest == [op |-> "none"]

VARIABLES
  state,        \* tbl_card.card_state: 0 for sale, 1 sold, 2 used
  balance,      \* tbl_balance.balance
  pc,           \* thread: "idle" or the statement it runs next
  req,          \*   its request
  rows,         \*   cards of its result set it has not come to yet
  n,            \*   cards it has still to put in the reply, or to announce
  bought,       \*   cards it has put in the reply
  old,          \*   old_momey
  answer,       \*   the result it puts in the reply
  left,         \* what is left of MaxRequests
  restarts,     \* what is left of MaxRestarts
  failures,     \* what is left of MaxFailures
  marked,       \* history: cards some purchase set to 1
  delivered,    \* history: how often each card left in a reply
  credits,      \* history: how often each card was credited
  oks,          \* history: how often each card left with "ok"
  paid,         \* history: money credited to each telephone
  rounding,     \* history: what the roundings may have added to it
  overlapped,   \* history: two threads were inside their statements at once
  torn,         \* history: a crash hit a thread inside its statements
  unpaid,       \* history: how often the update that credits a card failed
  failed        \* history: an update failed

database == <<state, balance>>
locals   == <<pc, req, rows, n, bought, old, answer>>
bounds   == <<left, restarts, failures>>
faults   == <<unpaid, failed>>
history  == <<marked, delivered, credits, oks, paid, rounding, overlapped,
              torn, faults>>
vars == <<database, locals, bounds, history>>

Init ==
  /\ state = [c \in Cards |-> 0]
  /\ balance = Initial
  /\ pc = [t \in Threads |-> "idle"]
  /\ req = [t \in Threads |-> NoRequest]
  /\ rows = [t \in Threads |-> {}]
  /\ n = [t \in Threads |-> 0]
  /\ bought = [t \in Threads |-> {}]
  /\ old = [t \in Threads |-> 0]
  /\ answer = [t \in Threads |-> "none"]
  /\ left = MaxRequests /\ restarts = MaxRestarts /\ failures = MaxFailures
  /\ marked = {}
  /\ delivered = [c \in Cards \union {NoCard} |-> 0]
  /\ credits = [c \in Cards |-> 0]
  /\ oks = [c \in Cards |-> 0]
  /\ paid = [tel \in Tels |-> 0]
  /\ rounding = [tel \in Tels |-> 0]
  /\ overlapped = FALSE /\ torn = FALSE
  /\ unpaid = [c \in Cards |-> 0] /\ failed = FALSE

-----------------------------------------------------------------------------
(* The thread has read what it is going to change. *)
Inside(t) == pc[t] \in {"sell", "balance", "credit", "mark"}

Goto(t, s) == pc' = [pc EXCEPT ![t] = s]

(* It reads it now: does somebody else rely on what he read?               *)
Enter(t, s) ==
  /\ Goto(t, s)
  /\ overlapped' = (overlapped \/ \E u \in Threads : Inside(u))

(* The answer is known; the reply is posted next. *)
Reply(t, a) ==
  /\ Goto(t, "post")
  /\ answer' = [answer EXCEPT ![t] = a]

Smaller(a, b) == IF a < b THEN a ELSE b

Having(s) == {c \in Cards : state[c] = s}

(* select ... from tbl_card where card_money=m and card_state=0 *)
ForSale(m) == {c \in Having(0) : Value[c] = m}

(* A pool thread takes a request and looks at the reply segment: when it   *)
(* is full the request is forgotten, and so is an odd purchase.            *)
Begin(t, r) ==
  /\ pc[t] = "idle" /\ left > 0
  /\ left' = left - 1
  /\ \/ /\ r.op # "odd"
        /\ Goto(t, "select")
        /\ req' = [req EXCEPT ![t] = r]
     \/ UNCHANGED <<pc, req>>
  /\ UNCHANGED <<database, rows, n, bought, old, answer, restarts, failures,
                 history>>

(* Faulty variant: the number asked for is answered, not the smaller. *)
AskSelectUncapped(t) ==
  /\ pc[t] = "select" /\ req[t].op = "ask"
  /\ n' = [n EXCEPT ![t] = req[t].n + Cardinality(ForSale(req[t].money))]
  /\ Reply(t, "count")
  /\ UNCHANGED <<database, req, rows, bought, old, bounds, history>>

(* ask_buy = 0: how many of the cards asked for are there? *)
AskSelect(t) ==
  /\ pc[t] = "select" /\ req[t].op = "ask"
  /\ n' = [n EXCEPT ![t] = Smaller(Cardinality(ForSale(req[t].money)),
                                   req[t].n)]
  /\ Reply(t, "count")
  /\ UNCHANGED <<database, req, rows, bought, old, bounds, history>>

(* ask_buy = 1: the cards for sale are listed; none of them is reserved.   *)
ConfirmSelect(t) ==
  /\ pc[t] = "select" /\ req[t].op = "confirm"
  /\ rows' = [rows EXCEPT ![t] = ForSale(req[t].money)]
  /\ n' = [n EXCEPT ![t] = req[t].n]
  /\ Enter(t, "sell")
  /\ UNCHANGED <<database, req, bought, old, answer, bounds, marked,
                 delivered, credits, oks, paid, rounding, torn, faults>>

(* c is the first card of the result the loop has not come to yet. *)
IsNext(t, c) == c \in rows[t] /\ \A d \in rows[t] : c <= d

(* Faulty variant: the card is sold but not put in the reply. *)
SellNotCopied(t, c) ==
  /\ pc[t] = "sell" /\ n[t] > 0 /\ IsNext(t, c)
  /\ rows' = [rows EXCEPT ![t] = @ \ {c}]
  /\ n' = [n EXCEPT ![t] = @ - 1]
  /\ state' = [state EXCEPT ![c] = 1]
  /\ marked' = marked \union {c}
  /\ UNCHANGED <<balance, pc, req, bought, old, answer, bounds,
                 delivered, credits, oks, paid, rounding, overlapped, torn,
                 faults>>

(* One turn of the loop: the next card goes into the reply, and an update  *)
(* that no longer looks at card_state sets it to 1.                        *)
Sell(t, c) ==
  /\ pc[t] = "sell" /\ n[t] > 0 /\ IsNext(t, c)
  /\ rows' = [rows EXCEPT ![t] = @ \ {c}]
  /\ n' = [n EXCEPT ![t] = @ - 1]
  /\ state' = [state EXCEPT ![c] = 1]
  /\ bought' = [bought EXCEPT ![t] = @ \union {c}]
  /\ marked' = marked \union {c}
  /\ UNCHANGED <<balance, pc, req, old, answer, bounds,
                 delivered, credits, oks, paid, rounding, overlapped, torn,
                 faults>>

(* card_count is larger than the result: presult[i+1] lies behind the rows *)
(* (undefined behaviour).  What is there is not the number of a card, and  *)
(* the update changes no row; or the process dies, which is Restart.       *)
SellOverrun(t) ==
  /\ pc[t] = "sell" /\ n[t] > 0 /\ rows[t] = {}
  /\ n' = [n EXCEPT ![t] = @ - 1]
  /\ bought' = [bought EXCEPT ![t] = @ \union {NoCard}]
  /\ UNCHANGED <<database, pc, req, rows, old, answer, bounds, history>>

SellDone(t) ==
  /\ pc[t] = "sell" /\ n[t] = 0
  /\ Reply(t, "sold")
  /\ UNCHANGED <<database, req, rows, n, bought, old, bounds, history>>

-----------------------------------------------------------------------------
(* Faulty variant: a card that was never sold is taken as well. *)
RechargeSelectUnsold(t) ==
  /\ pc[t] = "select" /\ req[t].op = "recharge"
  /\ \/ /\ req[t].card = NoCard
        /\ Reply(t, "badCard")
        /\ UNCHANGED overlapped
     \/ /\ req[t].card \in Having(2)
        /\ Reply(t, "used")
        /\ UNCHANGED overlapped
     \/ /\ req[t].card \in Having(0) \union Having(1)
        /\ Enter(t, "balance")
        /\ UNCHANGED answer
  /\ UNCHANGED <<database, req, rows, n, bought, old, bounds, marked,
                 delivered, credits, oks, paid, rounding, torn, faults>>

(* select card_state,card_money: only a sold, unused card goes on.         *)
RechargeSelect(t) ==
  /\ pc[t] = "select" /\ req[t].op = "recharge"
  /\ \/ /\ req[t].card \in {NoCard} \union Having(0)
        /\ Reply(t, "badCard")
        /\ UNCHANGED overlapped
     \/ /\ req[t].card \in Having(2)
        /\ Reply(t, "used")
        /\ UNCHANGED overlapped
     \/ /\ req[t].card \in Having(1)
        /\ Enter(t, "balance")
        /\ UNCHANGED answer
  /\ UNCHANGED <<database, req, rows, n, bought, old, bounds, marked,
                 delivered, credits, oks, paid, rounding, torn, faults>>

(* A number x of telephone tel is rounded once more. *)
Round(tel, x) == rounding' = [rounding EXCEPT ![tel] = @ + Error(x)]

(* select balance: char_to_float makes a float of the text, and the thread *)
(* keeps it as the old balance.                                            *)
RechargeBalance(t) ==
  /\ pc[t] = "balance"
  /\ \/ /\ req[t].tel = NoTel
        /\ Reply(t, "noTel")
        /\ UNCHANGED <<old, rounding>>
     \/ /\ req[t].tel # NoTel
        /\ \E m \in Near(balance[req[t].tel]) : old' = [old EXCEPT ![t] = m]
        /\ Round(req[t].tel, balance[req[t].tel])
        /\ Goto(t, "credit")
        /\ UNCHANGED answer
  /\ UNCHANGED <<database, req, rows, n, bought, bounds, marked, delivered,
                 credits, oks, paid, overlapped, torn, faults>>

(* Faulty variant: the update has lost its where clause. *)
RechargeCreditEverybody(t) ==
  /\ pc[t] = "credit"
  /\ \E m \in Near(old[t] + Value[req[t].card]) :
       balance' = [tel \in Tels |-> m]
  /\ Round(req[t].tel, old[t] + Value[req[t].card])
  /\ credits' = [credits EXCEPT ![req[t].card] = @ + 1]
  /\ paid' = [paid EXCEPT ![req[t].tel] = @ + Value[req[t].card]]
  /\ Goto(t, "mark")
  /\ UNCHANGED <<state, req, rows, n, bought, old, answer, bounds, marked,
                 delivered, oks, overlapped, torn, faults>>

(* update tbl_balance set balance = old_momey + card_money: the sum is a   *)
(* float, and %f prints it.                                                *)
RechargeCredit(t) ==
  /\ pc[t] = "credit"
  /\ \E m \in Near(old[t] + Value[req[t].card]) :
       balance' = [balance EXCEPT ![req[t].tel] = m]
  /\ Round(req[t].tel, old[t] + Value[req[t].card])
  /\ credits' = [credits EXCEPT ![req[t].card] = @ + 1]
  /\ paid' = [paid EXCEPT ![req[t].tel] = @ + Value[req[t].card]]
  /\ Goto(t, "mark")
  /\ UNCHANGED <<state, req, rows, n, bought, old, answer, bounds, marked,
                 delivered, oks, overlapped, torn, faults>>

(* Faulty variants: the card is not marked; the result is not set. *)
RechargeMarkForgotten(t) ==
  /\ pc[t] = "mark"
  /\ Reply(t, "ok")
  /\ UNCHANGED <<database, req, rows, n, bought, old, bounds, history>>

RechargeMarkNoResult(t) ==
  /\ pc[t] = "mark"
  /\ state' = [state EXCEPT ![req[t].card] = 2]
  /\ Reply(t, "none")
  /\ UNCHANGED <<balance, req, rows, n, bought, old, bounds, history>>

(* update tbl_card set card_state=2 *)
RechargeMark(t) ==
  /\ pc[t] = "mark"
  /\ state' = [state EXCEPT ![req[t].card] = 2]
  /\ Reply(t, "ok")
  /\ UNCHANGED <<balance, req, rows, n, bought, old, bounds, history>>

-----------------------------------------------------------------------------
(* Login, balance, bill and list: one select, and an answer.               *)
Enquire(t) ==
  /\ pc[t] = "select" /\ req[t].op = "enquire"
  /\ \E a \in {"found", "missing"} : Reply(t, a)
  /\ UNCHANGED <<database, req, rows, n, bought, old, bounds, history>>

(* The task's locals end with it. *)
Forget(t) ==
  /\ Goto(t, "idle")
  /\ req' = [req EXCEPT ![t] = NoRequest]
  /\ rows' = [rows EXCEPT ![t] = {}]
  /\ n' = [n EXCEPT ![t] = 0]
  /\ bought' = [bought EXCEPT ![t] = {}]
  /\ old' = [old EXCEPT ![t] = 0]
  /\ answer' = [answer EXCEPT ![t] = "none"]

(* The reply goes into the segment and the task is over. *)
Post(t) ==
  /\ pc[t] = "post"
  /\ delivered' = [c \in Cards \union {NoCard} |->
                     delivered[c] + (IF c \in bought[t] THEN 1 ELSE 0)]
  /\ oks' = [c \in Cards |->
               oks[c] + (IF answer[t] = "ok" /\ req[t].card = c THEN 1 ELSE 0)]
  /\ Forget(t)
  /\ UNCHANGED <<database, bounds, marked, credits, paid, rounding, overlapped,
                 torn, faults>>

(* The process dies and the server is started again: each statement was    *)
(* committed when it returned, the tasks are gone.                         *)
Crash ==
  /\ pc' = [t \in Threads |-> "idle"]
  /\ req' = [t \in Threads |-> NoRequest]
  /\ rows' = [t \in Threads |-> {}]
  /\ n' = [t \in Threads |-> 0]
  /\ bought' = [t \in Threads |-> {}]
  /\ old' = [t \in Threads |-> 0]
  /\ answer' = [t \in Threads |-> "none"]
  /\ torn' = (torn \/ \E t \in Threads : Inside(t) \/ pc[t] = "post")
  /\ UNCHANGED <<database, left, marked, delivered, credits, oks, paid,
                 rounding, overlapped, faults>>

Restart ==
  /\ restarts > 0 /\ restarts' = restarts - 1
  /\ Crash /\ UNCHANGED failures

-----------------------------------------------------------------------------
(* A statement fails: nothing is changed, presult is NULL and rol is 0.    *)
StatementFails ==
  /\ failures > 0 /\ failures' = failures - 1
  /\ UNCHANGED <<database, left, restarts>>

(* What a task answers when its first select has no rows.                  *)
NoRows(op) ==
  CASE op = "ask" -> "count" [] op = "confirm" -> "sold"
    [] op = "recharge" -> "badCard" [] OTHER -> "missing"

SelectFails(t) ==
  /\ pc[t] = "select" /\ StatementFails
  /\ req[t].op = "confirm" => req[t].n = 0
  /\ n' = [n EXCEPT ![t] = 0]
  /\ Reply(t, NoRows(req[t].op))
  /\ UNCHANGED <<req, rows, bought, old, history>>

(* The loop reads presult[1] through NULL, and the process dies.           *)
ConfirmFails(t) ==
  /\ pc[t] = "select" /\ StatementFails
  /\ req[t].op = "confirm" /\ req[t].n > 0
  /\ Crash

(* The card leaves in the reply and stays for sale. *)
SellFails(t, c) ==
  /\ pc[t] = "sell" /\ n[t] > 0 /\ IsNext(t, c) /\ StatementFails
  /\ rows' = [rows EXCEPT ![t] = @ \ {c}]
  /\ n' = [n EXCEPT ![t] = @ - 1]
  /\ bought' = [bought EXCEPT ![t] = @ \union {c}]
  /\ failed' = TRUE
  /\ UNCHANGED <<pc, req, old, answer, marked, delivered, credits, oks,
                 paid, rounding, overlapped, torn, unpaid>>

BalanceFails(t) ==
  /\ pc[t] = "balance" /\ StatementFails
  /\ Reply(t, "noTel")
  /\ UNCHANGED <<req, rows, n, bought, old, history>>

(* The card will be marked and answered as if it had been credited.        *)
CreditFails(t) ==
  /\ pc[t] = "credit" /\ StatementFails
  /\ Goto(t, "mark")
  /\ unpaid' = [unpaid EXCEPT ![req[t].card] = @ + 1] /\ failed' = TRUE
  /\ UNCHANGED <<req, rows, n, bought, old, answer, marked, delivered, credits,
                 oks, paid, rounding, overlapped, torn>>

(* The card is credited, answered, and can be used again. *)
MarkFails(t) ==
  /\ pc[t] = "mark" /\ StatementFails
  /\ Reply(t, "ok")
  /\ failed' = TRUE
  /\ UNCHANGED <<req, rows, n, bought, old, marked, delivered, credits, oks,
                 paid, rounding, overlapped, torn, unpaid>>

FailStep(t) ==
  \/ SelectFails(t) \/ BalanceFails(t) \/ CreditFails(t) \/ MarkFails(t)
  \/ \E c \in Cards : SellFails(t, c)

ThreadStep(t) ==
  \/ \E r \in Requests : Begin(t, r)
  \/ AskSelect(t) \/ Enquire(t)
  \/ ConfirmSelect(t)
  \/ \E c \in Cards : Sell(t, c)
  \/ SellOverrun(t) \/ SellDone(t)
  \/ RechargeSelect(t) \/ RechargeBalance(t) \/ RechargeCredit(t)
  \/ RechargeMark(t)
  \/ Post(t)

Next ==
  \/ \E t \in Threads : ThreadStep(t)
  \/ \E t \in Threads : FailStep(t)
  \/ Restart \/ \E t \in Threads : ConfirmFails(t)

Spec == Init /\ [][Next]_vars

-----------------------------------------------------------------------------
(* The variables keep their types; above all, an enquiry before a purchase *)
(* never announces more cards than the table has.                          *)
TypeOK ==
  /\ state \in [Cards -> 0 .. 2]
  /\ balance \in [Tels -> Nat]
  /\ pc \in [Threads -> {"idle", "select", "sell", "balance", "credit",
                         "mark", "post"}]
  /\ req \in [Threads -> Requests \union {NoRequest}]
  /\ rows \in [Threads -> SUBSET Cards]
  /\ n \in [Threads -> Nat]
  /\ \A t \in Threads : answer[t] = "count" => n[t] <= NCards
  /\ bought \in [Threads -> SUBSET (Cards \union {NoCard})]
  /\ old \in [Threads -> Nat]
  /\ answer \in [Threads -> {"none", "count", "sold", "badCard", "used",
                             "noTel", "ok", "found", "missing"}]
  /\ left \in Nat /\ restarts \in Nat /\ failures \in Nat
  /\ marked \subseteq Cards
  /\ delivered \in [Cards \union {NoCard} -> Nat]
  /\ credits \in [Cards -> Nat]
  /\ oks \in [Cards -> Nat]
  /\ paid \in [Tels -> Nat] /\ rounding \in [Tels -> Nat]
  /\ overlapped \in BOOLEAN /\ torn \in BOOLEAN
  /\ unpaid \in [Cards -> Nat] /\ failed \in BOOLEAN

(* A race loses money and never makes any: a balance is at most what it was *)
(* at the start, what was credited to this telephone since, and what two   *)
(* roundings of each of its recharges may have added, however old the      *)
(* balance was that a recharge added its card to.                          *)
NoMoneyFromNowhere ==
  \A tel \in Tels :
    balance[tel] <= Initial[tel] + paid[tel] + rounding[tel]

(* How often a thread took card c for credited: get_data does not say      *)
(* whether the update succeeded (singleton.cpp:43).                        *)
Booked(c) == credits[c] + unpaid[c]

(* A card is credited only after a purchase has sold it, and is never used *)
(* up without an update that credits it, which may have failed, whatever   *)
(* interleaves or crashes and whichever statements fail.                   *)
SoldCreditedUsed ==
  \A c \in Cards :
    /\ Booked(c) > 0 => c \in marked
    /\ state[c] = 2 => Booked(c) > 0

(* Threads that have credited card c and have not told the client yet.     *)
Owing(c) ==
  {t \in Threads : /\ req[t].op = "recharge" /\ req[t].card = c
                   /\ pc[t] = "mark" \/ answer[t] = "ok"}

(* Every update that credits a card is answered with one "ok", whether it  *)
(* failed or not, and nothing else is; only a crash between the update and *)
(* the reply loses an answer.                                              *)
CreditsAreAnswered ==
  \A c \in Cards :
    /\ oks[c] + Cardinality(Owing(c)) <= Booked(c)
    /\ ~torn => oks[c] + Cardinality(Owing(c)) = Booked(c)

(* A card that is no longer for sale is in a reply, sent or being filled,  *)
(* unless a crash lost that reply: no card is taken off the shelf for      *)
(* nobody.                                                                 *)
NoCardVanishes ==
  \A c \in Cards :
    state[c] # 0 => \/ delivered[c] > 0
                    \/ \E t \in Threads : c \in bought[t]
                    \/ torn

(* A credited card counts as used before its own update says so. *)
Ledger == INSTANCE CardLedger
            WITH status <- [c \in Cards |->
                              IF \E t \in Threads : pc[t] = "mark"
                                                    /\ req[t].card = c
                                THEN 2 ELSE state[c]]

(* Until two threads first overlap inside their statements, a crash tears  *)
(* one open, or an update fails, every statement is a step of the ledger:  *)
(* a card is sold once and used once, and its value reaches one balance,   *)
(* but for two roundings.  A select that fails breaks nothing.             *)
LedgerUntilOverlap ==
  [][overlapped' \/ torn' \/ failed' \/ Ledger!Next
                 \/ UNCHANGED Ledger!vars]_vars

-----------------------------------------------------------------------------
(* What comments of the code say, and the code does not do.                *)

(* UnicomMini.sql:17: state 0 is "not bought", 1 "bought": a card that was *)
(* bought is not sold again.                                               *)
CardIsSoldOnce == \A c \in Cards : delivered[c] <= 1

(* public.h:72: a card that was recharged is answered "3, already".        *)
CardIsCreditedOnce == \A c \in Cards : credits[c] <= 1
=============================================================================
