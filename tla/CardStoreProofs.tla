-------------------------- MODULE CardStoreProofs --------------------------
(***************************************************************************)
(* Proofs about CardStore, for every number of threads, cards and          *)
(* telephones and every bound on requests, crashes and failing statements. *)
(***************************************************************************)
EXTENDS CardStore, FiniteSetTheorems, TLAPS

(* What a thread in the middle of a recharge knows for good: its card was  *)
(* sold, its telephone exists, and the balance it read, however stale, is  *)
(* covered by what was credited and what the roundings added; before it    *)
(* marks its card an update that credits it was run.                       *)
RechargeInv(t) ==
  /\ pc[t] \in {"balance", "credit", "mark"} =>
       req[t] \in Recharges /\ req[t].card \in marked
  /\ pc[t] \in {"credit", "mark"} => req[t].tel \in Tels
  /\ pc[t] = "credit" =>
       old[t] <= Initial[req[t].tel] + paid[req[t].tel] + rounding[req[t].tel]
  /\ pc[t] = "mark" => Booked(req[t].card) > 0

(* A thread fills its reply only in the loop and keeps it until it posts.  *)
ReplyInv(t) ==
  /\ bought[t] # {} => pc[t] \in {"sell", "post"}
  /\ answer[t] # "none" => pc[t] = "post"
  /\ pc[t] = "sell" => req[t] \in Purchases
  /\ answer[t] = "ok" => req[t] \in Recharges

(* A card was sold if and only if it is not for sale: no update ever puts  *)
(* one back.                                                               *)
MarkedInv == \A c \in Cards : c \in marked <=> state[c] # 0

(* A thread runs its next statement, which succeeds or fails. *)
Step(t) == ThreadStep(t) \/ FailStep(t)

(* The inductive invariant. *)
IInv ==
  /\ TypeOK
  /\ \A t \in Threads : RechargeInv(t) /\ ReplyInv(t)
  /\ MarkedInv
  /\ NoMoneyFromNowhere
  /\ SoldCreditedUsed
  /\ NoCardVanishes

-----------------------------------------------------------------------------
(* The fields of the requests. *)
LEMMA RequestFields ==
  /\ \A r \in Requests : r.op = "recharge" => r \in Recharges
  /\ \A r \in Recharges : /\ r.card \in Cards \union {NoCard}
                          /\ r.tel \in Tels \union {NoTel}
  /\ \A r \in Requests : r.op \in {"ask", "confirm"} => r \in Purchases
  /\ \A r \in Purchases : r.n \in Nat /\ r.op # "recharge"
BY StoreAssumption DEF StoreAssumption, Requests, Recharges, Purchases

(* A rounded number is a natural number, and no more than Error above.     *)
LEMMA Rounded ==
  ASSUME NEW x \in Nat
  PROVE  /\ Error(x) \in Nat
         /\ \A m \in Near(x) : m \in Nat /\ m <= x + Error(x)
<1>1. x \div Precision \in Nat
  BY FloatAssumption DEF FloatAssumption
<1>2. Error(x) \in Nat
  BY <1>1 DEF Error
<1> QED
  BY <1>2 DEF Near

(* An answered number of cards is never more than there are cards. *)
LEMMA CountBound ==
  ASSUME NEW m, NEW k \in Nat
  PROVE  /\ Smaller(Cardinality(ForSale(m)), k) \in Nat
         /\ Smaller(Cardinality(ForSale(m)), k) <= NCards
<1>1. /\ IsFiniteSet(Cards) /\ Cardinality(Cards) = NCards
      /\ NCards \in Nat
  BY FS_Interval, StoreAssumption DEF StoreAssumption, Cards
<1>2. ForSale(m) \in SUBSET Cards
  BY DEF ForSale, Having
<1>3. IsFiniteSet(ForSale(m)) /\ Cardinality(ForSale(m)) <= NCards
  BY <1>1, <1>2, FS_Subset
<1>4. Cardinality(ForSale(m)) \in Nat
  BY <1>3, FS_CardinalityType
<1> QED
  BY <1>1, <1>3, <1>4 DEF Smaller

-----------------------------------------------------------------------------
LEMMA TypeInit == Init => TypeOK
<1> SUFFICES ASSUME Init PROVE TypeOK
  OBVIOUS
<1> USE StoreAssumption DEF StoreAssumption, Init
<1>1. overlapped \in BOOLEAN /\ torn \in BOOLEAN /\ failed \in BOOLEAN
  OBVIOUS
<1>2. req \in [Threads -> Requests \union {NoRequest}]
  OBVIOUS
<1>3. /\ state \in [Cards -> 0 .. 2] /\ balance \in [Tels -> Nat]
      /\ n \in [Threads -> Nat] /\ old \in [Threads -> Nat]
      /\ delivered \in [Cards \union {NoCard} -> Nat]
      /\ credits \in [Cards -> Nat] /\ oks \in [Cards -> Nat]
      /\ paid \in [Tels -> Nat] /\ unpaid \in [Cards -> Nat]
      /\ rounding \in [Tels -> Nat]
  OBVIOUS
<1>4. /\ rows \in [Threads -> SUBSET Cards]
      /\ bought \in [Threads -> SUBSET (Cards \union {NoCard})]
      /\ marked \subseteq Cards
  OBVIOUS
<1>5. /\ pc \in [Threads -> {"idle", "select", "sell", "balance", "credit",
                              "mark", "post"}]
      /\ answer \in [Threads -> {"none", "count", "sold", "badCard", "used",
                                 "noTel", "ok", "found", "missing"}]
      /\ \A t \in Threads : answer[t] = "count" => n[t] <= NCards
      /\ left \in Nat /\ restarts \in Nat /\ failures \in Nat
  OBVIOUS
<1> QED
  BY <1>1, <1>2, <1>3, <1>4, <1>5 DEF TypeOK

(* Every step keeps the types: above all, what the threads index with is   *)
(* in the table indexed.                                                   *)
LEMMA TypeNext ==
  ASSUME TypeOK, \A t \in Threads : RechargeInv(t) /\ ReplyInv(t),
         [Next]_vars
  PROVE  TypeOK'
<1> USE StoreAssumption
    DEF StoreAssumption, TypeOK, Goto, Reply, database, locals, bounds,
        history, faults
<1>1. ASSUME NEW t \in Threads, NEW r \in Requests, Begin(t, r)
      PROVE  TypeOK'
  <2>1. /\ pc' \in [Threads -> {"idle", "select", "sell", "balance", "credit",
                                "mark", "post"}]
        /\ req' \in [Threads -> Requests \union {NoRequest}]
    BY <1>1 DEF Begin
  <2>2. left' \in Nat
    BY <1>1 DEF Begin
  <2> QED
    BY <1>1, <2>1, <2>2 DEF Begin
<1>2. ASSUME NEW t \in Threads, AskSelect(t) PROVE TypeOK'
  <2>1. req[t] \in Purchases /\ req[t].n \in Nat
    BY <1>2, RequestFields DEF AskSelect, NoRequest
  <2> DEFINE k == Smaller(Cardinality(ForSale(req[t].money)), req[t].n)
  <2>2. k \in Nat /\ k <= NCards
    BY <2>1, CountBound
  <2>3. n' = [n EXCEPT ![t] = k] /\ answer' = [answer EXCEPT ![t] = "count"]
        /\ pc' = [pc EXCEPT ![t] = "post"]
    BY <1>2 DEF AskSelect
  <2> HIDE DEF k
  <2>4. n' \in [Threads -> Nat]
        /\ \A u \in Threads : answer'[u] = "count" => n'[u] <= NCards
    BY <2>2, <2>3
  <2> QED
    BY <1>2, <2>3, <2>4 DEF AskSelect
<1>3. ASSUME NEW t \in Threads, ConfirmSelect(t) PROVE TypeOK'
  <2>1. req[t] \in Purchases /\ req[t].n \in Nat
    BY <1>3, RequestFields DEF ConfirmSelect, NoRequest
  <2>2. ForSale(req[t].money) \in SUBSET Cards
    BY DEF ForSale, Having
  <2>3. answer[t] # "count"
    BY <1>3 DEF ConfirmSelect, ReplyInv
  <2>4. n' = [n EXCEPT ![t] = req[t].n] /\ pc' = [pc EXCEPT ![t] = "sell"]
        /\ rows' = [rows EXCEPT ![t] = ForSale(req[t].money)]
    BY <1>3 DEF ConfirmSelect, Enter
  <2>5. overlapped' \in BOOLEAN
    BY <1>3 DEF ConfirmSelect, Enter
  <2> QED
    BY <1>3, <2>1, <2>2, <2>3, <2>4, <2>5 DEF ConfirmSelect
<1>4. ASSUME NEW t \in Threads, NEW c \in Cards, Sell(t, c) PROVE TypeOK'
  <2>1. n' = [n EXCEPT ![t] = n[t] - 1] /\ n[t] - 1 \in Nat
    BY <1>4 DEF Sell
  <2>2. state' \in [Cards -> 0 .. 2] /\ marked' \subseteq Cards
    BY <1>4 DEF Sell
  <2>3. /\ rows' \in [Threads -> SUBSET Cards]
        /\ bought' \in [Threads -> SUBSET (Cards \union {NoCard})]
    BY <1>4 DEF Sell
  <2> QED
    BY <1>4, <2>1, <2>2, <2>3 DEF Sell
<1>5. ASSUME NEW t \in Threads, SellOverrun(t) PROVE TypeOK'
  <2>1. n' = [n EXCEPT ![t] = n[t] - 1] /\ n[t] - 1 \in Nat
    BY <1>5 DEF SellOverrun
  <2>2. bought' \in [Threads -> SUBSET (Cards \union {NoCard})]
    BY <1>5 DEF SellOverrun
  <2> QED
    BY <1>5, <2>1, <2>2 DEF SellOverrun
<1>6. ASSUME NEW t \in Threads, SellDone(t) PROVE TypeOK'
  BY <1>6 DEF SellDone
<1>7. ASSUME NEW t \in Threads, RechargeSelect(t) PROVE TypeOK'
  <2>1. /\ pc' \in [Threads -> {"idle", "select", "sell", "balance", "credit",
                                "mark", "post"}]
        /\ answer' \in [Threads -> {"none", "count", "sold", "badCard", "used",
                                    "noTel", "ok", "found", "missing"}]
        /\ \A u \in Threads : answer'[u] = "count" => n'[u] <= NCards
    BY <1>7 DEF RechargeSelect, Enter
  <2>2. overlapped' \in BOOLEAN
    BY <1>7 DEF RechargeSelect, Enter
  <2> QED
    BY <1>7, <2>1, <2>2 DEF RechargeSelect
<1>8. ASSUME NEW t \in Threads, RechargeBalance(t) PROVE TypeOK'
  <2>1. req[t] \in Recharges /\ req[t].tel \in Tels \union {NoTel}
    BY <1>8, RequestFields DEF RechargeBalance, RechargeInv
  <2>2. CASE req[t].tel = NoTel
    BY <1>8, <2>2 DEF RechargeBalance
  <2>3. CASE req[t].tel # NoTel
    <3> DEFINE x == balance[req[t].tel]
    <3>1. x \in Nat
      BY <2>1, <2>3
    <3>2. PICK m \in Near(x) : old' = [old EXCEPT ![t] = m]
      BY <1>8, <2>3 DEF RechargeBalance
    <3>3. rounding' = [rounding EXCEPT ![req[t].tel] = @ + Error(x)]
      BY <1>8, <2>3 DEF RechargeBalance, Round
    <3> HIDE DEF x
    <3>4. old' \in [Threads -> Nat] /\ rounding' \in [Tels -> Nat]
      BY <2>1, <2>3, <3>1, <3>2, <3>3, Rounded
    <3> QED
      BY <1>8, <2>3, <3>4 DEF RechargeBalance
  <2> QED
    BY <2>2, <2>3
<1>9. ASSUME NEW t \in Threads, RechargeCredit(t) PROVE TypeOK'
  <2>1. /\ req[t] \in Recharges /\ req[t].card \in Cards
        /\ req[t].tel \in Tels
    BY <1>9 DEF RechargeCredit, RechargeInv
  <2>2. Value[req[t].card] \in Nat /\ old[t] \in Nat
    BY <2>1
  <2>3. credits' \in [Cards -> Nat] /\ paid' \in [Tels -> Nat]
    BY <1>9, <2>1, <2>2 DEF RechargeCredit
  <2> DEFINE x == old[t] + Value[req[t].card]
  <2>4. x \in Nat
    BY <2>2
  <2>5. PICK m \in Near(x) : balance' = [balance EXCEPT ![req[t].tel] = m]
    BY <1>9 DEF RechargeCredit
  <2>6. rounding' = [rounding EXCEPT ![req[t].tel] = @ + Error(x)]
    BY <1>9 DEF RechargeCredit, Round
  <2> HIDE DEF x
  <2>7. balance' \in [Tels -> Nat] /\ rounding' \in [Tels -> Nat]
    BY <2>1, <2>4, <2>5, <2>6, Rounded
  <2> QED
    BY <1>9, <2>3, <2>7 DEF RechargeCredit
<1>10. ASSUME NEW t \in Threads, RechargeMark(t) PROVE TypeOK'
  <2>1. state' = [state EXCEPT ![req[t].card] = 2] /\ req[t].card \in Cards
    BY <1>10 DEF RechargeMark, RechargeInv
  <2>2. state' \in [Cards -> 0 .. 2]
    BY <2>1
  <2> QED
    BY <1>10, <2>2 DEF RechargeMark
<1>11. ASSUME NEW t \in Threads, Enquire(t) PROVE TypeOK'
  BY <1>11 DEF Enquire
<1>12. ASSUME NEW t \in Threads, Post(t) PROVE TypeOK'
  <2>1. /\ delivered' \in [Cards \union {NoCard} -> Nat]
        /\ oks' \in [Cards -> Nat]
    BY <1>12 DEF Post
  <2>2. /\ req' \in [Threads -> Requests \union {NoRequest}]
        /\ rows' \in [Threads -> SUBSET Cards]
        /\ bought' \in [Threads -> SUBSET (Cards \union {NoCard})]
    BY <1>12 DEF Post, Forget
  <2> QED
    BY <1>12, <2>1, <2>2 DEF Post, Forget
<1>13. ASSUME Crash, failures' \in Nat, restarts' \in Nat PROVE TypeOK'
  <2>1. torn' \in BOOLEAN
    BY <1>13 DEF Crash
  <2>2. /\ req' \in [Threads -> Requests \union {NoRequest}]
        /\ rows' \in [Threads -> SUBSET Cards]
        /\ bought' \in [Threads -> SUBSET (Cards \union {NoCard})]
    BY <1>13 DEF Crash
  <2> QED
    BY <1>13, <2>1, <2>2 DEF Crash
<1>14. ASSUME Restart PROVE TypeOK'
  BY <1>13, <1>14 DEF Restart
<1>15. ASSUME StatementFails
       PROVE  failures' \in Nat /\ UNCHANGED <<database, left, restarts>>
  BY <1>15 DEF StatementFails
<1>16. ASSUME NEW t \in Threads, ConfirmFails(t) PROVE TypeOK'
  <2>1. failures' \in Nat /\ restarts' \in Nat /\ Crash
    BY <1>15, <1>16 DEF ConfirmFails
  <2> QED
    BY <1>13, <2>1
<1>17. ASSUME NEW t \in Threads, SelectFails(t) PROVE TypeOK'
  <2>1. failures' \in Nat /\ UNCHANGED <<database, left, restarts>>
    BY <1>15, <1>17 DEF SelectFails
  <2>2. NoRows(req[t].op) \in {"count", "sold", "badCard", "missing"}
    BY DEF NoRows
  <2>3. /\ n' = [n EXCEPT ![t] = 0] /\ pc' = [pc EXCEPT ![t] = "post"]
        /\ answer' = [answer EXCEPT ![t] = NoRows(req[t].op)]
        /\ UNCHANGED <<req, rows, bought, old, history>>
    BY <1>17 DEF SelectFails
  <2>4. /\ n' \in [Threads -> Nat]
        /\ answer' \in [Threads -> {"none", "count", "sold", "badCard", "used",
                                    "noTel", "ok", "found", "missing"}]
        /\ \A u \in Threads : answer'[u] = "count" => n'[u] <= NCards
    BY <2>2, <2>3
  <2> QED
    BY <2>1, <2>3, <2>4
<1>18. ASSUME NEW t \in Threads, NEW c \in Cards, SellFails(t, c)
       PROVE  TypeOK'
  <2>1. failures' \in Nat /\ UNCHANGED <<database, left, restarts>>
    BY <1>15, <1>18 DEF SellFails
  <2>2. n' = [n EXCEPT ![t] = n[t] - 1] /\ n[t] - 1 \in Nat
    BY <1>18 DEF SellFails
  <2>3. /\ rows' \in [Threads -> SUBSET Cards]
        /\ bought' \in [Threads -> SUBSET (Cards \union {NoCard})]
    BY <1>18 DEF SellFails
  <2> QED
    BY <1>18, <2>1, <2>2, <2>3 DEF SellFails
<1>19. ASSUME NEW t \in Threads, BalanceFails(t) PROVE TypeOK'
  <2>1. failures' \in Nat /\ UNCHANGED <<database, left, restarts>>
    BY <1>15, <1>19 DEF BalanceFails
  <2> QED
    BY <1>19, <2>1 DEF BalanceFails
<1>20. ASSUME NEW t \in Threads, CreditFails(t) PROVE TypeOK'
  <2>1. failures' \in Nat /\ UNCHANGED <<database, left, restarts>>
    BY <1>15, <1>20 DEF CreditFails
  <2>2. req[t].card \in Cards
    BY <1>20 DEF CreditFails, RechargeInv
  <2>3. unpaid' \in [Cards -> Nat]
    BY <1>20, <2>2 DEF CreditFails
  <2> QED
    BY <1>20, <2>1, <2>3 DEF CreditFails
<1>21. ASSUME NEW t \in Threads, MarkFails(t) PROVE TypeOK'
  <2>1. failures' \in Nat /\ UNCHANGED <<database, left, restarts>>
    BY <1>15, <1>21 DEF MarkFails
  <2> QED
    BY <1>21, <2>1 DEF MarkFails
<1>22. ASSUME UNCHANGED vars PROVE TypeOK'
  BY <1>22 DEF vars
<1>23. ASSUME NEW t \in Threads, ThreadStep(t) PROVE TypeOK'
  BY <1>1, <1>2, <1>3, <1>4, <1>5, <1>6, <1>7, <1>8, <1>9, <1>10, <1>11,
     <1>12, <1>23
  DEF ThreadStep
<1> QED
  BY <1>14, <1>16, <1>17, <1>18, <1>19, <1>20, <1>21, <1>22, <1>23
  DEF Next, FailStep

-----------------------------------------------------------------------------
(* The other threads: a step of thread t changes only t's own variables.   *)
LEMMA OthersUnchanged ==
  ASSUME TypeOK, NEW t \in Threads, Step(t), NEW u \in Threads, u # t
  PROVE  /\ pc'[u] = pc[u] /\ req'[u] = req[u] /\ old'[u] = old[u]
         /\ bought'[u] = bought[u] /\ answer'[u] = answer[u]
<1> USE DEF TypeOK, Goto, Reply, Enter, Forget
<1>1. ASSUME NEW r \in Requests, Begin(t, r)
      PROVE  /\ pc'[u] = pc[u] /\ req'[u] = req[u]
             /\ UNCHANGED <<old, bought, answer>>
  BY <1>1 DEF Begin, history
<1>2. ASSUME AskSelect(t) \/ Enquire(t) \/ SellDone(t) \/ RechargeMark(t)
      PROVE  /\ pc'[u] = pc[u] /\ answer'[u] = answer[u]
             /\ UNCHANGED <<req, old, bought>>
  BY <1>2 DEF AskSelect, Enquire, SellDone, RechargeMark
<1>3. ASSUME ConfirmSelect(t)
      PROVE  pc'[u] = pc[u] /\ UNCHANGED <<req, old, bought, answer>>
  BY <1>3 DEF ConfirmSelect
<1>4. ASSUME (\E c \in Cards : Sell(t, c)) \/ SellOverrun(t)
      PROVE  bought'[u] = bought[u] /\ UNCHANGED <<pc, req, old, answer>>
  BY <1>4 DEF Sell, SellOverrun
<1>5. ASSUME RechargeSelect(t)
      PROVE  /\ pc'[u] = pc[u] /\ answer'[u] = answer[u]
             /\ UNCHANGED <<req, old, bought>>
  BY <1>5 DEF RechargeSelect
<1>6. ASSUME RechargeBalance(t)
      PROVE  /\ pc'[u] = pc[u] /\ answer'[u] = answer[u] /\ old'[u] = old[u]
             /\ UNCHANGED <<req, bought>>
  BY <1>6 DEF RechargeBalance
<1>7. ASSUME RechargeCredit(t)
      PROVE  pc'[u] = pc[u] /\ UNCHANGED <<req, old, bought, answer>>
  BY <1>7 DEF RechargeCredit
<1>8. ASSUME Post(t)
      PROVE  /\ pc'[u] = pc[u] /\ req'[u] = req[u] /\ old'[u] = old[u]
             /\ bought'[u] = bought[u] /\ answer'[u] = answer[u]
  BY <1>8 DEF Post
<1>9. ASSUME SelectFails(t) \/ BalanceFails(t) \/ MarkFails(t)
      PROVE  /\ pc'[u] = pc[u] /\ answer'[u] = answer[u]
             /\ UNCHANGED <<req, old, bought>>
  BY <1>9 DEF SelectFails, BalanceFails, MarkFails
<1>10. ASSUME CreditFails(t) \/ \E c \in Cards : SellFails(t, c)
       PROVE  /\ pc'[u] = pc[u] /\ bought'[u] = bought[u]
              /\ UNCHANGED <<req, old, answer>>
  BY <1>10 DEF CreditFails, SellFails
<1> QED
  BY <1>1, <1>2, <1>3, <1>4, <1>5, <1>6, <1>7, <1>8, <1>9, <1>10
  DEF Step, ThreadStep, FailStep

(* What a thread in the middle of a recharge relies on only grows.         *)
LEMMA HistoryGrows ==
  ASSUME IInv, NEW t \in Threads, Step(t)
  PROVE  /\ marked \subseteq marked'
         /\ \A c \in Cards : /\ credits[c] <= credits'[c]
                              /\ unpaid[c] <= unpaid'[c]
         /\ \A tel \in Tels : /\ paid[tel] <= paid'[tel]
                              /\ rounding[tel] <= rounding'[tel]
<1> USE DEF IInv, TypeOK
<1>1. ASSUME NEW c \in Cards, Sell(t, c)
      PROVE  /\ marked \subseteq marked'
             /\ UNCHANGED <<credits, unpaid, paid, rounding>>
  BY <1>1 DEF Sell, faults
<1>2. ASSUME RechargeCredit(t)
      PROVE  /\ marked' = marked /\ unpaid' = unpaid
             /\ \A c \in Cards : credits[c] <= credits'[c]
             /\ \A tel \in Tels : /\ paid[tel] <= paid'[tel]
                                  /\ rounding[tel] <= rounding'[tel]
  <2>1. Value[req[t].card] \in Nat /\ old[t] \in Nat
    BY <1>2, StoreAssumption DEF StoreAssumption, RechargeCredit, RechargeInv
  <2>2. /\ credits' = [credits EXCEPT ![req[t].card] = @ + 1]
        /\ paid' = [paid EXCEPT ![req[t].tel] = @ + Value[req[t].card]]
        /\ marked' = marked /\ unpaid' = unpaid
    BY <1>2 DEF RechargeCredit, faults
  <2>3. \A tel \in Tels : rounding[tel] <= rounding'[tel]
    <3> DEFINE x == old[t] + Value[req[t].card]
    <3>1. Error(x) \in Nat
      BY <2>1, Rounded
    <3>2. rounding' = [rounding EXCEPT ![req[t].tel] = @ + Error(x)]
      BY <1>2 DEF RechargeCredit, Round
    <3> HIDE DEF x
    <3> QED
      BY <3>1, <3>2
  <2> QED
    BY <2>1, <2>2, <2>3
<1>3. ASSUME ThreadStep(t), ~RechargeCredit(t), ~RechargeBalance(t),
             \A c \in Cards : ~Sell(t, c)
      PROVE  UNCHANGED <<marked, credits, unpaid, paid, rounding>>
  BY <1>3 DEF ThreadStep, Begin, AskSelect, Enquire, ConfirmSelect,
     SellOverrun, SellDone, RechargeSelect, RechargeMark,
     Post, history, faults
<1>4. ASSUME CreditFails(t)
      PROVE  /\ UNCHANGED <<marked, credits, paid, rounding>>
             /\ \A c \in Cards : unpaid[c] <= unpaid'[c]
  <2>1. /\ unpaid' = [unpaid EXCEPT ![req[t].card] = @ + 1]
        /\ UNCHANGED <<marked, credits, paid, rounding>>
    BY <1>4 DEF CreditFails
  <2> QED
    BY <2>1
<1>5. ASSUME FailStep(t), ~CreditFails(t)
      PROVE  UNCHANGED <<marked, credits, unpaid, paid, rounding>>
  BY <1>5 DEF FailStep, SelectFails, BalanceFails, MarkFails, SellFails,
     history, faults
<1>6. ASSUME RechargeBalance(t)
      PROVE  /\ UNCHANGED <<marked, credits, unpaid, paid>>
             /\ \A tel \in Tels : rounding[tel] <= rounding'[tel]
  <2>1. UNCHANGED <<marked, credits, unpaid, paid>>
    BY <1>6 DEF RechargeBalance, faults
  <2>2. CASE req[t].tel = NoTel
    <3>1. rounding' = rounding
      BY <1>6, <2>2 DEF RechargeBalance
    <3> QED
      BY <2>1, <3>1
  <2>3. CASE req[t].tel # NoTel
    <3> DEFINE x == balance[req[t].tel]
    <3>1. x \in Nat
      BY <1>6, <2>3, RequestFields DEF RechargeBalance, RechargeInv
    <3>2. Error(x) \in Nat
      BY <3>1, Rounded
    <3>3. rounding' = [rounding EXCEPT ![req[t].tel] = @ + Error(x)]
      BY <1>6, <2>3 DEF RechargeBalance, Round
    <3> HIDE DEF x
    <3> QED
      BY <2>1, <3>2, <3>3
  <2> QED
    BY <2>1, <2>2, <2>3
<1> QED
  BY <1>1, <1>2, <1>3, <1>4, <1>5, <1>6 DEF Step

(* A thread that does not step keeps what it knows.                        *)
LEMMA RechargeStays ==
  ASSUME IInv, NEW t \in Threads, Step(t), NEW u \in Threads, u # t
  PROVE  RechargeInv(u)'
<1>1. /\ pc'[u] = pc[u] /\ req'[u] = req[u] /\ old'[u] = old[u]
  BY OthersUnchanged DEF IInv
<1>2. RechargeInv(u) /\ TypeOK
  BY DEF IInv
<1>3. CASE pc[u] \in {"balance", "credit", "mark"}
  <2>1. req[u] \in Recharges /\ req[u].card \in marked
    BY <1>2, <1>3 DEF RechargeInv
  <2>2. req[u].card \in marked'
    BY <2>1, HistoryGrows
  <2>3. CASE pc[u] = "balance"
    BY <1>1, <2>1, <2>2, <2>3 DEF RechargeInv
  <2>4. CASE pc[u] = "credit"
    <3>1. /\ req[u].tel \in Tels
          /\ old[u] <= Initial[req[u].tel] + paid[req[u].tel]
                         + rounding[req[u].tel]
      BY <1>2, <2>4 DEF RechargeInv
    <3>2. /\ paid[req[u].tel] <= paid'[req[u].tel]
          /\ rounding[req[u].tel] <= rounding'[req[u].tel]
      BY <3>1, HistoryGrows
    <3>3. /\ paid[req[u].tel] \in Nat /\ old[u] \in Nat
          /\ Initial[req[u].tel] \in Nat /\ rounding[req[u].tel] \in Nat
      BY <1>2, <3>1, StoreAssumption DEF TypeOK, StoreAssumption
    <3>4. paid'[req[u].tel] \in Nat /\ rounding'[req[u].tel] \in Nat
      BY <1>2, <3>1, TypeNext DEF TypeOK, IInv, Next, Step
    <3>5. old[u] <= Initial[req[u].tel] + paid'[req[u].tel]
                      + rounding'[req[u].tel]
      BY <3>1, <3>2, <3>3, <3>4
    <3> QED
      BY <1>1, <2>1, <2>2, <2>4, <3>1, <3>5 DEF RechargeInv
  <2>5. CASE pc[u] = "mark"
    <3>1. req[u].tel \in Tels /\ Booked(req[u].card) > 0
      BY <1>2, <2>5 DEF RechargeInv
    <3>2. req[u].card \in Cards
      BY <1>2, <2>1 DEF TypeOK
    <3>3. /\ credits[req[u].card] <= credits'[req[u].card]
          /\ unpaid[req[u].card] <= unpaid'[req[u].card]
      BY <3>2, HistoryGrows
    <3>4. /\ credits[req[u].card] \in Nat /\ credits'[req[u].card] \in Nat
          /\ unpaid[req[u].card] \in Nat /\ unpaid'[req[u].card] \in Nat
      BY <1>2, <3>2, TypeNext DEF TypeOK, IInv, Next, Step
    <3>5. Booked(req[u].card)' > 0
      BY <1>1, <3>1, <3>3, <3>4 DEF Booked
    <3> QED
      BY <1>1, <2>1, <2>2, <2>5, <3>1, <3>5 DEF RechargeInv, Booked
  <2> QED
    BY <1>3, <2>3, <2>4, <2>5
<1>4. CASE pc[u] \notin {"balance", "credit", "mark"}
  BY <1>1, <1>4 DEF RechargeInv
<1> QED
  BY <1>3, <1>4

(* The thread that steps establishes it. *)
LEMMA RechargeStep ==
  ASSUME IInv, NEW t \in Threads, Step(t)
  PROVE  RechargeInv(t)'
<1>0. TypeOK /\ RechargeInv(t) /\ MarkedInv /\ NoMoneyFromNowhere
  BY DEF IInv
<1> USE DEF TypeOK, Goto, Reply, Enter, Forget, RechargeInv
<1>1. ASSUME NEW r \in Requests, Begin(t, r) PROVE RechargeInv(t)'
  <2>1. pc[t] = "idle" /\ (pc'[t] = "idle" \/ pc'[t] = "select")
    BY <1>0, <1>1 DEF Begin
  <2> QED
    BY <2>1
<1>2. ASSUME AskSelect(t) \/ Enquire(t) \/ SellDone(t) \/ RechargeMark(t)
      PROVE  RechargeInv(t)'
  <2>1. pc'[t] = "post"
    BY <1>0, <1>2 DEF AskSelect, Enquire, SellDone, RechargeMark
  <2> QED
    BY <2>1
<1>3. ASSUME ConfirmSelect(t) PROVE RechargeInv(t)'
  <2>1. pc'[t] = "sell"
    BY <1>0, <1>3 DEF ConfirmSelect
  <2> QED
    BY <2>1
<1>4. ASSUME (\E c \in Cards : Sell(t, c)) \/ SellOverrun(t)
      PROVE  RechargeInv(t)'
  <2>1. pc'[t] = "sell"
    BY <1>0, <1>4 DEF Sell, SellOverrun
  <2> QED
    BY <2>1
<1>5. ASSUME RechargeSelect(t) PROVE RechargeInv(t)'
  <2>1. CASE req[t].card \in Having(1)
    <3>1. /\ pc'[t] \in {"balance", "post"} /\ req' = req /\ marked' = marked
      BY <1>0, <1>5 DEF RechargeSelect
    <3>2. req[t] \in Recharges
      BY <1>0, <1>5, RequestFields DEF RechargeSelect, NoRequest
    <3>3. req[t].card \in marked
      BY <1>0, <2>1 DEF Having, MarkedInv
    <3> QED
      BY <3>1, <3>2, <3>3
  <2>2. CASE req[t].card \notin Having(1)
    <3>1. pc'[t] = "post"
      BY <1>0, <1>5, <2>2 DEF RechargeSelect
    <3> QED
      BY <3>1
  <2> QED
    BY <2>1, <2>2
<1>6. ASSUME RechargeBalance(t) PROVE RechargeInv(t)'
  <2>0. /\ req' = req /\ marked' = marked /\ paid' = paid
        /\ req[t] \in Recharges /\ req[t].card \in marked
    BY <1>0, <1>6 DEF RechargeBalance
  <2>1. CASE req[t].tel = NoTel
    <3>1. pc'[t] = "post"
      BY <1>0, <1>6, <2>1 DEF RechargeBalance
    <3> QED
      BY <3>1
  <2>2. CASE req[t].tel # NoTel
    <3> DEFINE tel == req[t].tel
    <3>1. pc'[t] = "credit" /\ old'[t] \in Near(balance[tel])
      BY <1>0, <1>6, <2>2 DEF RechargeBalance
    <3>2. tel \in Tels
      BY <2>0, <2>2, RequestFields
    <3>3. balance[tel] <= Initial[tel] + paid[tel] + rounding[tel]
      BY <1>0, <3>2 DEF NoMoneyFromNowhere
    <3>4. rounding'[tel] = rounding[tel] + Error(balance[tel])
      BY <1>0, <1>6, <2>2, <3>2 DEF RechargeBalance, Round
    <3>5. /\ balance[tel] \in Nat /\ paid[tel] \in Nat
          /\ rounding[tel] \in Nat /\ Initial[tel] \in Nat
      BY <1>0, <3>2, StoreAssumption DEF StoreAssumption
    <3>6. /\ old'[t] \in Nat /\ old'[t] <= balance[tel] + Error(balance[tel])
          /\ Error(balance[tel]) \in Nat
      BY <3>1, <3>5, Rounded
    <3>7. old'[t] <= Initial[tel] + paid[tel] + rounding'[tel]
      BY <3>3, <3>4, <3>5, <3>6
    <3> QED
      BY <2>0, <3>1, <3>2, <3>7
  <2> QED
    BY <2>1, <2>2
<1>7. ASSUME RechargeCredit(t) PROVE RechargeInv(t)'
  <2>1. /\ req[t] \in Recharges /\ req[t].card \in marked
        /\ req[t].card \in Cards /\ req[t].tel \in Tels
    BY <1>0, <1>7 DEF RechargeCredit
  <2>2. /\ credits' = [credits EXCEPT ![req[t].card] = @ + 1]
        /\ pc'[t] = "mark" /\ req' = req /\ marked' = marked
    BY <1>0, <1>7 DEF RechargeCredit
  <2>3. Booked(req[t].card)' > 0
    BY <1>0, <1>7, <2>1, <2>2 DEF Booked, RechargeCredit, faults
  <2> QED
    BY <2>1, <2>2, <2>3 DEF Booked
<1>8. ASSUME Post(t) PROVE RechargeInv(t)'
  <2>1. pc'[t] = "idle"
    BY <1>0, <1>8 DEF Post
  <2> QED
    BY <2>1
<1>9. ASSUME \/ SelectFails(t) \/ BalanceFails(t) \/ MarkFails(t)
             \/ \E c \in Cards : SellFails(t, c)
      PROVE  RechargeInv(t)'
  <2>1. pc'[t] \in {"post", "sell"}
    BY <1>0, <1>9 DEF SelectFails, BalanceFails, MarkFails, SellFails
  <2> QED
    BY <2>1
<1>10. ASSUME CreditFails(t) PROVE RechargeInv(t)'
  <2>1. /\ req[t] \in Recharges /\ req[t].card \in marked
        /\ req[t].card \in Cards /\ req[t].tel \in Tels
    BY <1>0, <1>10 DEF CreditFails
  <2>2. /\ unpaid' = [unpaid EXCEPT ![req[t].card] = @ + 1]
        /\ pc'[t] = "mark" /\ req' = req /\ marked' = marked
        /\ credits' = credits
    BY <1>0, <1>10 DEF CreditFails
  <2>3. Booked(req[t].card)' > 0
    BY <1>0, <2>1, <2>2 DEF Booked
  <2> QED
    BY <2>1, <2>2, <2>3 DEF Booked
<1> QED
  BY <1>1, <1>2, <1>3, <1>4, <1>5, <1>6, <1>7, <1>8, <1>9, <1>10
  DEF Step, ThreadStep, FailStep

(* The steps, and what a crash leaves, whatever brought it about. *)
LEMMA NextCases ==
  ASSUME [Next]_vars
  PROVE  (\E t \in Threads : Step(t)) \/ Crash \/ UNCHANGED vars
BY DEF Next, Step, Restart, ConfirmFails

LEMMA RechargeNext ==
  ASSUME IInv, [Next]_vars
  PROVE  \A u \in Threads : RechargeInv(u)'
<1>1. ASSUME NEW t \in Threads, Step(t), NEW u \in Threads
      PROVE  RechargeInv(u)'
  BY <1>1, RechargeStays, RechargeStep
<1>2. ASSUME Crash, NEW u \in Threads PROVE RechargeInv(u)'
  BY <1>2 DEF Crash, RechargeInv
<1>3. ASSUME UNCHANGED vars, NEW u \in Threads PROVE RechargeInv(u)'
  BY <1>3 DEF IInv, vars, locals, history, faults, RechargeInv, Booked
<1> QED
  BY <1>1, <1>2, <1>3, NextCases

(* The reply of a task is filled in the loop and leaves with it. *)
LEMMA ReplyStep ==
  ASSUME IInv, NEW t \in Threads, Step(t)
  PROVE  ReplyInv(t)'
<1>0. TypeOK /\ ReplyInv(t) /\ RechargeInv(t)
  BY DEF IInv
<1> USE DEF TypeOK, Goto, Reply, Enter, Forget, ReplyInv
<1>1. ASSUME NEW r \in Requests, Begin(t, r) PROVE ReplyInv(t)'
  <2>1. /\ bought'[t] = {} /\ answer'[t] = "none"
        /\ pc'[t] = "idle" \/ pc'[t] = "select"
    BY <1>0, <1>1 DEF Begin
  <2> QED
    BY <2>1
<1>2. ASSUME AskSelect(t) \/ Enquire(t) PROVE ReplyInv(t)'
  <2>1. /\ pc'[t] = "post" /\ bought'[t] = {}
        /\ answer'[t] \in {"count", "found", "missing"}
    BY <1>0, <1>2 DEF AskSelect, Enquire
  <2> QED
    BY <2>1
<1>3. ASSUME SellDone(t) PROVE ReplyInv(t)'
  <2>1. pc'[t] = "post" /\ answer'[t] = "sold"
    BY <1>0, <1>3 DEF SellDone
  <2> QED
    BY <2>1
<1>4. ASSUME RechargeMark(t) PROVE ReplyInv(t)'
  <2>1. pc'[t] = "post" /\ answer'[t] = "ok" /\ req'[t] = req[t]
    BY <1>0, <1>4 DEF RechargeMark
  <2>2. req[t] \in Recharges
    BY <1>0, <1>4 DEF RechargeMark, RechargeInv
  <2> QED
    BY <2>1, <2>2
<1>5. ASSUME ConfirmSelect(t) PROVE ReplyInv(t)'
  <2>1. /\ pc'[t] = "sell" /\ answer'[t] = "none" /\ req'[t] = req[t]
    BY <1>0, <1>5 DEF ConfirmSelect
  <2>2. req[t] \in Purchases
    BY <1>0, <1>5, RequestFields DEF ConfirmSelect, NoRequest
  <2> QED
    BY <2>1, <2>2
<1>6. ASSUME (\E c \in Cards : Sell(t, c)) \/ SellOverrun(t)
      PROVE  ReplyInv(t)'
  <2>1. /\ pc'[t] = "sell" /\ answer'[t] = answer[t] /\ req'[t] = req[t]
        /\ pc[t] = "sell"
    BY <1>0, <1>6 DEF Sell, SellOverrun
  <2> QED
    BY <1>0, <2>1
<1>7. ASSUME RechargeSelect(t) PROVE ReplyInv(t)'
  <2>1. /\ bought'[t] = {} /\ req'[t] = req[t]
        /\ \/ pc'[t] = "post" /\ answer'[t] \in {"badCard", "used"}
           \/ pc'[t] = "balance" /\ answer'[t] = "none"
    BY <1>0, <1>7 DEF RechargeSelect
  <2> QED
    BY <2>1
<1>8. ASSUME RechargeBalance(t) PROVE ReplyInv(t)'
  <2>1. /\ bought'[t] = {} /\ req'[t] = req[t]
        /\ \/ pc'[t] = "post" /\ answer'[t] = "noTel"
           \/ pc'[t] = "credit" /\ answer'[t] = "none"
    BY <1>0, <1>8 DEF RechargeBalance
  <2> QED
    BY <2>1
<1>9. ASSUME RechargeCredit(t) PROVE ReplyInv(t)'
  <2>1. bought'[t] = {} /\ answer'[t] = "none" /\ pc'[t] = "mark"
    BY <1>0, <1>9 DEF RechargeCredit
  <2> QED
    BY <2>1
<1>10. ASSUME Post(t) PROVE ReplyInv(t)'
  <2>1. bought'[t] = {} /\ answer'[t] = "none" /\ pc'[t] = "idle"
    BY <1>0, <1>10 DEF Post
  <2> QED
    BY <2>1
<1>11. ASSUME SelectFails(t) PROVE ReplyInv(t)'
  <2>1. NoRows(req[t].op) \in {"count", "sold", "badCard", "missing"}
    BY DEF NoRows
  <2>2. pc'[t] = "post" /\ answer'[t] = NoRows(req[t].op)
    BY <1>0, <1>11 DEF SelectFails
  <2> QED
    BY <2>1, <2>2
<1>12. ASSUME BalanceFails(t) PROVE ReplyInv(t)'
  <2>1. pc'[t] = "post" /\ answer'[t] = "noTel"
    BY <1>0, <1>12 DEF BalanceFails
  <2> QED
    BY <2>1
<1>13. ASSUME CreditFails(t) PROVE ReplyInv(t)'
  <2>1. bought'[t] = {} /\ answer'[t] = "none" /\ pc'[t] = "mark"
    BY <1>0, <1>13 DEF CreditFails
  <2> QED
    BY <2>1
<1>14. ASSUME MarkFails(t) PROVE ReplyInv(t)'
  <2>1. pc'[t] = "post" /\ answer'[t] = "ok" /\ req'[t] = req[t]
    BY <1>0, <1>14 DEF MarkFails
  <2>2. req[t] \in Recharges
    BY <1>0, <1>14 DEF MarkFails, RechargeInv
  <2> QED
    BY <2>1, <2>2
<1>15. ASSUME NEW c \in Cards, SellFails(t, c) PROVE ReplyInv(t)'
  <2>1. /\ pc'[t] = "sell" /\ answer'[t] = answer[t] /\ req'[t] = req[t]
        /\ pc[t] = "sell"
    BY <1>0, <1>15 DEF SellFails
  <2> QED
    BY <1>0, <2>1
<1> QED
  BY <1>1, <1>2, <1>3, <1>4, <1>5, <1>6, <1>7, <1>8, <1>9, <1>10, <1>11,
     <1>12, <1>13, <1>14, <1>15
  DEF Step, ThreadStep, FailStep

LEMMA ReplyNext ==
  ASSUME IInv, [Next]_vars
  PROVE  \A u \in Threads : ReplyInv(u)'
<1>1. ASSUME NEW t \in Threads, Step(t), NEW u \in Threads, u # t
      PROVE  ReplyInv(u)'
  BY <1>1, OthersUnchanged DEF IInv, ReplyInv
<1>2. ASSUME Crash, NEW u \in Threads PROVE ReplyInv(u)'
  BY <1>2 DEF Crash, ReplyInv
<1>3. ASSUME UNCHANGED vars, NEW u \in Threads PROVE ReplyInv(u)'
  BY <1>3 DEF IInv, vars, locals, ReplyInv
<1> QED
  BY <1>1, <1>2, <1>3, ReplyStep, NextCases

-----------------------------------------------------------------------------
(* The steps that touch the tables or what was sold; the others leave both *)
(* and every reply alone.                                                  *)
Touches(t) ==
  (\E c \in Cards : Sell(t, c)) \/ RechargeCredit(t) \/ RechargeMark(t)
    \/ Post(t) \/ SellOverrun(t)
    \/ CreditFails(t) \/ \E c \in Cards : SellFails(t, c)

LEMMA TouchesNothing ==
  ASSUME NEW t \in Threads, Step(t), ~Touches(t)
  PROVE  /\ UNCHANGED <<state, balance, marked, delivered, credits, oks, paid>>
         /\ UNCHANGED <<bought, torn, unpaid>>
<1>1. ASSUME ThreadStep(t)
      PROVE  /\ UNCHANGED <<database, marked, delivered, credits, oks, paid>>
             /\ UNCHANGED <<bought, torn, unpaid>>
  BY <1>1 DEF ThreadStep, Touches, Begin, AskSelect, Enquire, ConfirmSelect,
     SellDone, RechargeSelect, RechargeBalance, history, faults
<1>2. ASSUME FailStep(t)
      PROVE  /\ UNCHANGED <<database, marked, delivered, credits, oks, paid>>
             /\ UNCHANGED <<bought, torn, unpaid>>
  BY <1>2 DEF FailStep, Touches, SelectFails, BalanceFails, MarkFails,
     StatementFails, history, faults
<1> QED
  BY <1>1, <1>2 DEF Step, database

(* No sold card goes back on the shelf, and none vanishes.                 *)
LEMMA StockNext ==
  ASSUME IInv, [Next]_vars
  PROVE  MarkedInv' /\ NoCardVanishes'
<1>0. TypeOK /\ MarkedInv /\ NoCardVanishes
  BY DEF IInv
<1> USE DEF TypeOK, MarkedInv, NoCardVanishes
<1>1. ASSUME NEW t \in Threads, NEW c \in Cards, Sell(t, c)
      PROVE  MarkedInv' /\ NoCardVanishes'
  <2>1. /\ state' = [state EXCEPT ![c] = 1] /\ marked' = marked \union {c}
        /\ delivered' = delivered /\ torn' = torn
        /\ bought' = [bought EXCEPT ![t] = bought[t] \union {c}]
    BY <1>1 DEF Sell
  <2>2. c \in bought'[t] /\ \A u \in Threads : bought[u] \subseteq bought'[u]
    BY <1>0, <2>1
  <2> QED
    BY <1>0, <2>1, <2>2
<1>2. ASSUME NEW t \in Threads, SellOverrun(t)
      PROVE  MarkedInv' /\ NoCardVanishes'
  <2>1. /\ state' = state /\ marked' = marked
        /\ delivered' = delivered /\ torn' = torn
        /\ bought' = [bought EXCEPT ![t] = bought[t] \union {NoCard}]
    BY <1>2 DEF SellOverrun, database, history
  <2>2. \A u \in Threads : bought[u] \subseteq bought'[u]
    BY <1>0, <2>1
  <2> QED
    BY <1>0, <2>1, <2>2
<1>3. ASSUME NEW t \in Threads, RechargeCredit(t)
      PROVE  MarkedInv' /\ NoCardVanishes'
  BY <1>0, <1>3 DEF RechargeCredit
<1>4. ASSUME NEW t \in Threads, RechargeMark(t)
      PROVE  MarkedInv' /\ NoCardVanishes'
  <2>1. /\ state' = [state EXCEPT ![req[t].card] = 2] /\ marked' = marked
        /\ delivered' = delivered /\ torn' = torn /\ bought' = bought
    BY <1>4 DEF RechargeMark, history
  <2>2. req[t].card \in marked
    BY <1>4 DEF RechargeMark, IInv, RechargeInv
  <2>3. \A c \in Cards : state'[c] # 0 <=> state[c] # 0
    BY <1>0, <2>1, <2>2
  <2> QED
    BY <1>0, <2>1, <2>3
<1>5. ASSUME NEW t \in Threads, Post(t)
      PROVE  MarkedInv' /\ NoCardVanishes'
  <2>1. /\ state' = state /\ marked' = marked /\ torn' = torn
        /\ bought' = [bought EXCEPT ![t] = {}]
        /\ delivered' = [c \in Cards \union {NoCard} |->
                           delivered[c] + (IF c \in bought[t] THEN 1 ELSE 0)]
    BY <1>5 DEF Post, Forget, database
  <2>2. \A c \in Cards : /\ delivered[c] > 0 => delivered'[c] > 0
                         /\ c \in bought[t] => delivered'[c] > 0
    BY <1>0, <2>1
  <2>3. \A u \in Threads : u # t => bought'[u] = bought[u]
    BY <1>0, <2>1
  <2> QED
    BY <1>0, <2>1, <2>2, <2>3
<1>6. ASSUME NEW t \in Threads, Step(t), ~Touches(t)
      PROVE  MarkedInv' /\ NoCardVanishes'
  BY <1>0, <1>6, TouchesNothing
<1>7. ASSUME Crash PROVE MarkedInv' /\ NoCardVanishes'
  <2>1. /\ state' = state /\ marked' = marked /\ delivered' = delivered
        /\ torn' = (torn \/ \E t \in Threads : Inside(t) \/ pc[t] = "post")
    BY <1>7 DEF Crash, database
  <2>2. ASSUME NEW u \in Threads, bought[u] # {}
        PROVE  Inside(u) \/ pc[u] = "post"
    BY <2>2 DEF IInv, ReplyInv, Inside
  <2> QED
    BY <1>0, <2>1, <2>2
<1>8. ASSUME UNCHANGED vars PROVE MarkedInv' /\ NoCardVanishes'
  BY <1>0, <1>8 DEF vars, database, locals, history
<1>9. ASSUME NEW t \in Threads, CreditFails(t)
      PROVE  MarkedInv' /\ NoCardVanishes'
  BY <1>0, <1>9 DEF CreditFails, StatementFails, database
<1>10. ASSUME NEW t \in Threads, NEW c \in Cards, SellFails(t, c)
       PROVE  MarkedInv' /\ NoCardVanishes'
  <2>1. /\ state' = state /\ marked' = marked
        /\ delivered' = delivered /\ torn' = torn
        /\ bought' = [bought EXCEPT ![t] = bought[t] \union {c}]
    BY <1>10 DEF SellFails, StatementFails, database
  <2>2. \A u \in Threads : bought[u] \subseteq bought'[u]
    BY <1>0, <2>1
  <2> QED
    BY <1>0, <2>1, <2>2
<1> QED
  BY <1>1, <1>2, <1>3, <1>4, <1>5, <1>6, <1>7, <1>8, <1>9, <1>10, NextCases
  DEF Touches

(* A stale balance is still covered, so what is stored over it is.         *)
LEMMA MoneyNext ==
  ASSUME IInv, [Next]_vars
  PROVE  NoMoneyFromNowhere'
<1>0. TypeOK /\ NoMoneyFromNowhere
  BY DEF IInv
<1>1. ASSUME NEW t \in Threads, RechargeCredit(t) PROVE NoMoneyFromNowhere'
  <2> DEFINE tel == req[t].tel
             v == Value[req[t].card]
             x == old[t] + v
  <2>1. /\ req[t].card \in Cards /\ tel \in Tels
        /\ old[t] <= Initial[tel] + paid[tel] + rounding[tel]
    BY <1>0, <1>1 DEF RechargeCredit, RechargeInv, IInv, TypeOK
  <2>2. /\ v \in Nat /\ old[t] \in Nat
        /\ \A a \in Tels : /\ Initial[a] \in Nat /\ paid[a] \in Nat
                           /\ balance[a] \in Nat /\ rounding[a] \in Nat
    BY <1>0, <2>1, StoreAssumption DEF StoreAssumption, TypeOK
  <2>3. /\ \E m \in Near(x) : balance' = [balance EXCEPT ![tel] = m]
        /\ paid' = [paid EXCEPT ![tel] = paid[tel] + v]
        /\ rounding' = [rounding EXCEPT ![tel] = rounding[tel] + Error(x)]
    BY <1>1 DEF RechargeCredit, Round
  <2>4. x \in Nat /\ x = old[t] + v
    BY <2>2
  <2> HIDE DEF x, v, tel
  <2>5. PICK m \in Near(x) : balance' = [balance EXCEPT ![tel] = m]
    BY <2>3
  <2>6. m \in Nat /\ m <= x + Error(x) /\ Error(x) \in Nat
    BY <2>4, <2>5, Rounded
  <2>7. m <= Initial[tel] + (paid[tel] + v) + (rounding[tel] + Error(x))
    BY <2>1, <2>2, <2>4, <2>6
  <2>8. ASSUME NEW a \in Tels
        PROVE  balance'[a] <= Initial[a] + paid'[a] + rounding'[a]
    <3>1. CASE a = tel
      BY <1>0, <2>1, <2>3, <2>5, <2>7, <3>1 DEF TypeOK
    <3>2. CASE a # tel
      BY <1>0, <2>1, <2>3, <2>5, <3>2 DEF TypeOK, NoMoneyFromNowhere
    <3> QED
      BY <3>1, <3>2
  <2> QED
    BY <2>8 DEF NoMoneyFromNowhere
<1>2. ASSUME NEW t \in Threads, ThreadStep(t), ~RechargeCredit(t)
      PROVE  /\ UNCHANGED <<balance, paid>>
             /\ \A tel \in Tels : rounding[tel] <= rounding'[tel]
  <2>1. UNCHANGED <<balance, paid>>
    BY <1>2 DEF ThreadStep, Begin, AskSelect, Enquire, ConfirmSelect, Sell,
       SellOverrun, SellDone, RechargeSelect, RechargeBalance, RechargeMark,
       Post, database, history
  <2> QED
    BY <1>2, <2>1, HistoryGrows DEF Step
<1>3. ASSUME Crash \/ UNCHANGED vars
      PROVE  UNCHANGED <<balance, paid, rounding>>
  BY <1>3 DEF Crash, vars, database, history
<1>4. ASSUME NEW t \in Threads, FailStep(t)
      PROVE  UNCHANGED <<balance, paid, rounding>>
  BY <1>4 DEF FailStep, SelectFails, BalanceFails, CreditFails, MarkFails,
     SellFails, StatementFails, database, history
<1>5. ASSUME UNCHANGED <<balance, paid>>,
             \A tel \in Tels : rounding[tel] <= rounding'[tel]
      PROVE  NoMoneyFromNowhere'
  <2> SUFFICES ASSUME NEW tel \in Tels
               PROVE  balance'[tel] <=
                        Initial[tel] + paid'[tel] + rounding'[tel]
    BY DEF NoMoneyFromNowhere
  <2>1. /\ balance[tel] <= Initial[tel] + paid[tel] + rounding[tel]
        /\ balance'[tel] = balance[tel] /\ paid'[tel] = paid[tel]
        /\ rounding[tel] <= rounding'[tel]
    BY <1>0, <1>5 DEF NoMoneyFromNowhere
  <2>2. /\ balance[tel] \in Nat /\ paid[tel] \in Nat
        /\ rounding[tel] \in Nat /\ Initial[tel] \in Nat
    BY <1>0, StoreAssumption DEF TypeOK, StoreAssumption
  <2>3. rounding'[tel] \in Nat
    BY TypeNext DEF TypeOK, IInv
  <2> QED
    BY <2>1, <2>2, <2>3
<1>6. ASSUME UNCHANGED <<balance, paid, rounding>>
      PROVE  NoMoneyFromNowhere'
  BY <1>0, <1>6 DEF NoMoneyFromNowhere
<1> QED
  BY <1>1, <1>2, <1>3, <1>4, <1>5, <1>6, NextCases DEF Step

(* The order sold, credited, used.                                         *)
LEMMA OrderNext ==
  ASSUME IInv, [Next]_vars
  PROVE  SoldCreditedUsed'
<1>0. TypeOK /\ SoldCreditedUsed
  BY DEF IInv
<1> USE DEF TypeOK, SoldCreditedUsed, Booked
<1>1. ASSUME NEW t \in Threads, NEW c \in Cards, Sell(t, c)
      PROVE  SoldCreditedUsed'
  <2>1. /\ state' = [state EXCEPT ![c] = 1] /\ marked' = marked \union {c}
        /\ credits' = credits /\ unpaid' = unpaid
    BY <1>1 DEF Sell, faults
  <2> QED
    BY <1>0, <2>1
<1>2. ASSUME NEW t \in Threads, RechargeCredit(t) PROVE SoldCreditedUsed'
  <2>1. req[t].card \in marked
    BY <1>2 DEF RechargeCredit, RechargeInv, IInv
  <2>2. /\ credits' = [credits EXCEPT ![req[t].card] = credits[req[t].card] + 1]
        /\ state' = state /\ marked' = marked /\ unpaid' = unpaid
    BY <1>2 DEF RechargeCredit, faults
  <2> QED
    BY <1>0, <2>1, <2>2
<1>3. ASSUME NEW t \in Threads, RechargeMark(t) PROVE SoldCreditedUsed'
  <2>1. Booked(req[t].card) > 0
    BY <1>3 DEF RechargeMark, RechargeInv, IInv
  <2>2. /\ state' = [state EXCEPT ![req[t].card] = 2]
        /\ credits' = credits /\ marked' = marked /\ unpaid' = unpaid
    BY <1>3 DEF RechargeMark, history, faults
  <2> QED
    BY <1>0, <2>1, <2>2
<1>4. ASSUME NEW t \in Threads, SellOverrun(t) \/ Post(t)
      PROVE  SoldCreditedUsed'
  BY <1>0, <1>4 DEF SellOverrun, Post, database, history, faults
<1>5. ASSUME NEW t \in Threads, Step(t), ~Touches(t)
      PROVE  SoldCreditedUsed'
  BY <1>0, <1>5, TouchesNothing
<1>6. ASSUME Crash \/ UNCHANGED vars PROVE SoldCreditedUsed'
  BY <1>0, <1>6 DEF Crash, vars, database, history, faults
<1>7. ASSUME NEW t \in Threads, CreditFails(t) PROVE SoldCreditedUsed'
  <2>1. req[t].card \in marked
    BY <1>7 DEF CreditFails, RechargeInv, IInv
  <2>2. /\ unpaid' = [unpaid EXCEPT ![req[t].card] = unpaid[req[t].card] + 1]
        /\ state' = state /\ marked' = marked /\ credits' = credits
    BY <1>7 DEF CreditFails, StatementFails, database
  <2> QED
    BY <1>0, <2>1, <2>2
<1>8. ASSUME NEW t \in Threads, NEW c \in Cards, SellFails(t, c)
      PROVE  SoldCreditedUsed'
  BY <1>0, <1>8 DEF SellFails, StatementFails, database
<1> QED
  BY <1>1, <1>2, <1>3, <1>4, <1>5, <1>6, <1>7, <1>8, NextCases DEF Touches

LEMMA InvInit == Init => IInv
<1> SUFFICES ASSUME Init PROVE IInv
  OBVIOUS
<1>1. \A t \in Threads : RechargeInv(t) /\ ReplyInv(t)
  BY DEF Init, RechargeInv, ReplyInv
<1>2. MarkedInv /\ SoldCreditedUsed /\ NoCardVanishes
  BY DEF Init, MarkedInv, SoldCreditedUsed, Booked, NoCardVanishes
<1>3. NoMoneyFromNowhere
  BY StoreAssumption DEF StoreAssumption, Init, NoMoneyFromNowhere
<1> QED
  BY <1>1, <1>2, <1>3, TypeInit DEF IInv

LEMMA InvNext == IInv /\ [Next]_vars => IInv'
<1> SUFFICES ASSUME IInv, [Next]_vars PROVE IInv'
  OBVIOUS
<1>1. TypeOK'
  BY TypeNext DEF IInv
<1> QED
  BY <1>1, RechargeNext, ReplyNext, StockNext, MoneyNext, OrderNext DEF IInv

LEMMA InvCorrect == Spec => []IInv
<1> QED
  BY InvInit, InvNext, PTL DEF Spec

(* The tables and the threads' variables keep their types, and an enquiry  *)
(* never announces more cards than tbl_card has.                           *)
THEOREM TypeCorrect == Spec => []TypeOK
<1>1. IInv => TypeOK
  BY DEF IInv
<1> QED
  BY <1>1, InvCorrect, PTL

(* However stale the balance a recharge adds its card to, no balance is    *)
(* ever more than its start, the credits and what rounding them added      *)
(* (OperationThread.cpp:218-220).                                          *)
THEOREM MoneyCorrect == Spec => []NoMoneyFromNowhere
<1>1. IInv => NoMoneyFromNowhere
  BY DEF IInv
<1> QED
  BY <1>1, InvCorrect, PTL

(* Cards are credited only after a purchase and used up only after an      *)
(* update that credits them, under every interleaving, crash and failure.  *)
THEOREM OrderCorrect == Spec => []SoldCreditedUsed
<1>1. IInv => SoldCreditedUsed
  BY DEF IInv
<1> QED
  BY <1>1, InvCorrect, PTL

(* A card off the shelf is in somebody's reply unless a crash lost it.     *)
THEOREM StockCorrect == Spec => []NoCardVanishes
<1>1. IInv => NoCardVanishes
  BY DEF IInv
<1> QED
  BY <1>1, InvCorrect, PTL

-----------------------------------------------------------------------------
(* How many threads owe an answer, when one joins them or leaves them.     *)
LEMMA OwingCount ==
  ASSUME NEW c, NEW t \in Threads
  PROVE  /\ Cardinality(Owing(c)) \in Nat
         /\ t \notin Owing(c) =>
              Cardinality(Owing(c) \union {t}) = Cardinality(Owing(c)) + 1
         /\ t \in Owing(c) =>
              Cardinality(Owing(c) \ {t}) = Cardinality(Owing(c)) - 1
<1>1. IsFiniteSet(Owing(c))
  <2>1. Owing(c) \in SUBSET Threads
    BY DEF Owing
  <2> QED
    BY <2>1, FS_Subset, StoreAssumption DEF StoreAssumption
<1> QED
  BY <1>1, FS_CardinalityType, FS_AddElement, FS_RemoveElement

(* The update that credits a card, whether it fails or not; and the one    *)
(* that marks it.                                                          *)
Credits(t) == RechargeCredit(t) \/ CreditFails(t)
Marks(t) == RechargeMark(t) \/ MarkFails(t)

(* Which steps change who owes an answer.                                  *)
LEMMA OwingStep ==
  ASSUME IInv, NEW t \in Threads, Step(t), NEW c \in Cards
  PROVE  /\ Credits(t) /\ req[t].card = c =>
              t \notin Owing(c) /\ Owing(c)' = Owing(c) \union {t}
         /\ Post(t) /\ answer[t] = "ok" /\ req[t].card = c =>
              t \in Owing(c) /\ Owing(c)' = Owing(c) \ {t}
         /\ \/ Credits(t) /\ req[t].card = c
            \/ Post(t) /\ answer[t] = "ok" /\ req[t].card = c
            \/ Owing(c)' = Owing(c)
<1>0. TypeOK /\ RechargeInv(t) /\ ReplyInv(t)
  BY DEF IInv
<1>1. \A u \in Threads : u # t => (u \in Owing(c)' <=> u \in Owing(c))
  BY <1>0, OthersUnchanged DEF Owing
<1>2. Owing(c) \subseteq Threads /\ Owing(c)' \subseteq Threads
  BY DEF Owing
<1> USE DEF TypeOK, Goto, Reply, Enter, Forget
<1>3. ASSUME Credits(t), req[t].card = c
      PROVE  t \notin Owing(c) /\ t \in Owing(c)'
  <2>1. pc[t] = "credit" /\ pc'[t] = "mark" /\ req'[t] = req[t]
    BY <1>0, <1>3 DEF Credits, RechargeCredit, CreditFails
  <2>2. req[t] \in Recharges /\ answer[t] # "ok"
    BY <1>0, <2>1 DEF RechargeInv, ReplyInv
  <2>3. req[t].op = "recharge"
    BY <2>2 DEF Recharges
  <2> QED
    BY <1>3, <2>1, <2>2, <2>3 DEF Owing
<1>4. ASSUME Post(t), answer[t] = "ok", req[t].card = c
      PROVE  t \in Owing(c) /\ t \notin Owing(c)'
  <2>1. pc'[t] = "idle" /\ answer'[t] = "none"
    BY <1>0, <1>4 DEF Post
  <2>2. req[t].op = "recharge"
    BY <1>0, <1>4 DEF ReplyInv, Recharges
  <2> QED
    BY <1>4, <2>1, <2>2 DEF Owing
<1>5. ASSUME Marks(t) PROVE t \in Owing(c) <=> t \in Owing(c)'
  <2>1. pc[t] = "mark" /\ answer'[t] = "ok" /\ req'[t] = req[t]
    BY <1>0, <1>5 DEF Marks, RechargeMark, MarkFails
  <2> QED
    BY <2>1 DEF Owing
<1>6. ASSUME ~Marks(t),
             ~(Credits(t) /\ req[t].card = c),
             ~(Post(t) /\ answer[t] = "ok" /\ req[t].card = c)
      PROVE  t \notin Owing(c) /\ t \notin Owing(c)'
  <2>1. CASE Post(t)
    <3>1. pc[t] = "post" /\ pc'[t] = "idle" /\ answer'[t] = "none"
      BY <1>0, <2>1 DEF Post
    <3> QED
      BY <1>6, <2>1, <3>1 DEF Owing
  <2>2. CASE Credits(t)
    <3>1. pc[t] = "credit" /\ req'[t] = req[t] /\ req[t].card # c
      BY <1>0, <1>6, <2>2 DEF Credits, RechargeCredit, CreditFails
    <3> QED
      BY <3>1 DEF Owing
  <2>3. CASE ~Post(t) /\ ~Credits(t)
    <3>1. /\ pc[t] \notin {"mark", "post"} /\ pc'[t] # "mark"
          /\ answer'[t] # "ok"
      <4>1. ASSUME NEW r \in Requests, Begin(t, r)
            PROVE  /\ pc[t] = "idle" /\ pc'[t] \in {"idle", "select"}
                   /\ answer'[t] = answer[t]
        BY <1>0, <4>1 DEF Begin
      <4>2. ASSUME AskSelect(t) \/ Enquire(t) \/ SellDone(t)
            PROVE  /\ pc[t] \in {"select", "sell"} /\ pc'[t] = "post"
                   /\ answer'[t] \in {"count", "found", "missing", "sold"}
        BY <1>0, <4>2 DEF AskSelect, Enquire, SellDone
      <4>3. ASSUME ConfirmSelect(t)
            PROVE  /\ pc[t] = "select" /\ pc'[t] = "sell"
                   /\ answer'[t] = answer[t]
        BY <1>0, <4>3 DEF ConfirmSelect
      <4>4. ASSUME (\E d \in Cards : Sell(t, d)) \/ SellOverrun(t)
            PROVE  /\ pc[t] = "sell" /\ pc'[t] = "sell"
                   /\ answer'[t] = answer[t]
        BY <1>0, <4>4 DEF Sell, SellOverrun
      <4>5. ASSUME RechargeSelect(t)
            PROVE  /\ pc[t] = "select" /\ pc'[t] \in {"post", "balance"}
                   /\ answer'[t] \in {answer[t], "badCard", "used"}
        BY <1>0, <4>5 DEF RechargeSelect
      <4>6. ASSUME RechargeBalance(t)
            PROVE  /\ pc[t] = "balance" /\ pc'[t] \in {"post", "credit"}
                   /\ answer'[t] \in {answer[t], "noTel"}
        BY <1>0, <4>6 DEF RechargeBalance
      <4>7. answer[t] = "ok" => pc[t] = "post"
        BY <1>0 DEF ReplyInv
      <4>8. ASSUME SelectFails(t) \/ BalanceFails(t)
            PROVE  /\ pc[t] \in {"select", "balance"} /\ pc'[t] = "post"
                   /\ answer'[t] \in {"count", "sold", "badCard", "missing",
                                     "noTel"}
        BY <1>0, <4>8 DEF SelectFails, BalanceFails, NoRows
      <4>9. ASSUME NEW d \in Cards, SellFails(t, d)
            PROVE  /\ pc[t] = "sell" /\ pc'[t] = "sell"
                   /\ answer'[t] = answer[t]
        BY <1>0, <4>9 DEF SellFails
      <4> QED
        BY <1>6, <2>3, <4>1, <4>2, <4>3, <4>4, <4>5, <4>6, <4>7, <4>8, <4>9
        DEF Step, ThreadStep, FailStep, Credits, Marks
    <3>2. answer[t] # "ok"
      BY <1>0, <3>1 DEF ReplyInv
    <3> QED
      BY <3>1, <3>2 DEF Owing
  <2> QED
    BY <2>1, <2>2, <2>3
<1> QED
  BY <1>1, <1>2, <1>3, <1>4, <1>5, <1>6

(* What a step adds to the credits and to the answers given. *)
LEMMA AnswerStep ==
  ASSUME IInv, NEW t \in Threads, Step(t), NEW c \in Cards
  PROVE  /\ torn' = torn
         /\ Booked(c)' = Booked(c) + (IF Credits(t) /\ req[t].card = c
                                        THEN 1 ELSE 0)
         /\ oks'[c] = oks[c] + (IF Post(t) /\ answer[t] = "ok"
                                     /\ req[t].card = c THEN 1 ELSE 0)
<1>0. TypeOK
  BY DEF IInv
<1> USE DEF TypeOK, Booked
<1>1. CASE RechargeCredit(t)
  <2>1. /\ credits' = [credits EXCEPT ![req[t].card] = credits[req[t].card] + 1]
        /\ oks' = oks /\ torn' = torn /\ unpaid' = unpaid /\ pc[t] = "credit"
    BY <1>1 DEF RechargeCredit, faults
  <2>2. ~Post(t) /\ Credits(t)
    BY <1>1, <2>1 DEF Post, Credits
  <2> QED
    BY <1>0, <1>1, <2>1, <2>2
<1>2. CASE CreditFails(t)
  <2>1. /\ unpaid' = [unpaid EXCEPT ![req[t].card] = unpaid[req[t].card] + 1]
        /\ oks' = oks /\ torn' = torn /\ credits' = credits
        /\ pc[t] = "credit"
    BY <1>2 DEF CreditFails
  <2>2. ~Post(t) /\ Credits(t)
    BY <1>2, <2>1 DEF Post, Credits
  <2> QED
    BY <1>0, <1>2, <2>1, <2>2
<1>3. CASE Post(t)
  <2>1. /\ oks' = [d \in Cards |-> oks[d] + (IF answer[t] = "ok"
                                                /\ req[t].card = d
                                              THEN 1 ELSE 0)]
        /\ credits' = credits /\ torn' = torn /\ unpaid' = unpaid
        /\ pc[t] = "post"
    BY <1>3 DEF Post, faults
  <2>2. ~Credits(t)
    BY <2>1 DEF Credits, RechargeCredit, CreditFails
  <2> QED
    BY <1>0, <1>3, <2>1, <2>2
<1>4. CASE ~Credits(t) /\ ~Post(t)
  <2>1. ASSUME ThreadStep(t) PROVE UNCHANGED <<credits, oks, torn, unpaid>>
    BY <1>4, <2>1 DEF ThreadStep, Begin, AskSelect, Enquire, ConfirmSelect,
       Sell, SellOverrun, SellDone, RechargeSelect, RechargeBalance,
       RechargeMark, Credits, history, faults
  <2>2. ASSUME FailStep(t) PROVE UNCHANGED <<credits, oks, torn, unpaid>>
    BY <1>4, <2>2 DEF FailStep, SelectFails, BalanceFails, MarkFails,
       SellFails, Credits, history, faults
  <2> QED
    BY <1>0, <1>4, <2>1, <2>2 DEF Step
<1> QED
  BY <1>1, <1>2, <1>3, <1>4 DEF Credits

LEMMA AnsweredNext ==
  ASSUME IInv, IInv', CreditsAreAnswered, [Next]_vars
  PROVE  CreditsAreAnswered'
<1> SUFFICES ASSUME NEW c \in Cards
             PROVE  /\ oks'[c] + Cardinality(Owing(c)') <= Booked(c)'
                    /\ ~torn' =>
                         oks'[c] + Cardinality(Owing(c)') = Booked(c)'
  BY DEF CreditsAreAnswered
<1>1. /\ oks[c] + Cardinality(Owing(c)) <= Booked(c)
      /\ ~torn => oks[c] + Cardinality(Owing(c)) = Booked(c)
      /\ oks[c] \in Nat /\ Booked(c) \in Nat
  BY DEF CreditsAreAnswered, IInv, TypeOK, Booked
<1>2. ASSUME NEW t \in Threads, Step(t)
      PROVE  /\ oks'[c] + Cardinality(Owing(c)') <= Booked(c)'
             /\ ~torn' => oks'[c] + Cardinality(Owing(c)') = Booked(c)'
  <2>0. Cardinality(Owing(c)) \in Nat
    BY OwingCount
  <2>1. CASE Credits(t) /\ req[t].card = c
    <3>1. Cardinality(Owing(c)') = Cardinality(Owing(c)) + 1
      BY <1>2, <2>1, OwingStep, OwingCount
    <3>2. ~Post(t)
      BY <2>1 DEF Credits, RechargeCredit, CreditFails, Post
    <3>3. Booked(c)' = Booked(c) + 1 /\ oks'[c] = oks[c] /\ torn' = torn
      BY <1>1, <1>2, <2>1, <3>2, AnswerStep
    <3> QED
      BY <1>1, <2>0, <3>1, <3>3
  <2>2. CASE Post(t) /\ answer[t] = "ok" /\ req[t].card = c
    <3>1. Cardinality(Owing(c)') = Cardinality(Owing(c)) - 1
      BY <1>2, <2>2, OwingStep, OwingCount
    <3>2. ~Credits(t)
      BY <2>2 DEF Credits, RechargeCredit, CreditFails, Post
    <3>3. Booked(c)' = Booked(c) /\ oks'[c] = oks[c] + 1 /\ torn' = torn
      BY <1>1, <1>2, <2>2, <3>2, AnswerStep
    <3> QED
      BY <1>1, <2>0, <3>1, <3>3
  <2>3. CASE /\ ~(Credits(t) /\ req[t].card = c)
             /\ ~(Post(t) /\ answer[t] = "ok" /\ req[t].card = c)
    <3>1. Owing(c)' = Owing(c)
      BY <1>2, <2>3, OwingStep
    <3>2. Booked(c)' = Booked(c) /\ oks'[c] = oks[c] /\ torn' = torn
      BY <1>1, <1>2, <2>3, AnswerStep
    <3> QED
      BY <1>1, <3>1, <3>2
  <2> QED
    BY <2>1, <2>2, <2>3
<1>3. ASSUME Crash
      PROVE  /\ oks'[c] + Cardinality(Owing(c)') <= Booked(c)'
             /\ ~torn' => oks'[c] + Cardinality(Owing(c)') = Booked(c)'
  <2>1. /\ UNCHANGED <<oks, credits, unpaid>>
        /\ torn' = (torn \/ \E t \in Threads : Inside(t) \/ pc[t] = "post")
        /\ pc' = [t \in Threads |-> "idle"]
        /\ answer' = [t \in Threads |-> "none"]
    BY <1>3 DEF Crash, faults
  <2>2. Owing(c)' = {} /\ Cardinality(Owing(c)') = 0
    BY <2>1, FS_EmptySet DEF Owing
  <2>3. Cardinality(Owing(c)) \in Nat
    <3>1. CASE Threads = {}
      BY <3>1, FS_EmptySet DEF Owing
    <3>2. CASE Threads # {}
      BY <3>2, OwingCount
    <3> QED
      BY <3>1, <3>2
  <2>4. Owing(c) # {} => torn'
    <3>1. ASSUME NEW t \in Owing(c) PROVE Inside(t) \/ pc[t] = "post"
      BY <3>1 DEF Owing, IInv, ReplyInv, Inside
    <3> QED
      BY <2>1, <3>1 DEF Owing
  <2>5. ~torn' => ~torn /\ Cardinality(Owing(c)) = 0
    BY <2>1, <2>4, FS_EmptySet
  <2> QED
    BY <1>1, <2>1, <2>2, <2>3, <2>5 DEF Booked
<1>4. ASSUME UNCHANGED vars
      PROVE  /\ oks'[c] + Cardinality(Owing(c)') <= Booked(c)'
             /\ ~torn' => oks'[c] + Cardinality(Owing(c)') = Booked(c)'
  <2>1. Owing(c)' = Owing(c) /\ UNCHANGED <<oks, credits, unpaid, torn>>
    BY <1>4 DEF vars, locals, history, faults, Owing
  <2> QED
    BY <1>1, <2>1 DEF Booked
<1> QED
  BY <1>2, <1>3, <1>4, NextCases

(* One "ok" for each update that credits a card (OperationThread.cpp:221), *)
(* and none without one; only a crash loses one.                           *)
THEOREM AnsweredCorrect == Spec => []CreditsAreAnswered
<1>1. Init => CreditsAreAnswered
  <2> SUFFICES ASSUME Init, NEW c \in Cards
               PROVE  oks[c] + Cardinality(Owing(c)) = Booked(c)
                      /\ oks[c] + Cardinality(Owing(c)) <= Booked(c)
    BY DEF CreditsAreAnswered
  <2>1. Owing(c) = {} /\ oks[c] = 0 /\ Booked(c) = 0
    BY DEF Init, Owing, Booked
  <2> QED
    BY <2>1, FS_EmptySet
<1> QED
  BY <1>1, AnsweredNext, InvCorrect, PTL DEF Spec

-----------------------------------------------------------------------------
(* While no two threads have overlapped, no crash has torn a request open  *)
(* and no update has failed, at most one thread is inside its statements,  *)
(* and what it has read is still what the tables hold.                     *)
Solo == ~overlapped /\ ~torn /\ ~failed

Fresh(t) ==
  /\ pc[t] = "sell" => rows[t] \subseteq Having(0)
  /\ pc[t] \in {"balance", "credit", "mark"} => state[req[t].card] = 1
  /\ pc[t] = "credit" => old[t] \in Near(balance[req[t].tel])

SoloInv ==
  Solo => /\ \A t, u \in Threads : Inside(t) /\ Inside(u) => t = u
          /\ \A t \in Threads : Fresh(t)

(* Who is inside, step by step.                                            *)
LEMMA InsideStep ==
  ASSUME IInv, NEW t \in Threads, ThreadStep(t)
  PROVE  /\ Solo' => Solo
         /\ Inside(t)' => \/ Inside(t)
                          \/ Solo' => \A u \in Threads : ~Inside(u)
<1>0. TypeOK
  BY DEF IInv
<1> USE DEF TypeOK, Goto, Reply, Enter, Forget, faults
<1> DEFINE Others == \E u \in Threads : Inside(u)
           Goal == /\ UNCHANGED <<torn, failed>>
                   /\ overlapped => overlapped'
                   /\ Inside(t)' => Inside(t) \/ (Others => overlapped')
<1>1. ASSUME NEW r \in Requests, Begin(t, r) PROVE Goal
  <2>1. UNCHANGED <<overlapped, torn, failed>> /\ ~Inside(t)'
    BY <1>0, <1>1 DEF Begin, history, Inside
  <2> QED
    BY <2>1
<1>2. ASSUME AskSelect(t) \/ Enquire(t) \/ SellDone(t) \/ RechargeMark(t)
      PROVE  Goal
  <2>1. UNCHANGED <<overlapped, torn, failed>> /\ ~Inside(t)'
    BY <1>0, <1>2 DEF AskSelect, Enquire, SellDone, RechargeMark, history,
       Inside
  <2> QED
    BY <2>1
<1>3. ASSUME ConfirmSelect(t) PROVE Goal
  BY <1>3 DEF ConfirmSelect
<1>4. ASSUME (\E c \in Cards : Sell(t, c)) \/ SellOverrun(t) PROVE Goal
  BY <1>4 DEF Sell, SellOverrun, history, Inside
<1>5. ASSUME RechargeSelect(t) PROVE Goal
  <2>1. UNCHANGED <<torn, failed>>
    BY <1>5 DEF RechargeSelect
  <2>2. \/ overlapped' = overlapped /\ ~Inside(t)'
        \/ overlapped' = (overlapped \/ Others)
    BY <1>0, <1>5 DEF RechargeSelect, Inside
  <2>3. CASE overlapped' = overlapped /\ ~Inside(t)'
    BY <2>1, <2>3
  <2>4. CASE overlapped' = (overlapped \/ Others)
    BY <2>1, <2>4
  <2> QED
    BY <2>2, <2>3, <2>4
<1>6. ASSUME RechargeBalance(t) \/ RechargeCredit(t) PROVE Goal
  BY <1>6 DEF RechargeBalance, RechargeCredit, history, Inside
<1>7. ASSUME Post(t) PROVE Goal
  <2>1. UNCHANGED <<overlapped, torn, failed>> /\ ~Inside(t)'
    BY <1>0, <1>7 DEF Post, Inside
  <2> QED
    BY <2>1
<1>8. Goal
  BY <1>1, <1>2, <1>3, <1>4, <1>5, <1>6, <1>7 DEF ThreadStep
<1> QED
  BY <1>8, Zenon DEF Solo

(* The statements that change a table are run from inside.                 *)
LEMMA WritersInside ==
  ASSUME NEW t \in Threads, ThreadStep(t), ~Inside(t)
  PROVE  UNCHANGED <<state, balance>>
BY DEF ThreadStep, Inside, Begin, AskSelect, Enquire, ConfirmSelect, Sell,
   SellOverrun, SellDone, RechargeSelect, RechargeBalance, RechargeCredit,
   RechargeMark, Post, database

LEMMA RowsUnchanged ==
  ASSUME TypeOK, NEW t \in Threads, ThreadStep(t), NEW u \in Threads, u # t
  PROVE  rows'[u] = rows[u]
BY DEF TypeOK, ThreadStep, Begin, AskSelect, Enquire, ConfirmSelect, Sell,
   SellOverrun, SellDone, RechargeSelect, RechargeBalance, RechargeCredit,
   RechargeMark, Post, Forget

(* The thread that steps has read the tables as they are. *)
LEMMA FreshStep ==
  ASSUME IInv, NEW t \in Threads, ThreadStep(t), Fresh(t)
  PROVE  Fresh(t)'
<1>0. TypeOK /\ RechargeInv(t)
  BY DEF IInv
<1> USE DEF TypeOK, Goto, Reply, Enter, Forget, Fresh
<1>1. ASSUME NEW r \in Requests, Begin(t, r) PROVE Fresh(t)'
  <2>1. pc'[t] \in {"idle", "select"}
    BY <1>0, <1>1 DEF Begin
  <2> QED
    BY <2>1
<1>2. ASSUME \/ AskSelect(t) \/ Enquire(t) \/ SellDone(t) \/ RechargeMark(t)
             \/ Post(t)
      PROVE  Fresh(t)'
  <2>1. pc'[t] \in {"post", "idle"}
    BY <1>0, <1>2 DEF AskSelect, Enquire, SellDone, RechargeMark, Post
  <2> QED
    BY <2>1
<1>3. ASSUME ConfirmSelect(t) PROVE Fresh(t)'
  <2>1. /\ pc'[t] = "sell" /\ state' = state
        /\ rows'[t] = ForSale(req[t].money)
    BY <1>0, <1>3 DEF ConfirmSelect, database
  <2> QED
    BY <2>1 DEF ForSale, Having
<1>4. ASSUME NEW c \in Cards, Sell(t, c) PROVE Fresh(t)'
  <2>1. /\ pc[t] = "sell" /\ pc'[t] = "sell" /\ rows'[t] = rows[t] \ {c}
        /\ state' = [state EXCEPT ![c] = 1]
    BY <1>0, <1>4 DEF Sell
  <2> QED
    BY <1>0, <2>1 DEF Having
<1>5. ASSUME SellOverrun(t) PROVE Fresh(t)'
  <2>1. pc'[t] = "sell" /\ pc[t] = "sell" /\ rows' = rows /\ state' = state
    BY <1>5 DEF SellOverrun, database
  <2> QED
    BY <2>1 DEF Having
<1>6. ASSUME RechargeSelect(t) PROVE Fresh(t)'
  <2>1. req' = req /\ state' = state
    BY <1>6 DEF RechargeSelect, database
  <2>2. pc'[t] = "post" \/ (pc'[t] = "balance" /\ state[req[t].card] = 1)
    BY <1>0, <1>6 DEF RechargeSelect, Having
  <2> QED
    BY <2>1, <2>2
<1>7. ASSUME RechargeBalance(t) PROVE Fresh(t)'
  <2>1. req' = req /\ state' = state /\ balance' = balance /\ pc[t] = "balance"
    BY <1>7 DEF RechargeBalance, database
  <2>2. \/ pc'[t] = "post"
        \/ pc'[t] = "credit" /\ old'[t] \in Near(balance[req[t].tel])
    BY <1>0, <1>7 DEF RechargeBalance
  <2> QED
    BY <2>1, <2>2
<1>8. ASSUME RechargeCredit(t) PROVE Fresh(t)'
  <2>1. req' = req /\ state' = state /\ pc[t] = "credit" /\ pc'[t] = "mark"
    BY <1>0, <1>8 DEF RechargeCredit
  <2> QED
    BY <2>1
<1> QED
  BY <1>1, <1>2, <1>3, <1>4, <1>5, <1>6, <1>7, <1>8 DEF ThreadStep

(* A failing select ends the request and changes nothing; after any other  *)
(* failure the thread is no longer alone with its mistakes.                *)
LEMMA FailSolo ==
  ASSUME IInv, NEW t \in Threads, FailStep(t), Solo'
  PROVE  /\ UNCHANGED <<state, balance, req, rows, old, history>>
         /\ pc[t] # "mark" /\ pc' = [pc EXCEPT ![t] = "post"]
<1>1. SelectFails(t) \/ BalanceFails(t)
  BY DEF FailStep, CreditFails, MarkFails, SellFails, Solo
<1> QED
  BY <1>1 DEF SelectFails, BalanceFails, StatementFails, Reply, Goto, database

LEMMA SoloNext ==
  ASSUME IInv, SoloInv, [Next]_vars
  PROVE  SoloInv'
<1>1. ASSUME NEW t \in Threads, ThreadStep(t), Solo' PROVE SoloInv'
  <2>0. /\ Solo /\ TypeOK
        /\ \A v, u \in Threads : Inside(v) /\ Inside(u) => v = u
        /\ \A v \in Threads : Fresh(v)
    BY <1>1, InsideStep DEF SoloInv, IInv
  <2>1. \A u \in Threads : u # t => Inside(u)' = Inside(u)
    BY <1>1, <2>0, OthersUnchanged DEF Step, Inside
  <2>2. \A v, u \in Threads : Inside(v)' /\ Inside(u)' => v = u
    BY <1>1, <2>0, <2>1, InsideStep
  <2>3. ASSUME NEW u \in Threads, u # t PROVE Fresh(u)'
    <3>1. /\ pc'[u] = pc[u] /\ req'[u] = req[u] /\ old'[u] = old[u]
          /\ rows'[u] = rows[u]
      BY <1>1, <2>0, <2>3, OthersUnchanged, RowsUnchanged DEF Step
    <3>2. CASE Inside(u)
      <4>1. ~Inside(t)
        BY <2>0, <2>3, <3>2
      <4>2. state' = state /\ balance' = balance
        BY <1>1, <4>1, WritersInside
      <4> QED
        BY <2>0, <3>1, <4>2 DEF Fresh, Having
    <3>3. CASE ~Inside(u)
      BY <3>1, <3>3 DEF Fresh, Inside
    <3> QED
      BY <3>2, <3>3
  <2>4. Fresh(t)'
    BY <1>1, <2>0, FreshStep
  <2> QED
    BY <2>2, <2>3, <2>4 DEF SoloInv
<1>2. ASSUME Crash PROVE SoloInv'
  BY <1>2 DEF Crash, SoloInv, Inside, Fresh
<1>3. ASSUME UNCHANGED vars PROVE SoloInv'
  <2>1. /\ UNCHANGED <<pc, rows, req, old, state, balance>>
        /\ UNCHANGED <<overlapped, torn, failed>>
    BY <1>3 DEF vars, locals, database, history, faults
  <2> QED
    BY <2>1 DEF SoloInv, Solo, Inside, Fresh, Having
<1>4. ASSUME NEW t \in Threads, FailStep(t), Solo' PROVE SoloInv'
  <2>1. /\ UNCHANGED <<state, balance, req, rows, old, history>>
        /\ pc' = [pc EXCEPT ![t] = "post"]
    BY <1>4, FailSolo
  <2>2. /\ \A v, u \in Threads : Inside(v) /\ Inside(u) => v = u
        /\ \A v \in Threads : Fresh(v)
    BY <1>4, <2>1 DEF SoloInv, Solo, history, faults
  <2>3. \A u \in Threads : pc'[u] = pc[u] \/ pc'[u] = "post"
    BY <2>1 DEF IInv, TypeOK
  <2> QED
    BY <2>1, <2>2, <2>3 DEF SoloInv, Inside, Fresh, Having
<1> QED
  BY <1>1, <1>2, <1>3, <1>4, NextCases DEF Step, SoloInv

(* card_state as the ledger sees it. *)
Status == [c \in Cards |->
             IF \E t \in Threads : pc[t] = "mark" /\ req[t].card = c
               THEN 2 ELSE state[c]]

(* A step that leaves the tables and the threads that mark alone.          *)
LEMMA StatusStays ==
  ASSUME UNCHANGED <<state, balance>>,
         \A u \in Threads : /\ pc'[u] = "mark" <=> pc[u] = "mark"
                            /\ pc[u] = "mark" => req'[u] = req[u]
  PROVE  UNCHANGED <<Status, balance>>
<1>1. ASSUME NEW c \in Cards
      PROVE  (\E u \in Threads : pc'[u] = "mark" /\ req'[u].card = c) <=>
               \E u \in Threads : pc[u] = "mark" /\ req[u].card = c
  OBVIOUS
<1> QED
  BY <1>1 DEF Status

LEMMA LedgerStep ==
  ASSUME IInv, SoloInv, Solo, NEW t \in Threads, ThreadStep(t)
  PROVE  \/ \E c \in Cards : /\ Status[c] = 0 /\ balance' = balance
                             /\ Status' = [Status EXCEPT ![c] = 1]
         \/ \E c \in Cards, tel \in Tels :
              /\ Status[c] = 1
              /\ Status' = [Status EXCEPT ![c] = 2]
              /\ \E read \in Near(balance[tel]) :
                   \E sum \in Near(read + Value[c]) :
                     balance' = [balance EXCEPT ![tel] = sum]
         \/ UNCHANGED <<Status, balance>>
<1>0. /\ TypeOK /\ RechargeInv(t)
      /\ \A v, u \in Threads : Inside(v) /\ Inside(u) => v = u
      /\ Fresh(t)
  BY DEF IInv, SoloInv
<1>1. \A u \in Threads : u # t => pc'[u] = pc[u] /\ req'[u] = req[u]
  BY <1>0, OthersUnchanged DEF Step
<1>2. Inside(t) => \A u \in Threads : u # t => pc[u] # "mark"
  BY <1>0 DEF Inside
<1> USE DEF TypeOK, Goto, Reply, Enter, Forget
<1>3. ASSUME NEW c \in Cards, Sell(t, c)
      PROVE  /\ Status[c] = 0 /\ balance' = balance
             /\ Status' = [Status EXCEPT ![c] = 1]
  <2>1. /\ pc[t] = "sell" /\ pc' = pc /\ req' = req /\ c \in rows[t]
        /\ state' = [state EXCEPT ![c] = 1] /\ balance' = balance
    BY <1>3 DEF Sell, IsNext
  <2>2. \A u \in Threads : pc[u] # "mark" /\ pc'[u] # "mark"
    BY <1>2, <2>1 DEF Inside
  <2>3. Status = state /\ Status' = state'
    BY <1>0, <2>1, <2>2 DEF Status
  <2>4. state[c] = 0
    BY <1>0, <2>1 DEF Fresh, Having
  <2> QED
    BY <2>1, <2>3, <2>4
<1>4. ASSUME RechargeCredit(t)
      PROVE  /\ req[t].card \in Cards /\ req[t].tel \in Tels
             /\ Status[req[t].card] = 1
             /\ Status' = [Status EXCEPT ![req[t].card] = 2]
             /\ \E read \in Near(balance[req[t].tel]) :
                  \E sum \in Near(read + Value[req[t].card]) :
                    balance' = [balance EXCEPT ![req[t].tel] = sum]
  <2>1. /\ pc[t] = "credit" /\ pc'[t] = "mark" /\ req' = req /\ state' = state
        /\ \E sum \in Near(old[t] + Value[req[t].card]) :
             balance' = [balance EXCEPT ![req[t].tel] = sum]
    BY <1>0, <1>4 DEF RechargeCredit
  <2>2. req[t].card \in Cards /\ req[t].tel \in Tels
    BY <1>0, <2>1 DEF RechargeInv
  <2>3. state[req[t].card] = 1 /\ old[t] \in Near(balance[req[t].tel])
    BY <1>0, <2>1 DEF Fresh
  <2>4. \A u \in Threads : /\ pc[u] # "mark"
                           /\ pc'[u] = "mark" <=> u = t
    BY <1>1, <1>2, <2>1 DEF Inside
  <2>5. Status = state
    <3>1. \A c \in Cards : ~\E u \in Threads : pc[u] = "mark" /\ req[u].card = c
      BY <2>4
    <3> QED
      BY <1>0, <3>1 DEF Status
  <2>6. Status' = [state EXCEPT ![req[t].card] = 2]
    <3>1. ASSUME NEW c \in Cards
          PROVE  (\E u \in Threads : pc'[u] = "mark" /\ req'[u].card = c) <=>
                   c = req[t].card
      BY <2>1, <2>4
    <3>2. Status' = [c \in Cards |-> IF c = req[t].card THEN 2 ELSE state[c]]
      BY <2>1, <3>1 DEF Status
    <3> QED
      BY <1>0, <2>2, <3>2
  <2> QED
    BY <2>1, <2>2, <2>3, <2>5, <2>6
<1>5. ASSUME RechargeMark(t) PROVE UNCHANGED <<Status, balance>>
  <2>1. /\ pc[t] = "mark" /\ pc'[t] = "post" /\ req' = req
        /\ state' = [state EXCEPT ![req[t].card] = 2] /\ balance' = balance
    BY <1>0, <1>5 DEF RechargeMark
  <2>2. \A u \in Threads : /\ pc[u] = "mark" <=> u = t
                           /\ pc'[u] # "mark"
    BY <1>1, <1>2, <2>1 DEF Inside
  <2>3. Status = [state EXCEPT ![req[t].card] = 2]
    BY <1>0, <2>2 DEF Status
  <2>4. Status' = state'
    BY <1>0, <2>1, <2>2 DEF Status
  <2> QED
    BY <2>1, <2>3, <2>4
<1>6. ASSUME ~RechargeCredit(t), ~RechargeMark(t), \A c \in Cards : ~Sell(t, c)
      PROVE  UNCHANGED <<Status, balance>>
  <2>1. /\ UNCHANGED <<state, balance>>
        /\ pc[t] # "mark" /\ pc'[t] # "mark"
    <3>1. ASSUME NEW r \in Requests, Begin(t, r)
          PROVE  pc[t] = "idle" /\ pc'[t] \in {"idle", "select"}
                 /\ UNCHANGED database
      BY <1>0, <3>1 DEF Begin
    <3>2. ASSUME AskSelect(t) \/ Enquire(t) \/ SellDone(t) \/ Post(t)
          PROVE  /\ pc[t] # "mark" /\ pc'[t] \in {"post", "idle"}
                 /\ UNCHANGED database
      BY <1>0, <3>2 DEF AskSelect, Enquire, SellDone, Post
    <3>3. ASSUME ConfirmSelect(t) \/ SellOverrun(t)
          PROVE  pc[t] # "mark" /\ pc'[t] = "sell" /\ UNCHANGED database
      BY <1>0, <3>3 DEF ConfirmSelect, SellOverrun
    <3>4. ASSUME RechargeSelect(t) \/ RechargeBalance(t)
          PROVE  /\ pc[t] # "mark" /\ pc'[t] \in {"post", "balance", "credit"}
                 /\ UNCHANGED database
      BY <1>0, <3>4 DEF RechargeSelect, RechargeBalance
    <3> QED
      BY <1>6, <3>1, <3>2, <3>3, <3>4 DEF ThreadStep, database
  <2>2. \A u \in Threads : /\ pc'[u] = "mark" <=> pc[u] = "mark"
                           /\ pc[u] = "mark" => req'[u] = req[u]
    BY <1>1, <2>1
  <2> QED
    BY <2>1, <2>2, StatusStays
<1> QED
  BY <1>3, <1>4, <1>5, <1>6

LEMMA LedgerNext ==
  ASSUME IInv, SoloInv, SoloInv', [Next]_vars
  PROVE  overlapped' \/ torn' \/ failed' \/ Ledger!Next
           \/ UNCHANGED Ledger!vars
<1>1. ASSUME NEW t \in Threads, ThreadStep(t), Solo'
      PROVE  Ledger!Next \/ UNCHANGED Ledger!vars
  <2>1. Solo
    BY <1>1, InsideStep
  <2>2. \A x : Ledger!Near(x) = Near(x)
    BY DEF Ledger!Near, Ledger!Error, Near, Error
  <2> QED
    BY <1>1, <2>1, <2>2, LedgerStep
    DEF Status, Ledger!Next, Ledger!Sell, Ledger!Redeem, Ledger!vars
<1>2. ASSUME Crash, Solo' PROVE UNCHANGED Ledger!vars
  <2>1. /\ UNCHANGED <<state, balance>> /\ pc' = [t \in Threads |-> "idle"]
        /\ torn' = (torn \/ \E t \in Threads : Inside(t) \/ pc[t] = "post")
    BY <1>2 DEF Crash, database
  <2>2. \A t \in Threads : pc[t] # "mark"
    BY <1>2, <2>1 DEF Solo, Inside
  <2> QED
    BY <2>1, <2>2 DEF Ledger!vars
<1>3. ASSUME UNCHANGED vars PROVE UNCHANGED Ledger!vars
  BY <1>3 DEF vars, locals, database, Ledger!vars
<1>4. ASSUME NEW t \in Threads, FailStep(t), Solo'
      PROVE  UNCHANGED Ledger!vars
  <2>1. /\ UNCHANGED <<state, balance, req>>
        /\ pc[t] # "mark" /\ pc' = [pc EXCEPT ![t] = "post"]
    BY <1>4, FailSolo
  <2>2. \A u \in Threads : pc'[u] = "mark" <=> pc[u] = "mark"
    BY <2>1 DEF IInv, TypeOK
  <2>3. UNCHANGED <<Status, balance>>
    BY <2>1, <2>2, StatusStays
  <2> QED
    BY <2>3 DEF Status, Ledger!vars
<1> QED
  BY <1>1, <1>2, <1>3, <1>4, NextCases DEF Step, Solo

(* Until two threads overlap, a crash hits one inside its statements or an *)
(* update fails, every statement is a step of the ledger (public.h:42, 72).*)
THEOREM LedgerCorrect == Spec => LedgerUntilOverlap
<1>1. Init => SoloInv
  BY DEF Init, SoloInv, Inside, Fresh
<1>2. IInv /\ SoloInv /\ [Next]_vars => SoloInv'
  BY SoloNext
<1>3. IInv /\ SoloInv /\ SoloInv' /\ [Next]_vars =>
        [overlapped' \/ torn' \/ failed' \/ Ledger!Next
                     \/ UNCHANGED Ledger!vars]_vars
  BY LedgerNext
<1> QED
  BY <1>1, <1>2, <1>3, InvCorrect, PTL DEF Spec, LedgerUntilOverlap
=============================================================================
