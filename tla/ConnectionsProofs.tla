------------------------- MODULE ConnectionsProofs -------------------------
(***************************************************************************)
(* Proofs about Connections, for every number of clients, epoll threads    *)
(* and fds: who watches an fd, what lis_fd_sum counts, how evenly the      *)
(* acceptor spreads the connections, and whom a reply reaches.             *)
(*                                                                         *)
(* The parts of IInv are first named; then one lemma per action says that  *)
(* the action keeps them.                                                  *)
(***************************************************************************)
EXTENDS Connections, FiniteSetTheorems, TLAPS

(* A client still on its way, or not yet there, owns no connection.        *)
ClientInv ==
  /\ \A c \in backlog : peer[c] # "off"
  /\ \A c \in Clients : peer[c] = "off" \/ c \in backlog =>
       \A fd \in Fds : owner[fd] # c

(* An accept() that never failed gave the acceptor an fd.                  *)
HandInv == apc \in {"scan", "add"} /\ ~failed => acid # NoFd

(* What was loaded of a counter is still what it holds, and only one side  *)
(* is between its load and its store, as long as the two never overlapped. *)
LoadInv ==
  ~raced =>
    /\ apc = "store" => aload = sum[num]
    /\ \A e \in Epolls : epc[e] = "store" =>
         eload[e] = sum[e] /\ ~(apc = "store" /\ num = e)

(* e comes before f as the smaller number, the first of equals.            *)
Before(p, e, f) == p[e] < p[f] \/ (p[e] = p[f] /\ e <= f)

(* The scan starts at the first counter, and the numbers copied so far     *)
(* have a first smallest one.                                              *)
ScanInv ==
  /\ apc = "accept" => num = 1
  /\ apc = "scan" /\ num > 1 =>
       \E e \in 1 .. num - 1 : \A f \in 1 .. num - 1 : Before(online, e, f)

(* While nobody was closed no counter goes down, so what the acceptor has  *)
(* copied is what the counters hold, and the one it chose is the smallest. *)
SpreadInv ==
  ~closed =>
    /\ ~raced
    /\ \A e \in Epolls : epc[e] \notin {"load", "store"}
    /\ apc = "scan" => \A e \in 1 .. num - 1 : online[e] = sum[e]
    /\ apc = "add" => \A e \in Epolls : sum[num] <= sum[e]

IInv ==
  /\ TypeOK /\ ClientInv /\ WatchedByOne /\ HandInv /\ LoadInv /\ SumIsSize
  /\ ScanInv /\ SpreadInv /\ Balanced /\ RepliesGoHome

-----------------------------------------------------------------------------
USE ConnAssumption DEF ConnAssumption, Epolls, Fds, NoFd, Items

(* The epoll sets are finite, so that their sizes can be counted with.     *)
LEMMA SetsAreFinite ==
  ASSUME TypeOK
  PROVE  \A e \in Epolls : /\ IsFiniteSet(member[e])
                           /\ Cardinality(member[e]) \in Nat
<1>1. IsFiniteSet(Fds)
  BY FS_Interval
<1>2. \A e \in Epolls : member[e] \subseteq Fds
  BY DEF TypeOK
<1>3. QED
  BY <1>1, <1>2, FS_Subset, FS_CardinalityType

(* A thread works only on connections.                                     *)
LEMMA WatchedIsOwned ==
  ASSUME TypeOK, WatchedByOne, NEW e \in Epolls
  PROVE  /\ \A fd \in member[e] : fd \in Fds /\ owner[fd] \in Clients
         /\ \A fd \in todo[e] : fd \in member[e]
         /\ epc[e] \in {"body", "close"} => cur[e] \in member[e]
  BY DEF TypeOK, WatchedByOne

(* One counter more was copied, and there still is a first smallest one.   *)
LEMMA SmallestSoFar ==
  ASSUME IInv, Scan
  PROVE  \E e \in 1 .. num : \A f \in 1 .. num : Before(online', e, f)
<1>1. /\ num \in Epolls /\ online' \in [Epolls -> Int]
      /\ \A e \in 1 .. num - 1 : e \in Epolls /\ online'[e] = online[e]
  BY DEF IInv, TypeOK, Scan
<1>2. CASE num = 1
  BY <1>1, <1>2 DEF Before
<1>3. CASE num > 1
  <2>1. PICK e \in 1 .. num - 1 :
          \A f \in 1 .. num - 1 : Before(online, e, f)
    BY <1>3 DEF IInv, ScanInv, Scan
  <2>2. \A f \in 1 .. num - 1 : Before(online', e, f)
    BY <1>1, <2>1 DEF Before
  <2>3. /\ e \in Epolls /\ e \in 1 .. num /\ e <= num /\ num \in 1 .. num
        /\ online'[e] \in Int /\ online'[num] \in Int
        /\ \A f \in 1 .. num : f = num \/ f \in 1 .. num - 1
        /\ \A f \in 1 .. num - 1 : online'[f] \in Int
    BY <1>1
  <2>4. CASE Before(online', e, num)
    BY <2>2, <2>3, <2>4
  <2>5. CASE ~Before(online', e, num)
    <3>1. online'[num] < online'[e]
      BY <2>3, <2>5 DEF Before
    <3>2. \A f \in 1 .. num : Before(online', num, f)
      BY <1>1, <2>2, <2>3, <3>1 DEF Before
    <3>3. QED
      BY <2>3, <3>2
  <2>6. QED
    BY <2>4, <2>5
<1>4. QED
  BY <1>1, <1>2, <1>3

(* So min_epid_onlineuser() has an epoll thread to return, and no counter  *)
(* it saw is smaller than that thread's.                                   *)
LEMMA MinIsSmallest ==
  ASSUME IInv, Scan, num = NEpolls
  PROVE  /\ num' \in Epolls
         /\ \A f \in Epolls : online'[num'] <= online'[f]
<1>1. \E e \in Epolls : \A f \in Epolls : Before(online', e, f)
  BY SmallestSoFar
<1>2. num' = MinOnlineUser(online')
  BY DEF Scan, IInv, TypeOK
<1>3. online' \in [Epolls -> Int]
  BY DEF Scan, IInv, TypeOK
<1>4. num' \in Epolls /\ \A f \in Epolls : Before(online', num', f)
  BY <1>1, <1>2 DEF MinOnlineUser, Before
<1>5. QED
  BY <1>3, <1>4 DEF Before

(* What reading an item leaves in an inbox.                                *)
LEMMA TailIsTyped ==
  ASSUME NEW s \in Seq(Items), s # <<>>
  PROVE  Tail(s) \in Seq(Items)
  OBVIOUS

(* What setting one count of requests does to them.                        *)
LEMMA PendingSet ==
  ASSUME TypeOK, NEW fd \in Fds, NEW c \in Clients, NEW n \in Nat,
         pending' = [pending EXCEPT ![fd] = [@ EXCEPT ![c] = n]]
  PROVE  /\ pending' \in [Fds -> [Clients -> Nat]]
         /\ \A g \in Fds, b \in Clients :
              pending'[g][b] = IF g = fd /\ b = c THEN n ELSE pending[g][b]
<1>1. pending \in [Fds -> [Clients -> Nat]]
  BY DEF TypeOK
<1>2. [pending[fd] EXCEPT ![c] = n] \in [Clients -> Nat]
  BY <1>1
<1>3. QED
  BY <1>1, <1>2

-----------------------------------------------------------------------------
LEMMA InitIInv == Init => IInv
<1> SUFFICES ASSUME Init PROVE IInv
  OBVIOUS
<1>1. TypeOK
  <2>1. /\ inbox \in [Clients -> Seq(Items)]
        /\ pending \in [Fds -> [Clients -> Nat]]
        /\ member \in [Epolls -> SUBSET Fds]
        /\ todo \in [Epolls -> SUBSET Fds]
    BY DEF Init
  <2>2. /\ online \in [Epolls -> Int] /\ sum \in [Epolls -> Int]
        /\ cur \in [Epolls -> Fds \union {NoFd}]
        /\ eload \in [Epolls -> Int]
        /\ epc \in [Epolls ->
                     {"wait", "event", "body", "close", "load", "store"}]
        /\ num \in Epolls
    BY DEF Init
  <2>3. /\ owner \in [Fds -> Clients \union {NoClient}]
        /\ peer \in [Clients -> {"off", "open", "left", "reset", "dead"}]
    BY DEF Init
  <2>4. QED
    BY <2>1, <2>2, <2>3 DEF Init, TypeOK
<1>2. ClientInv /\ WatchedByOne /\ HandInv /\ LoadInv
  BY DEF Init, ClientInv, WatchedByOne, InHand, HandInv, LoadInv
<1>3. SumIsSize /\ Balanced
  BY FS_EmptySet DEF Init, SumIsSize, Balanced
<1>4. ScanInv /\ SpreadInv /\ RepliesGoHome
  BY DEF Init, ScanInv, SpreadInv, RepliesGoHome
<1>5. QED
  BY <1>1, <1>2, <1>3, <1>4 DEF IInv

(* What counts the connections, and spreads them, is left alone by every   *)
(* step that touches neither the acceptor nor the counters.                *)
CountVars == <<apc, acid, online, num, aload, sum, eload, member, failed,
               closed, raced>>

CountInv == /\ HandInv /\ LoadInv /\ SumIsSize /\ ScanInv /\ SpreadInv
            /\ Balanced

LEMMA CountButLoad ==
  ASSUME HandInv, SumIsSize, ScanInv, SpreadInv, Balanced,
         UNCHANGED <<apc, acid, online, num, aload, sum, member, failed, closed,
                     raced>>,
         \A e \in Epolls : epc'[e] = epc[e] \/
           {epc[e], epc'[e]} \intersect {"load", "store"} = {}
  PROVE  HandInv' /\ SumIsSize' /\ ScanInv' /\ SpreadInv' /\ Balanced'
<1>1. HandInv'
  BY DEF HandInv
<1>2. SumIsSize'
  BY DEF SumIsSize
<1>3. ScanInv'
  BY DEF ScanInv, Before
<1>4. SpreadInv' /\ Balanced'
  BY DEF SpreadInv, Balanced
<1>5. QED
  BY <1>1, <1>2, <1>3, <1>4

LEMMA CountAside ==
  ASSUME CountInv, UNCHANGED CountVars,
         \A e \in Epolls : epc'[e] = epc[e] \/
           {epc[e], epc'[e]} \intersect {"load", "store"} = {}
  PROVE  CountInv'
<1>1. LoadInv'
  BY DEF CountInv, CountVars, LoadInv
<1>2. QED
  BY <1>1, CountButLoad DEF CountInv, CountVars

-----------------------------------------------------------------------------
(* The clients.                                                            *)

LEMMA ConnectKeeps ==
  ASSUME NEW c \in Clients, IInv, Connect(c)
  PROVE  IInv'
<1> USE DEF IInv, Connect, kernel, acceptor, threads, history
<1>1. TypeOK'
  BY DEF TypeOK
<1>2. ClientInv'
  <2>1. \A d \in Clients : peer'[d] = IF d = c THEN "open" ELSE peer[d]
    BY DEF TypeOK
  <2>2. backlog \subseteq Clients
    BY DEF TypeOK
  <2>3. QED
    BY <2>1, <2>2 DEF ClientInv
<1>3. WatchedByOne'
  BY DEF WatchedByOne, InHand
<1>4. CountInv'
  BY CountAside DEF CountInv, CountVars
<1>5. RepliesGoHome'
  BY DEF RepliesGoHome
<1>6. QED
  BY <1>1, <1>2, <1>3, <1>4, <1>5 DEF CountInv

LEMMA SendKeeps ==
  ASSUME NEW c \in Clients, IInv, Send(c)
  PROVE  IInv'
<1> USE DEF IInv, Send, kernel, acceptor, threads, history
<1>1. TypeOK'
  <2>1. PICK i \in Items : inbox' = [inbox EXCEPT ![c] = Append(@, i)]
    OBVIOUS
  <2>2. inbox' \in [Clients -> Seq(Items)]
    BY <2>1 DEF TypeOK
  <2>3. half' \subseteq Clients /\ packets' \in Nat
    BY DEF TypeOK
  <2>4. QED
    BY <2>2, <2>3 DEF TypeOK
<1>2. ClientInv'
  BY DEF ClientInv
<1>3. WatchedByOne'
  BY DEF WatchedByOne, InHand
<1>4. CountInv'
  BY CountAside DEF CountInv, CountVars
<1>5. RepliesGoHome'
  BY DEF RepliesGoHome
<1>6. QED
  BY <1>1, <1>2, <1>3, <1>4, <1>5 DEF CountInv

LEMMA LeaveKeeps ==
  ASSUME NEW c \in Clients, IInv, Leave(c)
  PROVE  IInv'
<1> USE DEF IInv, Leave, kernel, acceptor, threads, history
<1>1. TypeOK'
  <2>1. peer' \in [Clients -> {"off", "open", "left", "reset", "dead"}]
    BY DEF TypeOK
  <2>2. QED
    BY <2>1 DEF TypeOK
<1>2. ClientInv'
  BY DEF TypeOK, ClientInv
<1>3. WatchedByOne'
  BY DEF WatchedByOne, InHand
<1>4. CountInv'
  BY CountAside DEF CountInv, CountVars
<1>5. RepliesGoHome'
  BY DEF RepliesGoHome
<1>6. QED
  BY <1>1, <1>2, <1>3, <1>4, <1>5 DEF CountInv

-----------------------------------------------------------------------------
(* The acceptor.                                                           *)

LEMMA AcceptKeeps ==
  ASSUME IInv, Accept
  PROVE  IInv'
<1> USE DEF IInv, kernel, acceptor, threads, history
<1>1. CASE \E c \in backlog, fd \in FreeFds :
             /\ acid' = fd
             /\ owner' = [owner EXCEPT ![fd] = c]
             /\ backlog' = backlog \ {c}
             /\ UNCHANGED <<fails, failed>>
  <2>1. PICK c \in backlog, fd \in Fds :
          /\ owner[fd] = NoClient
          /\ acid' = fd
          /\ owner' = [owner EXCEPT ![fd] = c]
          /\ backlog' = backlog \ {c}
          /\ UNCHANGED <<fails, failed>>
    BY <1>1 DEF FreeFds
  <2> USE <2>1 DEF Accept
  <2>2. c \in Clients /\ \A g \in Fds : owner[g] # c
    BY DEF TypeOK, ClientInv
  <2>3. TypeOK'
    BY <2>2 DEF TypeOK
  <2>4. ClientInv'
    BY <2>2 DEF TypeOK, ClientInv
  <2>5. WatchedByOne'
    <3>1. \A g \in Fds : owner'[g] = IF g = fd THEN c ELSE owner[g]
      BY DEF TypeOK
    <3>2. \A g \in Fds : InHand(g)' <=> g = fd
      BY DEF InHand
    <3>3. \A g \in Fds : ~InHand(g)
      BY DEF InHand
    <3>4. \A e \in Epolls : fd \notin member[e]
      BY DEF WatchedByOne
    <3>5. \A g, h \in Fds :
            owner'[g] = owner'[h] /\ owner'[g] # NoClient => g = h
      BY <2>2, <3>1 DEF WatchedByOne
    <3>6. \A g \in Fds :
            owner'[g] # NoClient <=>
              InHand(g)' \/ \E e \in Epolls : g \in member'[e]
      BY <2>2, <3>1, <3>2, <3>3 DEF WatchedByOne
    <3>7. \A e \in Epolls :
            /\ \A g \in member'[e] : ~InHand(g)'
            /\ \A f \in Epolls : e # f => member'[e] \intersect member'[f] = {}
            /\ todo'[e] \subseteq member'[e]
            /\ epc'[e] \in {"body", "close"} => cur'[e] \in member'[e] \ todo'[e]
      <4>1. UNCHANGED <<member, todo, epc, cur>>
        OBVIOUS
      <4>2. \A e \in Epolls : \A g \in member[e] : ~InHand(g)'
        <5>1. \A e \in Epolls : member[e] \subseteq Fds
          BY DEF TypeOK
        <5>2. QED
          BY <3>2, <3>4, <5>1
      <4>3. QED
        BY <4>1, <4>2 DEF WatchedByOne
    <3>8. QED
      BY <3>5, <3>6, <3>7 DEF WatchedByOne
  <2>6. HandInv' /\ LoadInv' /\ SumIsSize'
    BY DEF HandInv, LoadInv, SumIsSize
  <2>7. ScanInv' /\ SpreadInv' /\ Balanced'
    BY DEF ScanInv, SpreadInv, Balanced
  <2>8. RepliesGoHome'
    BY <2>2 DEF TypeOK, RepliesGoHome
  <2>9. QED
    BY <2>3, <2>4, <2>5, <2>6, <2>7, <2>8
<1>2. CASE /\ fails > 0 /\ fails' = fails - 1
           /\ acid' = NoFd /\ failed' = TRUE
           /\ UNCHANGED <<owner, backlog>>
  <2> USE <1>2 DEF Accept
  <2>1. TypeOK'
    <3>1. /\ fails' \in Nat /\ acid' \in Fds \union {NoFd}
          /\ failed' \in BOOLEAN
          /\ apc' \in {"accept", "scan", "add", "load", "store"}
      BY DEF TypeOK
    <3>2. QED
      BY <3>1 DEF TypeOK
  <2>2. ClientInv'
    BY DEF ClientInv
  <2>3. WatchedByOne'
    <3>1. \A g \in Fds : ~InHand(g) /\ ~InHand(g)'
      BY DEF InHand
    <3>2. \A e \in Epolls : \A g \in member[e] : ~InHand(g)'
      BY <3>1 DEF TypeOK
    <3>3. UNCHANGED <<owner, member, todo, epc, cur>>
      OBVIOUS
    <3>4. QED
      BY <3>1, <3>2, <3>3 DEF WatchedByOne
  <2>4. HandInv' /\ LoadInv' /\ SumIsSize'
    BY DEF HandInv, LoadInv, SumIsSize
  <2>5. ScanInv' /\ SpreadInv' /\ Balanced'
    BY DEF ScanInv, SpreadInv, Balanced
  <2>6. RepliesGoHome'
    BY DEF RepliesGoHome
  <2>7. QED
    BY <2>1, <2>2, <2>3, <2>4, <2>5, <2>6
<1>3. QED
  BY <1>1, <1>2 DEF Accept

LEMMA ScanKeeps ==
  ASSUME IInv, Scan
  PROVE  IInv'
<1> USE DEF IInv, kernel, acceptor, threads, history
<1>1. online' \in [Epolls -> Int] /\ num \in Epolls
  BY DEF Scan, TypeOK
<1>2. \A e \in Epolls :
        online'[e] = IF e = num THEN sum[num] ELSE online[e]
  BY DEF Scan, TypeOK
<1>3. \/ num < NEpolls /\ num' = num + 1 /\ apc' = "scan"
      \/ num = NEpolls /\ num' \in Epolls /\ apc' = "add"
  BY MinIsSmallest DEF Scan
<1>4. TypeOK'
  <2>1. num' \in Epolls /\ apc' \in {"scan", "add"}
    BY <1>1, <1>3
  <2>2. QED
    BY <1>1, <2>1 DEF Scan, TypeOK
<1>5. ClientInv'
  BY DEF Scan, ClientInv
<1>6. WatchedByOne'
  BY <1>3 DEF Scan, WatchedByOne, InHand
<1>7. HandInv' /\ LoadInv' /\ SumIsSize'
  BY <1>3 DEF Scan, HandInv, LoadInv, SumIsSize
<1>8. ScanInv'
  <2>1. CASE num < NEpolls
    <3>1. num' - 1 = num
      BY <1>1, <1>3, <2>1
    <3>2. \E e \in 1 .. num : \A f \in 1 .. num : Before(online', e, f)
      BY SmallestSoFar
    <3>3. QED
      BY <1>3, <3>1, <3>2 DEF ScanInv, Before
  <2>2. CASE num = NEpolls
    BY <1>3, <2>2 DEF ScanInv
  <2>3. QED
    BY <1>3, <2>1, <2>2
<1>9. SpreadInv'
  <2>1. SUFFICES ASSUME ~closed
                 PROVE  /\ apc' = "scan" =>
                             \A e \in 1 .. num' - 1 : online'[e] = sum[e]
                        /\ apc' = "add" =>
                             \A e \in Epolls : sum[num'] <= sum[e]
    BY <1>3 DEF Scan, SpreadInv
  <2>2. \A e \in 1 .. num : online'[e] = sum[e]
    BY <1>1, <1>2, <2>1 DEF Scan, SpreadInv
  <2>3. CASE num < NEpolls
    BY <1>1, <1>3, <2>2, <2>3
  <2>4. CASE num = NEpolls
    BY <1>1, <1>3, <2>2, <2>4, MinIsSmallest
  <2>5. QED
    BY <1>3, <2>3, <2>4
<1>10. Balanced' /\ RepliesGoHome'
  BY DEF Scan, Balanced, RepliesGoHome
<1>11. QED
  BY <1>4, <1>5, <1>6, <1>7, <1>8, <1>9, <1>10

(* While the acceptor has nothing to count, the counters are the sizes, up *)
(* to a decrement.                                                         *)
LEMMA SumWhenQuiet ==
  ASSUME IInv, ~raced, ~failed, apc \notin {"load", "store"},
         NEW e \in Epolls
  PROVE  sum[e] = Cardinality(member[e])
                    + (IF epc[e] \in {"load", "store"} THEN 1 ELSE 0)
<1>1. sum[e] + 0 = Cardinality(member[e])
                     + (IF epc[e] \in {"load", "store"} THEN 1 ELSE 0)
  BY DEF IInv, SumIsSize
<1>2. sum[e] \in Int
  BY DEF IInv, TypeOK
<1>3. QED
  BY <1>1, <1>2

LEMMA AddEventKeeps ==
  ASSUME IInv, AddEvent
  PROVE  IInv'
<1> USE DEF IInv, AddEvent, acceptor, threads, history
<1>1. /\ num \in Epolls
      /\ \A e \in Epolls :
           member'[e] = IF e = num THEN member[e] \union ({acid} \ {NoFd})
                                   ELSE member[e]
  BY DEF TypeOK
<1>2. TypeOK'
  <2>1. member' \in [Epolls -> SUBSET Fds]
    BY DEF TypeOK
  <2>2. QED
    BY <2>1 DEF TypeOK
<1>3. ClientInv'
  BY DEF ClientInv
<1>4. WatchedByOne'
  <2>1. \A fd \in Fds : InHand(fd) <=> fd = acid
    BY DEF InHand
  <2>2. \A fd \in Fds : ~InHand(fd)'
    BY DEF InHand
  <2>3. \A e \in Epolls : acid \notin member[e]
    BY <2>1 DEF TypeOK, WatchedByOne
  <2>4. \A fd \in Fds : (\E e \in Epolls : fd \in member'[e]) <=>
                          fd = acid \/ \E e \in Epolls : fd \in member[e]
    BY <1>1
  <2>5. \A fd \in Fds :
          owner'[fd] # NoClient <=> \E e \in Epolls : fd \in member'[e]
    BY <2>1, <2>4 DEF WatchedByOne
  <2>6. \A e, f \in Epolls :
          e # f => member'[e] \intersect member'[f] = {}
    BY <1>1, <2>3 DEF WatchedByOne
  <2>7. \A e \in Epolls :
          /\ todo'[e] \subseteq member'[e]
          /\ epc'[e] \in {"body", "close"} => cur'[e] \in member'[e] \ todo'[e]
    BY <1>1 DEF WatchedByOne
  <2>8. \A e \in Epolls : \A fd \in member'[e] : ~InHand(fd)'
    BY DEF InHand
  <2>9. QED
    BY <2>2, <2>5, <2>6, <2>7, <2>8 DEF WatchedByOne
<1>5. HandInv' /\ LoadInv'
  BY DEF HandInv, LoadInv
<1>6. ~failed => Cardinality(member'[num]) = Cardinality(member[num]) + 1
  <2>1. SUFFICES ASSUME ~failed
                 PROVE  Cardinality(member'[num]) = Cardinality(member[num]) + 1
    OBVIOUS
  <2>2. acid \in Fds /\ member'[num] = member[num] \union {acid}
    BY <1>1, <2>1 DEF TypeOK, HandInv
  <2>3. acid \notin member[num]
    BY <1>1, <2>2 DEF WatchedByOne, InHand
  <2>4. IsFiniteSet(member[num])
    BY <1>1, SetsAreFinite
  <2>5. QED
    BY <2>2, <2>3, <2>4, FS_AddElement
<1>7. \A e \in Epolls : e # num => member'[e] = member[e]
  BY <1>1
<1>8. SumIsSize'
  <2>1. SUFFICES ASSUME ~raced, ~failed, NEW e \in Epolls
                 PROVE  sum[e] + (IF num = e THEN 1 ELSE 0)
                          = Cardinality(member'[e])
                              + (IF epc[e] \in {"load", "store"} THEN 1 ELSE 0)
    BY DEF SumIsSize
  <2>2. sum[e] = Cardinality(member[e])
                   + (IF epc[e] \in {"load", "store"} THEN 1 ELSE 0)
    BY <2>1, SumWhenQuiet
  <2>3. QED
    BY <1>1, <1>6, <1>7, <2>1, <2>2, SetsAreFinite
<1>9. ScanInv' /\ SpreadInv'
  BY DEF ScanInv, SpreadInv
<1>10. Balanced'
  <2>1. SUFFICES ASSUME ~closed, ~failed,
                        NEW e \in Epolls, NEW f \in Epolls
                 PROVE  Cardinality(member'[e]) <= Cardinality(member'[f]) + 1
    BY DEF Balanced
  <2>2. \A g \in Epolls : sum[g] = Cardinality(member[g])
    BY <2>1, SumWhenQuiet, SetsAreFinite DEF SpreadInv
  <2>3. \A g \in Epolls : Cardinality(member[num]) <= Cardinality(member[g])
    BY <1>1, <2>1, <2>2 DEF SpreadInv
  <2>4. Cardinality(member[e]) <= Cardinality(member[f]) + 1
    BY <2>1 DEF Balanced
  <2>5. QED
    BY <1>1, <1>6, <1>7, <2>1, <2>3, <2>4, SetsAreFinite
<1>11. RepliesGoHome'
  BY DEF RepliesGoHome
<1>12. QED
  BY <1>2, <1>3, <1>4, <1>5, <1>8, <1>9, <1>10, <1>11

LEMMA AddLoadKeeps ==
  ASSUME IInv, AddLoad
  PROVE  IInv'
<1> USE DEF IInv, AddLoad, kernel, threads
<1>1. TypeOK'
  BY DEF TypeOK
<1>2. ClientInv' /\ WatchedByOne'
  BY DEF ClientInv, WatchedByOne, InHand
<1>3. HandInv' /\ LoadInv' /\ SumIsSize'
  BY DEF TypeOK, HandInv, LoadInv, SumIsSize
<1>4. ScanInv' /\ SpreadInv' /\ Balanced'
  BY DEF TypeOK, ScanInv, SpreadInv, Balanced
<1>5. RepliesGoHome'
  BY DEF RepliesGoHome
<1>6. QED
  BY <1>1, <1>2, <1>3, <1>4, <1>5

LEMMA AddStoreKeeps ==
  ASSUME IInv, AddStore
  PROVE  IInv'
<1> USE DEF IInv, AddStore, ForgetConnection, kernel, threads, history
<1>1. /\ num \in Epolls /\ aload \in Int
      /\ \A e \in Epolls : sum'[e] = IF e = num THEN aload + 1 ELSE sum[e]
  BY DEF TypeOK
<1>2. TypeOK'
  <2>1. sum' \in [Epolls -> Int]
    BY <1>1 DEF TypeOK
  <2>2. online' \in [Epolls -> Int] /\ num' \in Epolls
    OBVIOUS
  <2>3. QED
    BY <2>1, <2>2 DEF TypeOK
<1>3. ClientInv' /\ WatchedByOne'
  BY DEF ClientInv, WatchedByOne, InHand
<1>4. HandInv' /\ LoadInv'
  BY <1>1 DEF HandInv, LoadInv
<1>5. SumIsSize'
  <2>1. SUFFICES ASSUME ~raced, ~failed, NEW e \in Epolls
                 PROVE  sum'[e] + 0 = Cardinality(member[e])
                          + (IF epc[e] \in {"load", "store"} THEN 1 ELSE 0)
    BY DEF SumIsSize
  <2>2. aload = sum[num]
    BY <2>1 DEF LoadInv
  <2>3. sum[e] + (IF num = e THEN 1 ELSE 0)
          = Cardinality(member[e])
              + (IF epc[e] \in {"load", "store"} THEN 1 ELSE 0)
    BY <2>1 DEF SumIsSize
  <2>4. Cardinality(member[e]) \in Nat /\ sum[e] \in Int
    BY SetsAreFinite DEF TypeOK
  <2>5. QED
    BY <1>1, <2>2, <2>3, <2>4
<1>6. ScanInv' /\ SpreadInv' /\ Balanced'
  BY DEF ScanInv, SpreadInv, Balanced
<1>7. RepliesGoHome'
  BY DEF RepliesGoHome
<1>8. QED
  BY <1>2, <1>3, <1>4, <1>5, <1>6, <1>7

-----------------------------------------------------------------------------
(* The epoll threads.                                                      *)

(* A thread that works on what it watches, beside what is left of its      *)
(* batch, leaves every other thread's part of WatchedByOne alone.          *)
LEMMA BatchAside ==
  ASSUME TypeOK, WatchedByOne, NEW e \in Epolls,
         UNCHANGED <<owner, member, apc, acid>>,
         \A f \in Epolls : f # e => /\ todo'[f] = todo[f]
                                    /\ epc'[f] = epc[f] /\ cur'[f] = cur[f],
         todo'[e] \subseteq member[e],
         epc'[e] \in {"body", "close"} => cur'[e] \in member[e] \ todo'[e]
  PROVE  WatchedByOne'
<1>1. \A f \in Epolls :
        /\ todo'[f] \subseteq member'[f]
        /\ epc'[f] \in {"body", "close"} => cur'[f] \in member'[f] \ todo'[f]
  BY DEF WatchedByOne
<1>2. \A fd \in Fds : InHand(fd)' <=> InHand(fd)
  BY DEF InHand
<1>3. \A f \in Epolls : \A fd \in member'[f] : ~InHand(fd)'
  BY DEF WatchedByOne, InHand
<1>4. QED
  BY <1>1, <1>2, <1>3 DEF WatchedByOne

(* What a read leaves of TypeOK to prove.                                  *)
LEMMA TypeAside ==
  ASSUME TypeOK,
         UNCHANGED <<backlog, half, owner, member, up, packets, fails, acceptor,
                     sum, history>>,
         inbox' \in [Clients -> Seq(Items)],
         peer' \in [Clients -> {"off", "open", "left", "reset", "dead"}],
         epc' \in [Epolls ->
                     {"wait", "event", "body", "close", "load", "store"}],
         cur' \in [Epolls -> Fds \union {NoFd}],
         eload' \in [Epolls -> Int],
         todo' \in [Epolls -> SUBSET Fds],
         pending' \in [Fds -> [Clients -> Nat]]
  PROVE  TypeOK'
<1>1. /\ backlog' \subseteq Clients /\ half' \subseteq Clients
      /\ owner' \in [Fds -> Clients \union {NoClient}]
      /\ member' \in [Epolls -> SUBSET Fds]
      /\ packets' \in Nat /\ fails' \in Nat /\ up' \in BOOLEAN
  BY DEF TypeOK
<1>2. /\ apc' \in {"accept", "scan", "add", "load", "store"}
      /\ acid' \in Fds \union {NoFd}
      /\ online' \in [Epolls -> Int]
      /\ num' \in Epolls /\ aload' \in Int /\ sum' \in [Epolls -> Int]
  BY DEF TypeOK, acceptor
<1>3. /\ failed' \in BOOLEAN /\ closed' \in BOOLEAN /\ raced' \in BOOLEAN
      /\ orphaned' \in BOOLEAN /\ wrong' \in BOOLEAN
  BY DEF TypeOK, history
<1>4. QED
  BY <1>1, <1>2, <1>3, Zenon DEF TypeOK

LEMMA WaitKeeps ==
  ASSUME NEW e \in Epolls, IInv, Wait(e)
  PROVE  IInv'
<1> USE DEF IInv, Wait, kernel, acceptor, threads, history
<1>1. Ready(e) \subseteq member[e]
  BY DEF Ready
<1>2. TypeOK'
  BY <1>1 DEF TypeOK
<1>3. ClientInv'
  BY DEF ClientInv
<1>4. WatchedByOne'
  <2>1. /\ todo'[e] = Ready(e) /\ epc'[e] = "event"
        /\ \A f \in Epolls : f # e => /\ todo'[f] = todo[f]
                                      /\ epc'[f] = epc[f] /\ cur'[f] = cur[f]
    BY DEF TypeOK
  <2>2. QED
    BY <1>1, <2>1, BatchAside
<1>5. CountInv'
  BY CountAside DEF TypeOK, CountInv, CountVars
<1>6. RepliesGoHome'
  BY DEF RepliesGoHome
<1>7. QED
  BY <1>2, <1>3, <1>4, <1>5, <1>6 DEF CountInv

LEMMA ReadHeadKeeps ==
  ASSUME NEW e \in Epolls, NEW fd \in Fds, IInv, ReadHead(e, fd)
  PROVE  IInv'
<1> USE DEF IInv
<1> DEFINE c == owner[fd]
<1>1. /\ fd \in member[e] /\ fd \notin todo'[e] /\ todo'[e] \subseteq todo[e]
      /\ c \in Clients
  BY WatchedIsOwned DEF ReadHead, TypeOK
<1>2. /\ UNCHANGED <<backlog, half, owner, member, up, packets, fails, acceptor,
                     sum, pending, history>>
      /\ epc[e] = "event"
      /\ todo' = [todo EXCEPT ![e] = @ \ {fd}]
  BY DEF ReadHead
<1>3. \/ inbox' = inbox
      \/ inbox[c] # <<>> /\ inbox' = [inbox EXCEPT ![c] = Tail(@)]
  BY DEF ReadHead
<1>4. \/ peer' = peer
      \/ peer[c] = "reset" /\ peer' = [peer EXCEPT ![c] = "dead"]
  BY DEF ReadHead
<1>5. \/ NextEvent(e, todo'[e])
      \/ GoOn(e, fd, "body")
      \/ GoOn(e, fd, "close")
  BY DEF ReadHead
<1>6. /\ \E s \in {"wait", "event", "body", "close"} :
           epc' = [epc EXCEPT ![e] = s]
      /\ \E g \in {fd, NoFd} : cur' = [cur EXCEPT ![e] = g]
      /\ eload' = eload \/ eload' = [eload EXCEPT ![e] = 0]
      /\ epc'[e] \in {"body", "close"} => cur'[e] = fd
  BY <1>5 DEF NextEvent, GoOn, TypeOK
<1>7. TypeOK'
  <2>1. inbox' \in [Clients -> Seq(Items)]
    <3>1. inbox \in [Clients -> Seq(Items)] /\ inbox[c] \in Seq(Items)
      BY <1>1 DEF TypeOK
    <3>2. inbox[c] # <<>> => Tail(inbox[c]) \in Seq(Items)
      BY <3>1, TailIsTyped
    <3>3. QED
      BY <1>1, <1>3, <3>1, <3>2
  <2>2. peer' \in [Clients -> {"off", "open", "left", "reset", "dead"}]
    BY <1>1, <1>4 DEF TypeOK
  <2>3. /\ epc' \in [Epolls ->
                       {"wait", "event", "body", "close", "load", "store"}]
        /\ cur' \in [Epolls -> Fds \union {NoFd}]
        /\ eload' \in [Epolls -> Int]
    <3>1. epc' \in [Epolls ->
                      {"wait", "event", "body", "close", "load", "store"}]
      BY <1>6 DEF TypeOK
    <3>2. cur' \in [Epolls -> Fds \union {NoFd}]
      BY <1>6 DEF TypeOK
    <3>3. eload' \in [Epolls -> Int]
      <4>1. eload \in [Epolls -> Int]
        BY DEF TypeOK
      <4>2. CASE eload' = [eload EXCEPT ![e] = 0]
        BY <4>1, <4>2
      <4>3. QED
        BY <1>6, <4>1, <4>2
    <3>4. QED
      BY <3>1, <3>2, <3>3
  <2>4. /\ todo' \in [Epolls -> SUBSET Fds]
        /\ pending' \in [Fds -> [Clients -> Nat]]
    BY <1>2 DEF TypeOK
  <2>5. QED
    BY <1>2, <2>1, <2>2, <2>3, <2>4, TypeAside DEF history
<1>8. ClientInv'
  <2>1. \A d \in Clients : peer'[d] = "off" => peer[d] = "off"
    BY <1>1, <1>4 DEF TypeOK
  <2>2. \A d \in backlog : d \in Clients /\ d # c
    BY <1>1 DEF TypeOK, ClientInv
  <2>3. \A d \in backlog : peer'[d] = peer[d]
    BY <1>1, <1>4, <2>2 DEF TypeOK
  <2>4. QED
    BY <1>2, <2>1, <2>3 DEF ClientInv
<1>9. WatchedByOne'
  <2>1. \A f \in Epolls : f # e => /\ todo'[f] = todo[f]
                                   /\ epc'[f] = epc[f] /\ cur'[f] = cur[f]
    BY <1>2, <1>6 DEF TypeOK
  <2>2. todo'[e] \subseteq member[e]
    BY <1>1 DEF WatchedByOne
  <2>3. QED
    BY <1>1, <1>2, <1>6, <2>1, <2>2, BatchAside DEF acceptor
<1>10. CountInv'
  <2>1. CASE eload' = eload
    BY <1>2, <1>6, <2>1, CountAside
       DEF TypeOK, CountInv, CountVars, acceptor, history
  <2>2. CASE eload' = [eload EXCEPT ![e] = 0]
    <3>1. LoadInv'
      BY <1>2, <1>6, <2>2 DEF TypeOK, LoadInv, acceptor, history
    <3>2. QED
      BY <1>2, <1>6, <3>1, CountButLoad DEF TypeOK, CountInv, acceptor, history
  <2>3. QED
    BY <1>6, <2>1, <2>2
<1>11. RepliesGoHome'
  BY <1>2 DEF RepliesGoHome, history
<1>12. QED
  BY <1>7, <1>8, <1>9, <1>10, <1>11 DEF CountInv

LEMMA ReadBodyKeeps ==
  ASSUME NEW e \in Epolls, IInv, ReadBody(e)
  PROVE  IInv'
<1> USE DEF IInv
<1> DEFINE fd == cur[e]
           c == owner[fd]
<1>1. fd \in Fds /\ fd \in member[e] /\ c \in Clients
  BY WatchedIsOwned DEF ReadBody
<1>2. /\ UNCHANGED <<backlog, half, owner, member, up, packets, fails, acceptor,
                     sum, todo, history>>
      /\ epc[e] = "body"
      /\ NextEvent(e, todo[e])
  BY DEF ReadBody
<1>3. \/ /\ inbox[c] # <<>> /\ inbox' = [inbox EXCEPT ![c] = Tail(@)]
         /\ pending' = [pending EXCEPT ![fd][c] = @ + 1]
         /\ UNCHANGED peer
      \/ /\ peer[c] # "open" /\ UNCHANGED <<inbox, pending>>
         /\ peer' = [peer EXCEPT ![c] = IF @ = "reset" THEN "dead" ELSE @]
  BY DEF ReadBody
<1>4. /\ \E s \in {"wait", "event"} : epc' = [epc EXCEPT ![e] = s]
      /\ cur' = [cur EXCEPT ![e] = NoFd]
      /\ eload' = [eload EXCEPT ![e] = 0]
  BY <1>2 DEF NextEvent
<1>5. \A d \in Clients : peer'[d] = "off" => peer[d] = "off"
  BY <1>1, <1>3 DEF TypeOK
<1>6. /\ pending' \in [Fds -> [Clients -> Nat]]
      /\ \A g \in Fds, d \in Clients :
           pending'[g][d] # pending[g][d] => g = fd /\ d = c
  <2>1. pending \in [Fds -> [Clients -> Nat]]
    BY DEF TypeOK
  <2>2. PICK n \in Nat : n = pending[fd][c] + 1
    BY <1>1, <2>1
  <2>3. CASE pending' = [pending EXCEPT ![fd] = [@ EXCEPT ![c] = n]]
    <3>1. PICK g \in Fds, d \in Clients : g = fd /\ d = c
      BY <1>1
    <3>2. pending' = [pending EXCEPT ![g] = [@ EXCEPT ![d] = n]]
      BY <2>3, <3>1
    <3>3. pending' \in [Fds -> [Clients -> Nat]]
      <4>1. TypeOK
        OBVIOUS
      <4>2. QED
        BY ONLY <3>2, <4>1, PendingSet, n \in Nat, g \in Fds, d \in Clients
    <3>4. \A h \in Fds, b \in Clients :
            pending'[h][b] = IF h = g /\ b = d THEN n ELSE pending[h][b]
      <4>1. TypeOK
        OBVIOUS
      <4>2. QED
        BY ONLY <3>2, <4>1, PendingSet, n \in Nat, g \in Fds, d \in Clients
    <3>5. QED
      BY <3>1, <3>3, <3>4
  <2>4. CASE pending' = pending
    BY <2>1, <2>4
  <2>5. QED
    BY <1>3, <2>2, <2>3, <2>4
<1>7. TypeOK'
  <2>1. inbox' \in [Clients -> Seq(Items)]
    <3>1. inbox \in [Clients -> Seq(Items)] /\ inbox[c] \in Seq(Items)
      BY <1>1 DEF TypeOK
    <3>2. inbox[c] # <<>> => Tail(inbox[c]) \in Seq(Items)
      BY <3>1, TailIsTyped
    <3>3. QED
      BY <1>1, <1>3, <3>1, <3>2
  <2>2. peer' \in [Clients -> {"off", "open", "left", "reset", "dead"}]
    BY <1>1, <1>3 DEF TypeOK
  <2>3. pending' \in [Fds -> [Clients -> Nat]]
    BY <1>3, <1>6 DEF TypeOK
  <2>4. /\ epc' \in [Epolls ->
                       {"wait", "event", "body", "close", "load", "store"}]
        /\ cur' \in [Epolls -> Fds \union {NoFd}]
        /\ eload' \in [Epolls -> Int]
    BY <1>4 DEF TypeOK
  <2>5. todo' \in [Epolls -> SUBSET Fds]
    BY <1>2 DEF TypeOK
  <2>6. QED
    BY <1>2, <2>1, <2>2, <2>3, <2>4, <2>5, TypeAside DEF history
<1>8. ClientInv'
  BY <1>1, <1>2, <1>5 DEF TypeOK, ClientInv
<1>9. WatchedByOne'
  <2>1. /\ \A f \in Epolls : f # e => /\ todo'[f] = todo[f]
                                      /\ epc'[f] = epc[f] /\ cur'[f] = cur[f]
        /\ epc'[e] \in {"wait", "event"}
    BY <1>2, <1>4 DEF TypeOK
  <2>2. todo'[e] \subseteq member[e]
    BY <1>2 DEF WatchedByOne
  <2>3. QED
    BY <1>2, <2>1, <2>2, BatchAside DEF acceptor
<1>10. LoadInv'
  BY <1>2, <1>4 DEF TypeOK, LoadInv, acceptor, history
<1>11. CountInv'
  BY <1>2, <1>4, <1>10, CountButLoad DEF TypeOK, CountInv, acceptor, history
<1>12. RepliesGoHome'
  <2>1. \A g \in Fds, d \in Clients :
          pending'[g][d] > 0 => pending[g][d] > 0 \/ owner[g] = d
    BY <1>1, <1>6
  <2>2. QED
    BY <1>2, <2>1 DEF RepliesGoHome, history
<1>13. QED
  BY <1>7, <1>8, <1>9, <1>11, <1>12 DEF CountInv

LEMMA CloseKeeps ==
  ASSUME NEW e \in Epolls, IInv, Close(e)
  PROVE  IInv'
<1> USE DEF IInv, Close, acceptor
<1> DEFINE fd == cur[e]
<1>1. fd \in Fds /\ fd \in member[e] /\ fd \notin todo[e]
  BY WatchedIsOwned DEF WatchedByOne
<1>2. /\ \A g \in Fds : owner'[g] = IF g = fd THEN NoClient ELSE owner[g]
      /\ \A f \in Epolls : /\ member'[f] = member[f] \ {fd}
                           /\ epc'[f] = IF f = e THEN "load" ELSE epc[f]
  <2>1. \A f \in Epolls : f # e => fd \notin member[f]
    BY <1>1 DEF WatchedByOne
  <2>2. QED
    BY <2>1 DEF TypeOK
<1>3. TypeOK'
  BY DEF TypeOK
<1>4. ClientInv'
  BY <1>2 DEF TypeOK, ClientInv
<1>5. WatchedByOne'
  <2>1. \A g \in Fds : InHand(g)' <=> InHand(g)
    BY DEF InHand
  <2>2. ~InHand(fd)
    BY <1>1 DEF WatchedByOne
  <2>3. \A g, h \in Fds :
          owner'[g] = owner'[h] /\ owner'[g] # NoClient => g = h
    BY <1>2 DEF WatchedByOne
  <2>4. \A g \in Fds :
          owner'[g] # NoClient <=>
            InHand(g)' \/ \E f \in Epolls : g \in member'[f]
    BY <1>2, <2>1, <2>2 DEF WatchedByOne
  <2>5. \A f \in Epolls : \A g \in member'[f] : ~InHand(g)'
    BY <1>2 DEF WatchedByOne, InHand
  <2>6. \A f, g \in Epolls :
          f # g => member'[f] \intersect member'[g] = {}
    BY <1>2 DEF WatchedByOne
  <2>7. \A f \in Epolls :
          f # e => fd \notin member[f]
    BY <1>1 DEF WatchedByOne
  <2>8. \A f \in Epolls :
          /\ todo'[f] \subseteq member'[f]
          /\ epc'[f] \in {"body", "close"} => cur'[f] \in member'[f] \ todo'[f]
    BY <1>1, <1>2, <2>7 DEF WatchedByOne
  <2>9. QED
    BY <2>3, <2>4, <2>5, <2>6, <2>8 DEF WatchedByOne
<1>6. HandInv' /\ LoadInv' /\ ScanInv' /\ SpreadInv' /\ Balanced'
  BY <1>2 DEF HandInv, LoadInv, ScanInv, SpreadInv, Balanced
<1>7. SumIsSize'
  <2>1. Cardinality(member'[e]) = Cardinality(member[e]) - 1
    <3>1. IsFiniteSet(member[e])
      BY SetsAreFinite
    <3>2. QED
      BY <1>1, <1>2, <3>1, FS_RemoveElement
  <2>2. \A f \in Epolls : f # e => member'[f] = member[f]
    BY DEF TypeOK
  <2>3. \A f \in Epolls : Cardinality(member[f]) \in Nat
    BY SetsAreFinite
  <2>4. SUFFICES ASSUME ~raced, ~failed, NEW f \in Epolls
                 PROVE  sum[f] + (IF apc \in {"load", "store"} /\ num = f
                                    THEN 1 ELSE 0)
                          = Cardinality(member'[f])
                              + (IF epc'[f] \in {"load", "store"} THEN 1 ELSE 0)
    BY DEF SumIsSize
  <2>5. sum[f] + (IF apc \in {"load", "store"} /\ num = f THEN 1 ELSE 0)
          = Cardinality(member[f])
              + (IF epc[f] \in {"load", "store"} THEN 1 ELSE 0)
    BY <2>4 DEF SumIsSize
  <2>6. CASE f = e
    <3>1. epc[f] = "close" /\ epc'[f] = "load"
      BY <1>2, <2>6
    <3>2. QED
      BY <2>1, <2>3, <2>5, <2>6, <3>1
  <2>7. CASE f # e
    <3>1. epc'[f] = epc[f] /\ member'[f] = member[f]
      BY <1>2, <2>2, <2>7
    <3>2. QED
      BY <2>5, <3>1
  <2>8. QED
    BY <2>6, <2>7
<1>8. RepliesGoHome'
  BY <1>1, <1>2 DEF TypeOK, RepliesGoHome
<1>9. QED
  BY <1>3, <1>4, <1>5, <1>6, <1>7, <1>8

LEMMA SubLoadKeeps ==
  ASSUME NEW e \in Epolls, IInv, SubLoad(e)
  PROVE  IInv'
<1> USE DEF IInv, SubLoad, kernel, acceptor
<1>1. TypeOK' /\ ClientInv'
  BY DEF TypeOK, ClientInv
<1>2. WatchedByOne'
  BY DEF TypeOK, WatchedByOne, InHand
<1>3. HandInv' /\ LoadInv' /\ SumIsSize'
  BY DEF TypeOK, HandInv, LoadInv, SumIsSize
<1>4. ScanInv' /\ SpreadInv' /\ Balanced'
  BY DEF TypeOK, ScanInv, SpreadInv, Balanced
<1>5. RepliesGoHome'
  BY DEF RepliesGoHome
<1>6. QED
  BY <1>1, <1>2, <1>3, <1>4, <1>5

LEMMA SubStoreKeeps ==
  ASSUME NEW e \in Epolls, IInv, SubStore(e)
  PROVE  IInv'
<1> USE DEF IInv, SubStore, kernel, acceptor, history
<1>1. /\ \E s \in {"wait", "event"} : epc' = [epc EXCEPT ![e] = s]
      /\ cur' = [cur EXCEPT ![e] = NoFd]
      /\ eload' = [eload EXCEPT ![e] = 0]
  BY DEF NextEvent
<1>2. /\ \A f \in Epolls : sum'[f] = IF f = e THEN eload[e] - 1 ELSE sum[f]
      /\ \A f \in Epolls : f # e => epc'[f] = epc[f] /\ eload'[f] = eload[f]
      /\ epc'[e] \in {"wait", "event"}
  BY <1>1 DEF TypeOK
<1>3. TypeOK'
  <2>1. epc' \in [Epolls ->
                    {"wait", "event", "body", "close", "load", "store"}]
    BY <1>1 DEF TypeOK
  <2>2. cur' \in [Epolls -> Fds \union {NoFd}]
    BY <1>1 DEF TypeOK
  <2>3. eload' \in [Epolls -> Int]
    BY <1>1 DEF TypeOK
  <2>4. sum' \in [Epolls -> Int]
    BY DEF TypeOK
  <2>5. QED
    BY <2>1, <2>2, <2>3, <2>4 DEF TypeOK
<1>4. ClientInv'
  BY DEF ClientInv
<1>5. WatchedByOne'
  <2>1. \A f \in Epolls : f # e => /\ todo'[f] = todo[f]
                                   /\ epc'[f] = epc[f] /\ cur'[f] = cur[f]
    BY <1>1 DEF TypeOK
  <2>2. todo'[e] \subseteq member[e]
    BY DEF WatchedByOne
  <2>3. QED
    BY <1>2, <2>1, <2>2, BatchAside
<1>6. HandInv' /\ ScanInv' /\ SpreadInv' /\ Balanced' /\ RepliesGoHome'
  BY <1>2 DEF HandInv, ScanInv, SpreadInv, Balanced, RepliesGoHome
<1>7. LoadInv'
  BY <1>2 DEF LoadInv
<1>8. SumIsSize'
  <2>1. ~raced => eload[e] = sum[e]
    BY DEF LoadInv
  <2>2. \A f \in Epolls : /\ Cardinality(member[f]) \in Nat
                          /\ sum[f] \in Int /\ eload[f] \in Int
    BY SetsAreFinite DEF TypeOK
  <2>3. QED
    BY <1>2, <2>1, <2>2 DEF SumIsSize
<1>9. QED
  BY <1>3, <1>4, <1>5, <1>6, <1>7, <1>8

-----------------------------------------------------------------------------
(* The replies.                                                            *)

(* A request that is answered, or lost, is one less.                       *)
LEMMA OneLess ==
  ASSUME TypeOK, NEW fd \in Fds, NEW c \in Clients, pending[fd][c] > 0,
         pending' = [pending EXCEPT ![fd][c] = @ - 1]
  PROVE  /\ pending' \in [Fds -> [Clients -> Nat]]
         /\ \A g \in Fds, b \in Clients :
              pending'[g][b] > 0 => pending[g][b] > 0
<1>1. pending \in [Fds -> [Clients -> Nat]]
  BY DEF TypeOK
<1>2. PICK n \in Nat : n = pending[fd][c] - 1
  BY <1>1
<1>3. pending' = [pending EXCEPT ![fd] = [@ EXCEPT ![c] = n]]
  BY <1>1, <1>2
<1>4. QED
  BY <1>1, <1>2, <1>3, PendingSet

LEMMA AnswerKeeps ==
  ASSUME NEW fd \in Fds, NEW c \in Clients, IInv, Answer(fd, c)
  PROVE  IInv'
<1> USE DEF IInv
<1> DEFINE d == owner[fd]
<1>1. /\ UNCHANGED <<backlog, half, inbox, owner, member, packets, fails,
                     acceptor, sum, threads, failed, closed, raced, orphaned>>
      /\ pending[fd][c] > 0
      /\ pending' = [pending EXCEPT ![fd][c] = @ - 1]
      /\ d \in Clients \union {NoClient}
  BY DEF Answer, TypeOK
<1>2. \/ peer' = peer
      \/ /\ d # NoClient /\ peer[d] \in {"left", "reset"}
         /\ \E s \in {"left", "dead"} : peer' = [peer EXCEPT ![d] = s]
  BY DEF Answer
<1>3. up' \in {up, FALSE} /\ wrong' \in {wrong, wrong \/ d # c}
  BY DEF Answer
<1>4. TypeOK'
  <2>1. peer' \in [Clients -> {"off", "open", "left", "reset", "dead"}]
    BY <1>1, <1>2 DEF TypeOK
  <2>2. pending' \in [Fds -> [Clients -> Nat]]
    BY <1>1, OneLess
  <2>3. up' \in BOOLEAN /\ wrong' \in BOOLEAN
    BY <1>3 DEF TypeOK
  <2>4. QED
    BY <1>1, <2>1, <2>2, <2>3 DEF TypeOK, acceptor, threads
<1>5. ClientInv'
  BY <1>1, <1>2 DEF TypeOK, ClientInv
<1>6. WatchedByOne'
  BY <1>1 DEF WatchedByOne, InHand, acceptor, threads
<1>7. CountInv'
  BY <1>1, CountAside DEF CountInv, CountVars, acceptor, threads
<1>8. RepliesGoHome'
  <2>1. \A g \in Fds, b \in Clients : pending'[g][b] > 0 => pending[g][b] > 0
    BY <1>1, OneLess
  <2>2. QED
    BY <1>1, <1>3, <2>1 DEF RepliesGoHome
<1>9. QED
  BY <1>4, <1>5, <1>6, <1>7, <1>8 DEF CountInv

LEMMA LoseKeeps ==
  ASSUME NEW fd \in Fds, NEW c \in Clients, IInv, Lose(fd, c)
  PROVE  IInv'
<1> USE DEF IInv, Lose, kernel, acceptor, threads, history
<1>1. /\ pending' \in [Fds -> [Clients -> Nat]]
      /\ \A g \in Fds, b \in Clients : pending'[g][b] > 0 => pending[g][b] > 0
  BY OneLess
<1>2. TypeOK' /\ ClientInv'
  BY <1>1 DEF TypeOK, ClientInv
<1>3. WatchedByOne'
  BY DEF WatchedByOne, InHand
<1>4. CountInv'
  BY CountAside DEF CountInv, CountVars
<1>5. RepliesGoHome'
  BY <1>1 DEF RepliesGoHome
<1>6. QED
  BY <1>2, <1>3, <1>4, <1>5 DEF CountInv

LEMMA StutterKeeps ==
  ASSUME IInv, UNCHANGED vars
  PROVE  IInv'
<1> USE DEF IInv, vars, kernel, acceptor, threads, history
<1>1. TypeOK' /\ ClientInv'
  BY DEF TypeOK, ClientInv
<1>2. WatchedByOne'
  BY DEF WatchedByOne, InHand
<1>3. CountInv'
  BY CountAside DEF CountInv, CountVars
<1>4. RepliesGoHome'
  BY DEF RepliesGoHome
<1>5. QED
  BY <1>1, <1>2, <1>3, <1>4 DEF CountInv

-----------------------------------------------------------------------------
LEMMA NextIInv == IInv /\ [Next]_vars => IInv'
<1> SUFFICES ASSUME IInv, [Next]_vars PROVE IInv'
  OBVIOUS
<1>1. ASSUME NEW c \in Clients, Connect(c) \/ Send(c) \/ Leave(c) PROVE IInv'
  BY <1>1, ConnectKeeps, SendKeeps, LeaveKeeps
<1>2. CASE AcceptorStep
  BY <1>2, AcceptKeeps, ScanKeeps, AddEventKeeps, AddLoadKeeps, AddStoreKeeps
     DEF AcceptorStep
<1>3. ASSUME NEW e \in Epolls, EpollStep(e) PROVE IInv'
  BY <1>3, WaitKeeps, ReadHeadKeeps, ReadBodyKeeps, CloseKeeps, SubLoadKeeps,
     SubStoreKeeps DEF EpollStep
<1>4. ASSUME NEW fd \in Fds, NEW c \in Clients, Answer(fd, c) \/ Lose(fd, c)
      PROVE  IInv'
  BY <1>4, AnswerKeeps, LoseKeeps
<1>5. CASE UNCHANGED vars
  BY <1>5, StutterKeeps
<1>6. QED
  BY <1>1, <1>2, <1>3, <1>4, <1>5 DEF Next

(* The inductive invariant, for every number of clients, threads and fds.  *)
THEOREM Invariance == Spec => []IInv
<1>1. QED
  BY InitIInv, NextIInv, PTL DEF Spec

(* Every fd, counter and program point of Connections stays what it is     *)
(* declared as; min_epid_onlineuser() always finds a thread (main.cpp).    *)
THEOREM TypeCorrect == Spec => []TypeOK
<1>1. IInv => TypeOK
  BY DEF IInv
<1>2. QED
  BY <1>1, Invariance, PTL

(* Every open connection is watched by exactly one epoll thread, or still  *)
(* in the acceptor's hand, and a number given out again is in no old batch *)
(* (EpollSecond.cpp).                                                      *)
THEOREM WatchedByOneCorrect == Spec => []WatchedByOne
<1>1. IInv => WatchedByOne
  BY DEF IInv
<1>2. QED
  BY <1>1, Invariance, PTL

(* lis_fd_sum counts the epoll set for as long as its increments and its   *)
(* decrements never overlap and no accept() fails (EpollSecond.h).         *)
THEOREM SumIsSizeCorrect == Spec => []SumIsSize
<1>1. IInv => SumIsSize
  BY DEF IInv
<1>2. QED
  BY <1>1, Invariance, PTL

(* However many epoll threads there are, the acceptor keeps them within    *)
(* one connection of each other while nobody is closed (main.cpp).         *)
THEOREM BalancedCorrect == Spec => []Balanced
<1>1. IInv => Balanced
  BY DEF IInv
<1>2. QED
  BY <1>1, Invariance, PTL

(* A reply reaches the client who asked, unless a connection was closed    *)
(* with requests of it on their way (OperationThread.cpp).                 *)
THEOREM RepliesGoHomeCorrect == Spec => []RepliesGoHome
<1>1. IInv => RepliesGoHome
  BY DEF IInv
<1>2. QED
  BY <1>1, Invariance, PTL
=============================================================================
