---------------------------- MODULE ServerProofs ----------------------------
(* What holds of the starts, the two processes and the segments of Server, *)
(* for any number of clients, threads, blocks, starts and deaths.          *)
EXTENDS Server, TLAPS

USE ServerAssumption DEF ServerAssumption

(* A start that holds the port holds it alone, with no server beside it.   *)
PortInv ==
  /\ \A s, r \in Starts : main[s] = "bound" /\ main[r] = "bound" => s = r
  /\ \A s \in Starts : main[s] = "bound" => net \union db = {}

Filled(q, k) == \A i \in 1 .. k : block[q][i] \in Messages

(* The blocks below any counter, the locals of the actors included, were   *)
(* filled by some server.                                                  *)
CountInv(q) ==
  /\ block[q] \in [1 .. Cap(q) -> Messages \union {NoMessage}]
  /\ thread[q] \in [Pool(q) -> [at : {"idle", "loaded"},
                                msg : Messages \union {NoMessage}, used : Nat]]
  /\ used[q] <= Cap(q) /\ Filled(q, used[q])
  /\ \A t \in Pool(q) :
       thread[q][t].at = "loaded" =>
         /\ thread[q][t].msg \in Messages
         /\ thread[q][t].used \in 1 .. Cap(q)
         /\ Filled(q, thread[q][t].used - 1)
  /\ taker[q].at # "wait" =>
       /\ taker[q].msg \in Messages
       /\ taker[q].used \in 1 .. Cap(q)
       /\ Filled(q, taker[q].used)

(* A process that is dead has no tasks, and its actors do nothing.         *)
DeadInv(q) ==
  /\ Posting(q) = {} => /\ tasks[q] = <<>>
                        /\ \A t \in Pool(q) : thread[q][t].at = "idle"
  /\ Taking(q) = {} => taker[q].at = "wait"

(* m was read by the server that runs. *)
Ours(m) == m.by \in net \union db

OursUpTo(q, k) == \A i \in 1 .. k : Ours(block[q][i])

(* While no start was crowded: starts come one at a time and meet nobody;  *)
(* they clear what is old; and then everything is of the server that runs. *)
AloneInv ==
  ~crowded =>
    /\ \A s, r \in Starts : Starting(s) /\ Starting(r) => s = r
    /\ \A s \in Starts :
         Starting(s) => /\ net \union db = {} /\ used["request"] = 0
                        /\ main[s] # "requests" => used["reply"] = 0

OursInv(q) ==
  ~crowded =>
    /\ \A i \in DOMAIN tasks[q] : Ours(tasks[q][i])
    /\ \A t \in Pool(q) :
         thread[q][t].at = "loaded" =>
           Ours(thread[q][t].msg) /\ OursUpTo(q, thread[q][t].used - 1)
    /\ taker[q].at # "wait" =>
         Ours(taker[q].msg) /\ OursUpTo(q, taker[q].used)
    /\ net \union db # {} => OursUpTo(q, used[q])

(* The block the taker is about to give back. *)
Held(q) == IF taker[q].at = "wait" THEN 0 ELSE 1

(* Until actors overlap: one at a time is inside, with the counter as it   *)
(* is, and each token stands for a block of this server, on top.           *)
RaceInv(q) ==
  ~raced /\ net \union db # {} =>
    /\ \A t, u \in Pool(q) :
         thread[q][t].at = "loaded" /\ thread[q][u].at = "loaded" => t = u
    /\ \A t \in Pool(q) :
         thread[q][t].at = "loaded" => /\ taker[q].at = "wait"
                                       /\ thread[q][t].used = used[q] + 1
                                       /\ Ours(thread[q][t].msg)
    /\ taker[q].at # "wait" => taker[q].used = used[q] /\ Ours(taker[q].msg)
    /\ sem[q] + Held(q) <= used[q]
    /\ \A i \in 1 .. used[q] :
         i > used[q] - sem[q] - Held(q) => Ours(block[q][i])
    /\ \A i \in DOMAIN tasks[q] : Ours(tasks[q][i])

QueueInv(q) == CountInv(q) /\ DeadInv(q) /\ OursInv(q) /\ RaceInv(q)

(* The types of the rest. *)
TypeInv ==
  /\ main \in [Starts -> {"none", "requests", "replies", "bound", "over"}]
  /\ net \subseteq Starts /\ db \subseteq Starts
  /\ used \in [Queues -> Nat] /\ sem \in [Queues -> Nat]
  /\ DOMAIN block = Queues /\ DOMAIN thread = Queues
  /\ tasks \in [Queues -> Seq(Messages)]
  /\ taker \in [Queues -> [at : {"wait", "hand", "store"},
                          msg : Messages \union {NoMessage}, used : Nat]]
  /\ asked \in 0 .. MaxRequests /\ waits \in [Clients -> 0 .. MaxRequests]
  /\ deaths \in Nat
  /\ crowded \in BOOLEAN /\ raced \in BOOLEAN /\ dropped \in BOOLEAN
  /\ stale \in BOOLEAN /\ mismatch \in BOOLEAN

IInv ==
  /\ TypeInv /\ PortInv /\ OneServer /\ AloneInv /\ StaleNeedsRace
  /\ \A q \in Queues : QueueInv(q)

-----------------------------------------------------------------------------
LEMMA InitIInv == Init => IInv
<1> SUFFICES ASSUME Init PROVE IInv
  OBVIOUS
<1>1. TypeInv
  <2>1. tasks \in [Queues -> Seq(Messages)]
    BY DEF Init
  <2>2. main \in [Starts -> {"none", "requests", "replies", "bound", "over"}]
    BY DEF Init
  <2>3. taker \in [Queues -> [at : {"wait", "hand", "store"},
                              msg : Messages \union {NoMessage}, used : Nat]]
    BY DEF Init, Waiting
  <2>4. waits \in [Clients -> 0 .. MaxRequests] /\ asked \in 0 .. MaxRequests
    BY DEF Init
  <2> QED BY <2>1, <2>2, <2>3, <2>4 DEF Init, TypeInv
<1>2. PortInv /\ OneServer /\ AloneInv /\ StaleNeedsRace
  BY DEF Init, PortInv, OneServer, AloneInv, Starting, StaleNeedsRace
<1>3. ASSUME NEW q \in Queues PROVE QueueInv(q)
  <2>1. /\ used[q] = 0 /\ block[q] = [i \in 1 .. Cap(q) |-> NoMessage]
        /\ tasks[q] = <<>> /\ thread[q] = [t \in Pool(q) |-> Idle]
        /\ taker[q] = Waiting /\ net = {} /\ db = {}
    BY DEF Init
  <2>2. Cap(q) \in Nat
    BY DEF Cap
  <2>3. CountInv(q)
    BY <2>1, <2>2 DEF CountInv, Filled, Idle, Waiting
  <2>4. DeadInv(q) /\ OursInv(q) /\ RaceInv(q)
    BY <2>1 DEF DeadInv, OursInv, RaceInv, Idle, Waiting
  <2> QED BY <2>3, <2>4 DEF QueueInv
<1> QED BY <1>1, <1>2, <1>3 DEF IInv

(* The processes of a server are one server's. *)
LEMMA SameServer ==
  ASSUME OneServer, NEW q
  PROVE  /\ Taking(q) # {} => Taking(q) = net \union db
         /\ Posting(q) # {} => Posting(q) = net \union db
  BY DEF OneServer, Taking, Posting

LEMMA CapIsNat == ASSUME NEW q PROVE Cap(q) \in Nat
  BY DEF Cap

LEMMA AppendIsOfEither ==
  ASSUME NEW S, NEW s \in Seq(S), NEW x \in S
  PROVE  /\ Append(s, x) \in Seq(S)
         /\ \A i \in DOMAIN Append(s, x) :
              \/ Append(s, x)[i] = x
              \/ i \in DOMAIN s /\ Append(s, x)[i] = s[i]
  OBVIOUS

LEMMA TailIsOfTheSame ==
  ASSUME NEW S, NEW s \in Seq(S), s # <<>>
  PROVE  /\ Tail(s) \in Seq(S) /\ Head(s) \in S
         /\ 1 \in DOMAIN s /\ Head(s) = s[1]
         /\ \A i \in DOMAIN Tail(s) : i + 1 \in DOMAIN s /\ Tail(s)[i] = s[i+1]
  OBVIOUS

(* A step that does not touch a queue, nor the processes. *)
LEMMA QueueAside ==
  ASSUME NEW q, QueueInv(q),
         used'[q] = used[q], block'[q] = block[q], sem'[q] = sem[q],
         tasks'[q] = tasks[q], thread'[q] = thread[q], taker'[q] = taker[q],
         net' = net, db' = db, crowded' = crowded, raced => raced'
  PROVE  QueueInv(q)'
<1>1. CountInv(q)'
  BY DEF QueueInv, CountInv, Filled
<1>2. DeadInv(q)'
  BY DEF QueueInv, DeadInv, Posting, Taking
<1>3. OursInv(q)'
  BY DEF QueueInv, OursInv, OursUpTo, Ours
<1>4. RaceInv(q)'
  BY DEF QueueInv, RaceInv, Held, Ours
<1> QED BY <1>1, <1>2, <1>3, <1>4 DEF QueueInv

(* A step that touches neither the starts nor the processes nor crowded    *)
(* keeps what is said of them, when no counter moves under a start.        *)
LEMMA StartsAside ==
  ASSUME PortInv, OneServer, AloneInv,
         main' = main, net' = net, db' = db, crowded' = crowded,
         used' = used \/ net \union db # {}
  PROVE  PortInv' /\ OneServer' /\ AloneInv'
<1>1. PortInv' /\ OneServer'
  BY DEF PortInv, OneServer
<1>2. AloneInv'
  BY DEF AloneInv, Starting
<1> QED BY <1>1, <1>2

-----------------------------------------------------------------------------
(* main(). *)

LEMMA ClearKeeps ==
  ASSUME IInv, NEW s \in Starts, NEW q \in Queues, NEW from, NEW to,
         Clear(s, q, from, to),
         \/ q = "request" /\ from = "none" /\ to = "requests"
         \/ q = "reply" /\ from = "requests" /\ to = "replies"
  PROVE  IInv'
<1> USE DEF IInv
<1>1. /\ main[s] = from /\ main' = [main EXCEPT ![s] = to]
      /\ used' = [used EXCEPT ![q] = 0]
      /\ crowded' = (crowded \/ net \union db # {}
                            \/ \E r \in Starts \ {s} : Starting(r))
      /\ raced' = (raced \/ net \union db # {})
      /\ UNCHANGED <<net, db, block, sem, tasks, thread, taker, clients,
                     deaths, dropped, stale, mismatch>>
  BY DEF Clear
<1>2. TypeInv'
  BY <1>1 DEF TypeInv, clients
<1>3. PortInv' /\ OneServer'
  BY <1>1 DEF PortInv, OneServer, TypeInv
<1>4. AloneInv'
  <2> SUFFICES ASSUME ~crowded' PROVE AloneInv'
    BY DEF AloneInv
  <2>1. /\ ~crowded /\ net \union db = {}
        /\ \A r \in Starts : Starting(r) => r = s
    BY <1>1
  <2>2. \A r \in Starts : Starting(r)' => r = s
    BY <1>1, <2>1 DEF Starting, TypeInv
  <2>3. used'["request"] = 0
    <3>1. CASE q = "request"
      BY <1>1, <3>1 DEF TypeInv
    <3>2. CASE q # "request"
      BY <1>1, <2>1, <3>2 DEF AloneInv, Starting, TypeInv, Queues
    <3> QED BY <3>1, <3>2
  <2>4. main'[s] # "requests" => used'["reply"] = 0
    BY <1>1 DEF TypeInv
  <2> QED BY <1>1, <2>1, <2>2, <2>3, <2>4 DEF AloneInv
<1>5. StaleNeedsRace'
  BY <1>1 DEF StaleNeedsRace
<1>6. ASSUME NEW p \in Queues PROVE QueueInv(p)'
  <2>1. QueueInv(p) /\ used'[p] \in {used[p], 0} /\ used[p] \in Nat
    BY <1>1 DEF TypeInv
  <2>2. Cap(p) \in Nat
    BY CapIsNat
  <2>3. CountInv(p)'
    BY <1>1, <2>1, <2>2 DEF QueueInv, CountInv, Filled
  <2>4. DeadInv(p)'
    BY <1>1, <2>1 DEF QueueInv, DeadInv, Posting, Taking
  <2>5. OursInv(p)'
    BY <1>1, <2>1 DEF QueueInv, OursInv, OursUpTo, Ours
  <2>6. RaceInv(p)'
    BY <1>1 DEF RaceInv
  <2> QED BY <2>3, <2>4, <2>5, <2>6 DEF QueueInv
<1> QED BY <1>2, <1>3, <1>4, <1>5, <1>6

LEMMA BindKeeps == ASSUME IInv, NEW s \in Starts, Bind(s) PROVE IInv'
<1> USE DEF IInv
<1>1. /\ main[s] = "replies"
      /\ main' = [main EXCEPT ![s] = IF PortFree THEN "bound" ELSE "over"]
      /\ UNCHANGED <<net, db, used, block, sem, tasks, thread, taker, clients,
                     deaths, crowded, raced, dropped, stale, mismatch>>
  BY DEF Bind, segments, history
<1>2. TypeInv'
  BY <1>1 DEF TypeInv, clients
<1>3. PortInv' /\ OneServer'
  <2>1. CASE PortFree
    <3>1. net = {} /\ db = {} /\ \A r \in Starts : main[r] # "bound"
      BY <2>1 DEF PortFree
    <3> QED BY <1>1, <2>1, <3>1 DEF PortInv, OneServer, TypeInv
  <2>2. CASE ~PortFree
    BY <1>1, <2>2 DEF PortInv, OneServer, TypeInv
  <2> QED BY <2>1, <2>2
<1>4. AloneInv'
  BY <1>1 DEF AloneInv, Starting, TypeInv
<1>5. StaleNeedsRace'
  BY <1>1 DEF StaleNeedsRace
<1>6. ASSUME NEW q \in Queues PROVE QueueInv(q)'
  BY <1>1, QueueAside
<1> QED BY <1>2, <1>3, <1>4, <1>5, <1>6

LEMMA ServeKeeps == ASSUME IInv, NEW s \in Starts, Serve(s) PROVE IInv'
<1> USE DEF IInv
<1>1. /\ main[s] = "bound" /\ main' = [main EXCEPT ![s] = "over"]
      /\ sem' = [q \in Queues |-> 0]
      /\ net' = net \union {s} /\ db' = db \union {s}
      /\ raced' = FALSE /\ dropped' = FALSE
      /\ stale' = FALSE /\ mismatch' = FALSE
      /\ UNCHANGED <<used, block, tasks, thread, taker, clients, deaths,
                     crowded>>
  BY DEF Serve
<1>2. net = {} /\ db = {} /\ \A r \in Starts : main[r] = "bound" => r = s
  BY <1>1 DEF PortInv
<1>3. TypeInv'
  BY <1>1, <1>2 DEF TypeInv, clients
<1>4. PortInv' /\ OneServer'
  BY <1>1, <1>2 DEF PortInv, OneServer, TypeInv
<1>5. AloneInv'
  <2> SUFFICES ASSUME ~crowded PROVE AloneInv'
    BY <1>1 DEF AloneInv
  <2>1. \A r \in Starts : Starting(r) => r = s
    BY <1>1 DEF AloneInv, Starting
  <2>2. \A r \in Starts : ~Starting(r)'
    BY <1>1, <2>1 DEF Starting, TypeInv
  <2> QED BY <2>2 DEF AloneInv
<1>6. StaleNeedsRace'
  BY <1>1 DEF StaleNeedsRace
<1>7. ASSUME NEW q \in Queues PROVE QueueInv(q)'
  <2>1. QueueInv(q) /\ sem'[q] = 0 /\ used[q] \in Nat
    BY <1>1 DEF TypeInv
  <2>2. /\ tasks[q] = <<>> /\ taker[q].at = "wait"
        /\ \A t \in Pool(q) : thread[q][t].at = "idle"
    BY <1>2, <2>1 DEF QueueInv, DeadInv, Posting, Taking
  <2>3. CountInv(q)'
    BY <1>1, <2>1 DEF QueueInv, CountInv, Filled
  <2>4. DeadInv(q)'
    BY <1>1, <2>2 DEF DeadInv
  <2>5. OursInv(q)'
    <3> SUFFICES ASSUME ~crowded PROVE OursUpTo(q, used[q])'
      BY <1>1, <2>2 DEF OursInv
    <3>1. used[q] = 0
      BY <1>1 DEF AloneInv, Starting, Queues
    <3> QED BY <1>1, <3>1 DEF OursUpTo
  <2>6. RaceInv(q)'
    BY <1>1, <2>1, <2>2 DEF RaceInv, Held
  <2> QED BY <2>3, <2>4, <2>5, <2>6 DEF QueueInv
<1> QED BY <1>3, <1>4, <1>5, <1>6, <1>7

LEMMA DieKeeps == ASSUME IInv, NEW q \in Queues, Die(q) PROVE IInv'
<1> USE DEF IInv
<1> DEFINE other == CHOOSE p \in Queues : p # q
<1>1. /\ Posting(q) # {} /\ deaths > 0 /\ deaths' = deaths - 1
      /\ \/ q = "request" /\ net' = {} /\ db' = db
            /\ waits' = [c \in Clients |-> 0]
         \/ q = "reply" /\ db' = {} /\ net' = net /\ waits' = waits
      /\ tasks' = [tasks EXCEPT ![q] = <<>>]
      /\ thread' = [thread EXCEPT ![q] = [t \in Pool(q) |-> Idle]]
      /\ taker' = [taker EXCEPT ![other] = Waiting]
      /\ UNCHANGED <<main, used, block, sem, asked, crowded, raced, dropped,
                     stale, mismatch>>
  BY DEF Die, Queues, segments, history
<1>2. other \in Queues /\ other # q
  BY DEF Queues
<1>3. TypeInv'
  <2>1. waits' \in [Clients -> 0 .. MaxRequests]
    <3>1. waits \in [Clients -> 0 .. MaxRequests] /\ 0 \in 0 .. MaxRequests
      BY DEF TypeInv
    <3> QED BY <1>1, <3>1
  <2>2. taker' \in [Queues -> [at : {"wait", "hand", "store"},
                               msg : Messages \union {NoMessage}, used : Nat]]
    BY <1>1, <1>2 DEF TypeInv, Waiting
  <2>3. tasks' \in [Queues -> Seq(Messages)] /\ DOMAIN thread' = Queues
    BY <1>1 DEF TypeInv
  <2>4. net' \subseteq Starts /\ db' \subseteq Starts /\ deaths' \in Nat
    BY <1>1 DEF TypeInv
  <2> QED BY <1>1, <2>1, <2>2, <2>3, <2>4 DEF TypeInv
<1>4. PortInv' /\ OneServer' /\ AloneInv' /\ StaleNeedsRace'
  BY <1>1 DEF PortInv, OneServer, AloneInv, Starting, StaleNeedsRace
<1>5. net' \union db' # {} => net' \union db' = net \union db
  BY <1>1 DEF OneServer, Posting
<1>6. ASSUME NEW p \in Queues PROVE QueueInv(p)'
  <2>1. /\ QueueInv(p) /\ used[p] \in Nat /\ sem[p] \in Nat
        /\ taker[p] \in [at : {"wait", "hand", "store"},
                         msg : Messages \union {NoMessage}, used : Nat]
    BY DEF TypeInv
  <2>2. Cap(p) \in Nat
    BY CapIsNat
  <2>3. /\ tasks'[p] = IF p = q THEN <<>> ELSE tasks[p]
        /\ thread'[p] = IF p = q THEN [t \in Pool(p) |-> Idle] ELSE thread[p]
        /\ taker'[p] = IF p = q THEN taker[p] ELSE Waiting
    BY <1>1, <1>2 DEF TypeInv, Queues
  <2>4. CASE p = q
    <3>1. tasks'[p] = <<>> /\ thread'[p] = [t \in Pool(p) |-> Idle]
          /\ taker'[p] = taker[p]
      BY <2>3, <2>4
    <3>2. CountInv(p)'
      BY <1>1, <2>1, <2>2, <3>1 DEF QueueInv, CountInv, Filled, Idle
    <3>3. DeadInv(p)'
      BY <1>1, <2>1, <2>4, <3>1 DEF QueueInv, DeadInv, Posting, Taking, Idle
    <3>4. taker[p].at # "wait" => net' \union db' # {}
      BY <1>1, <2>1, <2>4 DEF QueueInv, DeadInv, Taking
    <3>5. OursInv(p)'
      BY <1>1, <1>5, <2>1, <3>1, <3>4 DEF QueueInv, OursInv, OursUpTo, Ours, Idle
    <3>6. RaceInv(p)'
      BY <1>1, <1>5, <2>1, <3>1 DEF QueueInv, RaceInv, Ours, Held, Idle
    <3> QED BY <3>2, <3>3, <3>5, <3>6 DEF QueueInv
  <2>5. CASE p # q
    <3>1. tasks'[p] = tasks[p] /\ thread'[p] = thread[p] /\ taker'[p] = Waiting
      BY <2>3, <2>5
    <3>2. CountInv(p)'
      <4>1. taker'[p].at = "wait"
        BY <3>1 DEF Waiting
      <4> QED BY <1>1, <2>1, <2>2, <3>1, <4>1 DEF QueueInv, CountInv, Filled
    <3>3. DeadInv(p)'
      BY <1>1, <2>1, <2>5, <3>1 DEF QueueInv, DeadInv, Posting, Taking, Waiting,
                                    Queues
    <3>4. net' \union db' = {} =>
            tasks[p] = <<>> /\ \A t \in Pool(p) : thread[p][t].at = "idle"
      BY <3>1, <3>3 DEF DeadInv, Posting
    <3>5. OursInv(p)'
      BY <1>1, <1>5, <2>1, <3>1, <3>4
      DEF QueueInv, OursInv, OursUpTo, Ours, Waiting
    <3>6. RaceInv(p)'
      BY <1>1, <1>5, <2>1, <3>1 DEF QueueInv, RaceInv, Ours, Held, Waiting
    <3> QED BY <3>2, <3>3, <3>5, <3>6 DEF QueueInv
  <2> QED BY <2>4, <2>5
<1> QED BY <1>3, <1>4, <1>6

-----------------------------------------------------------------------------
(* The way of a request. *)

(* A packet of the server that runs joins a queue of tasks.                *)
LEMMA TaskJoins ==
  ASSUME TypeInv, NEW q \in Queues, QueueInv(q), NEW m \in Messages, Ours(m),
         Posting(q) # {}, tasks' = [tasks EXCEPT ![q] = Append(@, m)],
         UNCHANGED <<net, db, used, block, sem, crowded, raced>>,
         thread'[q] = thread[q], taker'[q] = taker[q]
  PROVE  QueueInv(q)'
<1>1. tasks[q] \in Seq(Messages) /\ tasks'[q] = Append(tasks[q], m)
  BY DEF TypeInv
<1>2. \A i \in DOMAIN tasks'[q] :
        \/ tasks'[q][i] = m
        \/ i \in DOMAIN tasks[q] /\ tasks'[q][i] = tasks[q][i]
  BY <1>1, AppendIsOfEither
<1>3. CountInv(q)'
  BY DEF QueueInv, CountInv, Filled
<1>4. DeadInv(q)'
  BY DEF QueueInv, DeadInv, Posting, Taking
<1>5. OursInv(q)'
  BY <1>2 DEF QueueInv, OursInv, OursUpTo, Ours
<1>6. RaceInv(q)'
  BY <1>2 DEF QueueInv, RaceInv, Held, Ours
<1> QED BY <1>3, <1>4, <1>5, <1>6 DEF QueueInv

LEMMA AskKeeps == ASSUME IInv, NEW c \in Clients, Ask(c) PROVE IInv'
<1> USE DEF IInv
<1>1. PICK s \in net :
        tasks' = [tasks EXCEPT !["request"] =
                    Append(@, [client |-> c, n |-> asked', by |-> s])]
  BY DEF Ask, AddTask
<1> DEFINE m == [client |-> c, n |-> asked', by |-> s]
<1>2. /\ asked < MaxRequests /\ asked' = asked + 1
      /\ waits' = IF c \in Deaf THEN waits ELSE [waits EXCEPT ![c] = asked']
      /\ UNCHANGED <<main, net, db, used, block, sem, thread, taker, deaths,
                     crowded, raced, dropped, stale, mismatch>>
  BY DEF Ask, AddTask, segments, history
<1>3. asked' \in 1 .. MaxRequests
  BY <1>2 DEF TypeInv
<1>4. m \in Messages /\ Ours(m)
  BY <1>1, <1>3 DEF Messages, Ours, TypeInv
<1> HIDE DEF m
<1>5. tasks' = [tasks EXCEPT !["request"] = Append(@, m)]
  BY <1>1 DEF m
<1>6. TypeInv'
  <2>1. tasks' \in [Queues -> Seq(Messages)]
    BY <1>4, <1>5, AppendIsOfEither DEF TypeInv, Queues
  <2>2. waits' \in [Clients -> 0 .. MaxRequests]
    BY <1>2, <1>3 DEF TypeInv
  <2> QED BY <1>2, <1>3, <2>1, <2>2 DEF TypeInv
<1>7. PortInv' /\ OneServer' /\ AloneInv'
  BY <1>2, StartsAside
<1>8. StaleNeedsRace'
  BY <1>2 DEF StaleNeedsRace
<1>9. ASSUME NEW q \in Queues PROVE QueueInv(q)'
  <2>1. CASE q = "request"
    <3>1. Posting(q) # {}
      BY <1>1, <2>1 DEF Posting
    <3> QED BY <1>2, <1>4, <1>5, <2>1, <3>1, TaskJoins
  <2>2. CASE q # "request"
    <3>1. tasks'[q] = tasks[q]
      BY <1>5, <2>2 DEF TypeInv
    <3> QED BY <1>2, <3>1, QueueAside
  <2> QED BY <2>1, <2>2
<1> QED BY <1>6, <1>7, <1>8, <1>9

LEMMA LoadKeeps ==
  ASSUME IInv, NEW q \in Queues, NEW t \in Pool(q), Load(q, t) PROVE IInv'
<1> USE DEF IInv
<1> DEFINE m == Head(tasks[q])
           loaded == [at |-> "loaded", msg |-> m, used |-> used[q] + 1]
<1>1. /\ Posting(q) # {} /\ thread[q][t].at = "idle" /\ tasks[q] # <<>>
      /\ tasks' = [tasks EXCEPT ![q] = Tail(@)]
      /\ UNCHANGED <<main, net, db, used, block, sem, taker, asked, waits,
                     deaths, crowded, stale, mismatch>>
  BY DEF Load, segments, clients
<1>2. \/ /\ HasRoom(q) /\ thread' = [thread EXCEPT ![q][t] = loaded]
         /\ raced' = (raced \/ ThreadInside(q) \/ taker[q].at # "wait")
         /\ dropped' = dropped
      \/ thread' = thread /\ raced' = raced /\ dropped' = TRUE
  BY DEF Load
<1>3. /\ tasks[q] \in Seq(Messages) /\ tasks'[q] = Tail(tasks[q])
      /\ Tail(tasks[q]) \in Seq(Messages) /\ m \in Messages
      /\ 1 \in DOMAIN tasks[q] /\ m = tasks[q][1]
      /\ \A i \in DOMAIN tasks'[q] :
           i + 1 \in DOMAIN tasks[q] /\ tasks'[q][i] = tasks[q][i+1]
  BY <1>1, TailIsOfTheSame DEF TypeInv
<1> HIDE DEF m
<1>4. TypeInv'
  <2>1. tasks' \in [Queues -> Seq(Messages)]
    BY <1>1, <1>3 DEF TypeInv
  <2>2. DOMAIN thread' = Queues
    BY <1>2 DEF TypeInv
  <2>3. raced' \in BOOLEAN /\ dropped' \in BOOLEAN
    BY <1>2 DEF TypeInv
  <2> QED BY <1>1, <2>1, <2>2, <2>3 DEF TypeInv
<1>5. PortInv' /\ OneServer' /\ AloneInv'
  BY <1>1, StartsAside
<1>6. raced => raced'
  BY <1>2
<1>7. StaleNeedsRace'
  BY <1>1, <1>6 DEF StaleNeedsRace
<1>8. ASSUME NEW p \in Queues, p # q PROVE QueueInv(p)'
  <2>1. tasks'[p] = tasks[p] /\ thread'[p] = thread[p]
    BY <1>1, <1>2, <1>8 DEF TypeInv
  <2> QED BY <1>1, <1>6, <2>1, QueueAside
<1>9. QueueInv(q)'
  <2>1. /\ QueueInv(q) /\ used[q] \in Nat /\ sem[q] \in Nat /\ Cap(q) \in Nat
        /\ thread[q] \in [Pool(q) -> [at : {"idle", "loaded"},
                                      msg : Messages \union {NoMessage},
                                      used : Nat]]
    BY CapIsNat DEF TypeInv, QueueInv, CountInv
  <2>2. CASE UNCHANGED <<thread, raced>>
    <3>1. CountInv(q)'
      BY <1>1, <2>1, <2>2 DEF QueueInv, CountInv, Filled
    <3>2. DeadInv(q)'
      BY <1>1, <2>1, <2>2 DEF QueueInv, DeadInv, Posting, Taking
    <3>3. OursInv(q)'
      BY <1>1, <1>3, <2>1, <2>2 DEF QueueInv, OursInv, OursUpTo, Ours
    <3>4. RaceInv(q)'
      BY <1>1, <1>3, <2>1, <2>2 DEF QueueInv, RaceInv, Held, Ours
    <3> QED BY <3>1, <3>2, <3>3, <3>4 DEF QueueInv
  <2>3. CASE /\ HasRoom(q) /\ thread' = [thread EXCEPT ![q][t] = loaded]
             /\ raced' = (raced \/ ThreadInside(q) \/ taker[q].at # "wait")
    <3>1. /\ thread'[q][t] = loaded
          /\ \A u \in Pool(q) : u # t => thread'[q][u] = thread[q][u]
          /\ thread'[q] = [thread[q] EXCEPT ![t] = loaded]
      BY <2>1, <2>3 DEF TypeInv
    <3>2. used[q] + 1 <= Cap(q)
      BY <2>1, <2>3 DEF HasRoom
    <3>3. CountInv(q)'
      <4>1. thread'[q] \in [Pool(q) -> [at : {"idle", "loaded"},
                                        msg : Messages \union {NoMessage},
                                        used : Nat]]
        BY <1>3, <2>1, <3>1
      <4>2. ASSUME NEW u \in Pool(q), thread'[q][u].at = "loaded"
            PROVE  /\ thread'[q][u].msg \in Messages
                   /\ thread'[q][u].used \in 1 .. Cap(q)
                   /\ Filled(q, thread'[q][u].used - 1)
        <5>1. CASE u = t
          <6>1. /\ thread'[q][u].msg = m /\ m \in Messages
                /\ thread'[q][u].used = used[q] + 1
            BY <1>3, <2>1, <3>1, <5>1
          <6>2. used[q] + 1 \in 1 .. Cap(q) /\ (used[q] + 1) - 1 = used[q]
            BY <2>1, <3>2
          <6>3. Filled(q, used[q])
            BY <2>1 DEF QueueInv, CountInv
          <6> QED BY <6>1, <6>2, <6>3
        <5>2. CASE u # t
          BY <2>1, <3>1, <4>2, <5>2 DEF QueueInv, CountInv
        <5> QED BY <5>1, <5>2
      <4> QED BY <1>1, <2>1, <4>1, <4>2 DEF QueueInv, CountInv, Filled
    <3>4. DeadInv(q)'
      BY <1>1, <2>1 DEF QueueInv, DeadInv, Posting, Taking
    <3>5. OursInv(q)'
      <4> SUFFICES ASSUME ~crowded PROVE OursInv(q)'
        BY <1>1 DEF OursInv
      <4>1. net \union db # {} /\ Ours(m) /\ OursUpTo(q, used[q])
        BY <1>1, <1>3, <2>1 DEF QueueInv, OursInv, Posting
      <4>2. ASSUME NEW u \in Pool(q), thread'[q][u].at = "loaded"
            PROVE  /\ Ours(thread'[q][u].msg)
                   /\ OursUpTo(q, thread'[q][u].used - 1)
        <5>1. CASE u = t
          BY <2>1, <3>1, <4>1, <5>1
        <5>2. CASE u # t
          BY <2>1, <3>1, <4>2, <5>2 DEF QueueInv, OursInv
        <5> QED BY <5>1, <5>2
      <4> QED BY <1>1, <1>3, <2>1, <4>2 DEF QueueInv, OursInv, OursUpTo, Ours
    <3>6. RaceInv(q)'
      <4> SUFFICES ASSUME ~raced', net \union db # {} PROVE RaceInv(q)'
        BY <1>1 DEF RaceInv
      <4>1. /\ ~raced /\ taker[q].at = "wait"
            /\ \A u \in Pool(q) : thread[q][u].at # "loaded"
        BY <2>3 DEF ThreadInside
      <4>2. Ours(m)
        BY <1>3, <2>1, <4>1 DEF QueueInv, RaceInv
      <4>3. \A u \in Pool(q) : thread'[q][u].at = "loaded" => u = t
        BY <3>1, <4>1
      <4>4. \A i \in DOMAIN tasks'[q] : Ours(tasks'[q][i])
        BY <1>3, <2>1, <4>1 DEF QueueInv, RaceInv
      <4> QED BY <1>1, <2>1, <3>1, <4>1, <4>2, <4>3, <4>4
              DEF QueueInv, RaceInv, Held, Ours
    <3> QED BY <3>3, <3>4, <3>5, <3>6 DEF QueueInv
  <2> QED BY <1>2, <2>2, <2>3
<1> QED BY <1>4, <1>5, <1>7, <1>8, <1>9

LEMMA PostKeeps ==
  ASSUME IInv, NEW q \in Queues, NEW t \in Pool(q), Post(q, t) PROVE IInv'
<1> USE DEF IInv
<1>0. PICK k, m : k = thread[q][t].used /\ m = thread[q][t].msg
  OBVIOUS
<1>1. /\ Posting(q) # {} /\ thread[q][t].at = "loaded"
      /\ thread' = [thread EXCEPT ![q][t] = Idle]
      /\ block' = [block EXCEPT ![q][k] = m]
      /\ used' = [used EXCEPT ![q] = k]
      /\ sem' = [sem EXCEPT ![q] = @ + 1]
      /\ UNCHANGED <<main, net, db, tasks, taker, asked, waits, deaths,
                     crowded, raced, dropped, stale, mismatch>>
  BY <1>0 DEF Post, clients, history
<1>2. /\ QueueInv(q) /\ used[q] \in Nat /\ sem[q] \in Nat /\ Cap(q) \in Nat
      /\ thread[q] \in [Pool(q) -> [at : {"idle", "loaded"},
                                    msg : Messages \union {NoMessage},
                                    used : Nat]]
      /\ block[q] \in [1 .. Cap(q) -> Messages \union {NoMessage}]
  BY CapIsNat DEF TypeInv, QueueInv, CountInv
<1>3. m \in Messages /\ k \in 1 .. Cap(q) /\ Filled(q, k - 1)
  BY <1>0, <1>1, <1>2 DEF QueueInv, CountInv
<1>4. /\ thread'[q] = [thread[q] EXCEPT ![t] = Idle]
      /\ block'[q] = [block[q] EXCEPT ![k] = m]
      /\ used'[q] = k /\ sem'[q] = sem[q] + 1
      /\ DOMAIN thread' = Queues /\ DOMAIN block' = Queues
  BY <1>1 DEF TypeInv
<1>5. /\ thread'[q][t].at = "idle"
      /\ \A u \in Pool(q) : u # t => thread'[q][u] = thread[q][u]
      /\ block'[q][k] = m
      /\ \A i \in 1 .. Cap(q) : i # k => block'[q][i] = block[q][i]
  BY <1>2, <1>3, <1>4 DEF Idle
<1>6. TypeInv'
  <2>1. used' \in [Queues -> Nat] /\ sem' \in [Queues -> Nat]
    <3>1. k \in Nat /\ sem[q] \in Nat
      BY <1>2, <1>3
    <3>2. used \in [Queues -> Nat] /\ sem \in [Queues -> Nat]
      BY DEF TypeInv
    <3> QED BY <1>1, <3>1, <3>2
  <2> QED BY <1>1, <1>4, <2>1 DEF TypeInv
<1>7. PortInv' /\ OneServer' /\ AloneInv'
  BY <1>1, StartsAside DEF Posting
<1>8. StaleNeedsRace'
  BY <1>1 DEF StaleNeedsRace
<1>9. ASSUME NEW p \in Queues, p # q PROVE QueueInv(p)'
  <2>1. /\ thread'[p] = thread[p] /\ block'[p] = block[p]
        /\ used'[p] = used[p] /\ sem'[p] = sem[p]
    BY <1>1, <1>9 DEF TypeInv
  <2> QED BY <1>1, <2>1, QueueAside
<1>10. QueueInv(q)'
  <2>1. ASSUME NEW j \in Int, j <= Cap(q), Filled(q, j) PROVE Filled(q, j)'
    BY <1>2, <1>3, <1>5, <2>1 DEF Filled
  <2>2. CountInv(q)'
    <3>1. block'[q] \in [1 .. Cap(q) -> Messages \union {NoMessage}]
      BY <1>2, <1>3, <1>4
    <3>2. thread'[q] \in [Pool(q) -> [at : {"idle", "loaded"},
                                      msg : Messages \union {NoMessage},
                                      used : Nat]]
      BY <1>2, <1>4 DEF Idle
    <3>3. used'[q] <= Cap(q) /\ Filled(q, used[q])'
      BY <1>2, <1>3, <1>4, <1>5 DEF Filled
    <3>4. ASSUME NEW u \in Pool(q), thread'[q][u].at = "loaded"
          PROVE  /\ thread'[q][u].msg \in Messages
                 /\ thread'[q][u].used \in 1 .. Cap(q)
                 /\ Filled(q, thread[q][u].used - 1)'
      <4>1. u # t /\ thread'[q][u] = thread[q][u]
        BY <1>5, <3>4
      <4>2. /\ thread[q][u].msg \in Messages
            /\ thread[q][u].used \in 1 .. Cap(q)
            /\ Filled(q, thread[q][u].used - 1)
        BY <1>2, <3>4, <4>1 DEF QueueInv, CountInv
      <4> QED BY <1>2, <2>1, <4>1, <4>2
    <3>5. taker'[q].at # "wait" =>
            /\ taker'[q].msg \in Messages
            /\ taker'[q].used \in 1 .. Cap(q)
            /\ Filled(q, taker[q].used)'
      BY <1>1, <1>2, <2>1 DEF QueueInv, CountInv
    <3> QED BY <3>1, <3>2, <3>3, <3>4, <3>5 DEF CountInv
  <2>3. DeadInv(q)'
    BY <1>1, <1>2 DEF QueueInv, DeadInv, Posting, Taking
  <2>4. OursInv(q)'
    <3> SUFFICES ASSUME ~crowded PROVE OursInv(q)'
      BY <1>1 DEF OursInv
    <3>1. Ours(m)' /\ OursUpTo(q, k - 1)
      BY <1>0, <1>1, <1>2 DEF QueueInv, OursInv, Ours
    <3>2. ASSUME NEW j \in Int, j <= Cap(q), OursUpTo(q, j)
          PROVE  OursUpTo(q, j)'
      BY <1>1, <1>2, <1>3, <1>5, <3>1, <3>2 DEF OursUpTo, Ours
    <3>3. OursUpTo(q, used[q])'
      BY <1>1, <1>2, <1>3, <1>4, <1>5, <3>1 DEF OursUpTo, Ours
    <3>4. ASSUME NEW u \in Pool(q), thread'[q][u].at = "loaded"
          PROVE  Ours(thread[q][u].msg)' /\ OursUpTo(q, thread[q][u].used - 1)'
      <4>1. u # t /\ thread'[q][u] = thread[q][u]
        BY <1>5, <3>4
      <4>2. /\ Ours(thread[q][u].msg) /\ OursUpTo(q, thread[q][u].used - 1)
            /\ thread[q][u].used \in 1 .. Cap(q)
        BY <1>2, <3>4, <4>1 DEF QueueInv, OursInv, CountInv
      <4> QED BY <1>1, <1>2, <3>2, <4>1, <4>2 DEF Ours
    <3>5. taker'[q].at # "wait" =>
            Ours(taker[q].msg)' /\ OursUpTo(q, taker[q].used)'
      BY <1>1, <1>2, <3>2 DEF QueueInv, OursInv, CountInv, Ours
    <3>6. \A i \in DOMAIN tasks'[q] : Ours(tasks[q][i])'
      BY <1>1, <1>2 DEF QueueInv, OursInv, Ours
    <3> QED BY <3>3, <3>4, <3>5, <3>6 DEF OursInv
  <2>5. RaceInv(q)'
    <3> SUFFICES ASSUME ~raced, net \union db # {} PROVE RaceInv(q)'
      BY <1>1 DEF RaceInv
    <3>1. /\ taker[q].at = "wait" /\ k = used[q] + 1 /\ Ours(m)
          /\ \A u \in Pool(q) : thread[q][u].at = "loaded" => u = t
          /\ sem[q] <= used[q]
          /\ \A i \in 1 .. used[q] : i > used[q] - sem[q] => Ours(block[q][i])
          /\ \A i \in DOMAIN tasks[q] : Ours(tasks[q][i])
      BY <1>0, <1>1, <1>2 DEF QueueInv, RaceInv, Held
    <3>2. \A u \in Pool(q) : thread'[q][u].at # "loaded"
      BY <1>5, <3>1
    <3>3. \A i \in 1 .. used'[q] :
            i > used'[q] - sem'[q] => Ours(block'[q][i])
      <4> SUFFICES ASSUME NEW i \in 1 .. used'[q], i > used'[q] - sem'[q]
                   PROVE  Ours(block'[q][i])
        OBVIOUS
      <4>1. CASE i = k
        BY <1>5, <3>1, <4>1
      <4>2. CASE i # k
        <5>1. i \in 1 .. used[q] /\ i > used[q] - sem[q]
          BY <1>2, <1>4, <3>1, <4>2
        <5>2. block'[q][i] = block[q][i]
          BY <1>2, <1>3, <1>4, <1>5, <4>2
        <5> QED BY <3>1, <5>1, <5>2
      <4> QED BY <4>1, <4>2
    <3> QED BY <1>1, <1>2, <1>4, <3>1, <3>2, <3>3 DEF RaceInv, Held, Ours
  <2> QED BY <2>2, <2>3, <2>4, <2>5 DEF QueueInv
<1> QED BY <1>6, <1>7, <1>8, <1>9, <1>10

(* What the lemmas about a taker start from. *)
QueueTypes(q) ==
  /\ QueueInv(q) /\ used[q] \in Nat /\ sem[q] \in Nat /\ Cap(q) \in Nat
  /\ taker[q] \in [at : {"wait", "hand", "store"},
                   msg : Messages \union {NoMessage}, used : Nat]
  /\ tasks[q] \in Seq(Messages)

LEMMA Types == ASSUME IInv, NEW q \in Queues PROVE QueueTypes(q)
  BY CapIsNat DEF IInv, TypeInv, QueueTypes

LEMMA TakeKeeps == ASSUME IInv, NEW q \in Queues, Take(q) PROVE IInv'
<1> USE DEF IInv
<1>0. PICK k : k = used[q]
  OBVIOUS
<1>1. /\ Taking(q) # {} /\ taker[q].at = "wait" /\ sem[q] > 0
      /\ sem' = [sem EXCEPT ![q] = @ - 1]
      /\ UNCHANGED <<main, net, db, used, block, tasks, thread, asked, waits,
                     deaths, crowded, dropped, mismatch>>
  BY DEF Take, clients
<1>2. \/ /\ k \in 1 .. Cap(q)
         /\ taker' = [taker EXCEPT ![q] =
                        [at |-> "hand", msg |-> block[q][k], used |-> k]]
         /\ raced' = (raced \/ ThreadInside(q))
         /\ stale' = (stale \/ block[q][k].by \notin Taking(q))
      \/ k \notin 1 .. Cap(q) /\ UNCHANGED <<taker, raced, stale>>
  BY <1>0 DEF Take, Copy, Copied
<1>3. QueueTypes(q) /\ sem'[q] = sem[q] - 1
  BY <1>1, Types DEF TypeInv
<1>4. k \in 1 .. Cap(q) => block[q][k] \in Messages
  BY <1>0, <1>3 DEF QueueTypes, QueueInv, CountInv, Filled
<1>5. TypeInv'
  <2>1. sem' \in [Queues -> Nat]
    BY <1>1, <1>3 DEF TypeInv, QueueTypes
  <2>2. taker' \in [Queues -> [at : {"wait", "hand", "store"},
                               msg : Messages \union {NoMessage}, used : Nat]]
    <3>1. CASE k \in 1 .. Cap(q)
      <4>1. [at |-> "hand", msg |-> block[q][k], used |-> k]
              \in [at : {"wait", "hand", "store"},
                   msg : Messages \union {NoMessage}, used : Nat]
        BY <1>3, <1>4, <3>1 DEF QueueTypes
      <4> QED BY <1>2, <3>1, <4>1 DEF TypeInv
    <3>2. CASE k \notin 1 .. Cap(q)
      BY <1>2, <3>2 DEF TypeInv
    <3> QED BY <3>1, <3>2
  <2>3. raced' \in BOOLEAN /\ stale' \in BOOLEAN
    BY <1>2 DEF TypeInv
  <2> QED BY <1>1, <2>1, <2>2, <2>3 DEF TypeInv
<1>6. PortInv' /\ OneServer' /\ AloneInv'
  BY <1>1, StartsAside
<1>7. raced => raced'
  BY <1>2
<1>8. ASSUME NEW p \in Queues, p # q PROVE QueueInv(p)'
  <2>1. taker'[p] = taker[p] /\ sem'[p] = sem[p]
    BY <1>1, <1>2, <1>8 DEF TypeInv
  <2> QED BY <1>1, <1>7, <2>1, QueueAside
<1>9. CASE k \notin 1 .. Cap(q)
  <2>1. UNCHANGED <<taker, raced, stale>>
    BY <1>2, <1>9
  <2>2. StaleNeedsRace'
    BY <1>1, <2>1 DEF StaleNeedsRace
  <2>3. CountInv(q)' /\ DeadInv(q)' /\ OursInv(q)'
    BY <1>1, <1>3, <2>1 DEF QueueTypes, QueueInv, CountInv, DeadInv, OursInv,
                            Filled, OursUpTo, Ours, Posting, Taking
  <2>4. k = 0
    BY <1>0, <1>3, <1>9 DEF QueueTypes, QueueInv, CountInv
  <2>5. RaceInv(q)'
    BY <1>0, <1>1, <1>3, <2>1, <2>4 DEF QueueTypes, QueueInv, RaceInv, Held, Ours
  <2> QED BY <1>5, <1>6, <1>8, <2>2, <2>3, <2>5 DEF QueueInv
<1>10. CASE k \in 1 .. Cap(q)
  <2>1. /\ taker' = [taker EXCEPT ![q] =
                       [at |-> "hand", msg |-> block[q][k], used |-> k]]
        /\ raced' = (raced \/ ThreadInside(q))
        /\ stale' = (stale \/ block[q][k].by \notin Taking(q))
    BY <1>2, <1>10
  <2>2. /\ taker'[q].at = "hand" /\ taker'[q].msg = block[q][k]
        /\ taker'[q].used = k
    BY <2>1 DEF TypeInv
  <2>3. net \union db = Taking(q) /\ net \union db # {}
    BY <1>1, SameServer
  <2>4. ~crowded => OursUpTo(q, k) /\ Ours(block[q][k])
    BY <1>0, <1>3, <1>10, <2>3 DEF QueueTypes, QueueInv, OursInv, OursUpTo
  <2>5. ~raced /\ ~ThreadInside(q) => Ours(block[q][k])
    BY <1>0, <1>1, <1>3, <1>10, <2>3 DEF QueueTypes, QueueInv, RaceInv, Held
  <2>6. StaleNeedsRace'
    BY <1>1, <2>1, <2>3, <2>4, <2>5 DEF StaleNeedsRace, Ours
  <2>7. CountInv(q)'
    BY <1>0, <1>1, <1>3, <1>4, <1>10, <2>2
    DEF QueueTypes, QueueInv, CountInv, Filled
  <2>8. DeadInv(q)'
    BY <1>1, <1>3 DEF QueueTypes, QueueInv, DeadInv, Posting, Taking
  <2>9. OursInv(q)'
    BY <1>1, <1>3, <2>2, <2>4 DEF QueueTypes, QueueInv, OursInv, OursUpTo, Ours
  <2>10. RaceInv(q)'
    <3> SUFFICES ASSUME ~raced' PROVE RaceInv(q)'
      BY DEF RaceInv
    <3>1. ~raced /\ \A t \in Pool(q) : thread[q][t].at # "loaded"
      BY <2>1 DEF ThreadInside
    <3>2. /\ sem[q] <= used[q]
          /\ \A i \in 1 .. used[q] : i > used[q] - sem[q] => Ours(block[q][i])
          /\ \A i \in DOMAIN tasks[q] : Ours(tasks[q][i])
      BY <1>1, <1>3, <2>3, <3>1 DEF QueueTypes, QueueInv, RaceInv, Held
    <3>3. Held(q)' = 1
      BY <2>2 DEF Held
    <3>4. sem'[q] + 1 = sem[q]
      BY <1>3 DEF QueueTypes
    <3>5. Ours(taker'[q].msg)
      BY <2>2, <2>5, <3>1 DEF ThreadInside
    <3> QED BY <1>0, <1>1, <1>3, <2>2, <3>1, <3>2, <3>3, <3>4, <3>5
            DEF RaceInv, Ours, QueueTypes
  <2> QED BY <1>5, <1>6, <1>8, <2>6, <2>7, <2>8, <2>9, <2>10 DEF QueueInv
<1> QED BY <1>9, <1>10

(* A taker without a token: from then on the counter counts as raced for.  *)
LEMMA TakeFailsKeeps == ASSUME IInv, NEW q \in Queues, TakeFails(q) PROVE IInv'
<1> USE DEF IInv
<1>0. PICK k : k = used[q]
  OBVIOUS
<1>1. /\ Taking(q) # {} /\ taker[q].at = "wait" /\ k \in 1 .. Cap(q)
      /\ raced' = TRUE
      /\ UNCHANGED <<main, net, db, used, block, sem, tasks, thread, asked,
                     waits, deaths, crowded, dropped, mismatch>>
  BY <1>0 DEF TakeFails, segments, clients
<1>2. /\ taker' = [taker EXCEPT ![q] =
                     [at |-> "hand", msg |-> block[q][k], used |-> k]]
      /\ stale' = (stale \/ block[q][k].by \notin Taking(q))
  BY <1>0 DEF TakeFails, Copy, Copied
<1>3. QueueTypes(q)
  BY Types
<1>4. block[q][k] \in Messages
  BY <1>0, <1>1, <1>3 DEF QueueTypes, QueueInv, CountInv, Filled
<1>5. TypeInv'
  <2>1. [at |-> "hand", msg |-> block[q][k], used |-> k]
          \in [at : {"wait", "hand", "store"},
               msg : Messages \union {NoMessage}, used : Nat]
    BY <1>1, <1>3, <1>4 DEF QueueTypes
  <2>2. taker' \in [Queues -> [at : {"wait", "hand", "store"},
                               msg : Messages \union {NoMessage}, used : Nat]]
    BY <1>2, <2>1 DEF TypeInv
  <2>3. raced' \in BOOLEAN /\ stale' \in BOOLEAN
    BY <1>1, <1>2 DEF TypeInv
  <2> QED BY <1>1, <2>2, <2>3 DEF TypeInv
<1>6. PortInv' /\ OneServer' /\ AloneInv'
  BY <1>1, StartsAside
<1>7. ASSUME NEW p \in Queues, p # q PROVE QueueInv(p)'
  <2>1. taker'[p] = taker[p]
    BY <1>2, <1>7 DEF TypeInv
  <2> QED BY <1>1, <1>7, <2>1, QueueAside
<1>8. /\ taker'[q].at = "hand" /\ taker'[q].msg = block[q][k]
      /\ taker'[q].used = k
  BY <1>2 DEF TypeInv
<1>9. net \union db = Taking(q) /\ net \union db # {}
  BY <1>1, SameServer
<1>10. ~crowded => OursUpTo(q, k) /\ Ours(block[q][k])
  BY <1>0, <1>1, <1>3, <1>9 DEF QueueTypes, QueueInv, OursInv, OursUpTo
<1>11. StaleNeedsRace'
  BY <1>1, <1>2, <1>9, <1>10 DEF StaleNeedsRace, Ours
<1>12. CountInv(q)'
  BY <1>0, <1>1, <1>3, <1>4, <1>8 DEF QueueTypes, QueueInv, CountInv, Filled
<1>13. DeadInv(q)'
  BY <1>1, <1>3 DEF QueueTypes, QueueInv, DeadInv, Posting, Taking
<1>14. OursInv(q)'
  BY <1>1, <1>3, <1>8, <1>10 DEF QueueTypes, QueueInv, OursInv, OursUpTo, Ours
<1>15. RaceInv(q)'
  BY <1>1 DEF RaceInv
<1> QED BY <1>5, <1>6, <1>7, <1>11, <1>12, <1>13, <1>14, <1>15 DEF QueueInv

(* The taker hands over what it copied, and keeps its place. *)
LEMMA TakerHands ==
  ASSUME NEW q, QueueTypes(q), taker[q].at = "hand",
         taker'[q] = [taker[q] EXCEPT !.at = "store"],
         used'[q] = used[q], block'[q] = block[q], sem'[q] = sem[q],
         tasks'[q] = tasks[q], thread'[q] = thread[q],
         UNCHANGED <<net, db, crowded, raced>>, Taking(q) # {}
  PROVE  QueueInv(q)'
<1>1. /\ taker'[q].at = "store" /\ taker'[q].msg = taker[q].msg
      /\ taker'[q].used = taker[q].used
  BY DEF QueueTypes
<1>2. CountInv(q)'
  BY <1>1 DEF QueueTypes, QueueInv, CountInv, Filled
<1>3. DeadInv(q)'
  BY DEF QueueTypes, QueueInv, DeadInv, Posting, Taking
<1>4. OursInv(q)'
  BY <1>1 DEF QueueTypes, QueueInv, OursInv, OursUpTo, Ours
<1>5. RaceInv(q)'
  BY <1>1 DEF QueueTypes, QueueInv, RaceInv, Held, Ours
<1> QED BY <1>2, <1>3, <1>4, <1>5 DEF QueueInv

LEMMA HandOverKeeps == ASSUME IInv, NEW q \in Queues, HandOver(q) PROVE IInv'
<1> USE DEF IInv
<1>0. PICK m : m = taker[q].msg
  OBVIOUS
<1>1. /\ Taking(q) # {} /\ taker[q].at = "hand"
      /\ taker' = [taker EXCEPT ![q].at = "store"]
      /\ UNCHANGED <<main, net, db, used, block, sem, thread, asked, deaths,
                     crowded, raced, dropped, stale>>
  BY DEF HandOver, AddTask, segments
<1>2. \/ /\ q = "request"
         /\ tasks' = [tasks EXCEPT !["reply"] = Append(@, m)]
         /\ UNCHANGED <<waits, mismatch>>
      \/ /\ q = "reply"
         /\ waits' = IF waits[m.client] = m.n
                       THEN [waits EXCEPT ![m.client] = 0] ELSE waits
         /\ mismatch' = (mismatch \/ (/\ m.client \notin Deaf
                                      /\ waits[m.client] # m.n))
         /\ UNCHANGED tasks
  BY <1>0 DEF HandOver, AddTask, Queues
<1>3. QueueTypes(q) /\ m \in Messages
  BY <1>0, <1>1, Types DEF QueueTypes, QueueInv, CountInv
<1>4. /\ taker'[q] = [taker[q] EXCEPT !.at = "store"]
      /\ \A p \in Queues : p # q => taker'[p] = taker[p]
  BY <1>1 DEF TypeInv
<1>5. TypeInv'
  <2>1. taker' \in [Queues -> [at : {"wait", "hand", "store"},
                               msg : Messages \union {NoMessage}, used : Nat]]
    BY <1>1 DEF TypeInv
  <2>2. tasks' \in [Queues -> Seq(Messages)]
    <3>1. CASE tasks' = [tasks EXCEPT !["reply"] = Append(@, m)]
      <4>1. Append(tasks["reply"], m) \in Seq(Messages)
        BY <1>3, AppendIsOfEither DEF TypeInv, Queues
      <4> QED BY <3>1, <4>1 DEF TypeInv
    <3>2. CASE tasks' = tasks
      BY <3>2 DEF TypeInv
    <3> QED BY <1>2, <3>1, <3>2
  <2>3. waits' \in [Clients -> 0 .. MaxRequests] /\ mismatch' \in BOOLEAN
    <3>1. CASE UNCHANGED <<waits, mismatch>>
      BY <3>1 DEF TypeInv
    <3>2. CASE q = "reply"
      <4>1. waits' = waits \/ waits' = [waits EXCEPT ![m.client] = 0]
        BY <1>2, <3>2
      <4>2. waits' \in [Clients -> 0 .. MaxRequests]
        <5>1. waits \in [Clients -> 0 .. MaxRequests] /\ 0 \in 0 .. MaxRequests
          BY DEF TypeInv
        <5> QED BY <4>1, <5>1
      <4>3. mismatch' \in BOOLEAN
        BY <1>2, <3>2
      <4> QED BY <4>2, <4>3
    <3> QED BY <1>2, <3>1, <3>2
  <2> QED BY <1>1, <2>1, <2>2, <2>3 DEF TypeInv
<1>6. PortInv' /\ OneServer' /\ AloneInv'
  BY <1>1, StartsAside
<1>7. StaleNeedsRace'
  BY <1>1 DEF StaleNeedsRace
<1>8. QueueInv(q)'
  <2>1. tasks'[q] = tasks[q]
    BY <1>2 DEF TypeInv
  <2> QED BY <1>1, <1>3, <1>4, <2>1, TakerHands
<1>9. ASSUME NEW p \in Queues, p # q PROVE QueueInv(p)'
  <2>1. CASE q = "reply"
    BY <1>1, <1>2, <1>4, <1>9, <2>1, QueueAside
  <2>2. CASE q = "request"
    <3>1. p = "reply" /\ tasks' = [tasks EXCEPT ![p] = Append(@, m)]
      BY <1>2, <1>9, <2>2 DEF Queues
    <3>2. Posting(p) # {}
      BY <1>1, <2>2, <3>1 DEF Posting, Taking
    <3>3. CASE Ours(m)
      BY <1>1, <1>3, <1>4, <1>9, <3>1, <3>2, <3>3, TaskJoins
    <3>4. CASE ~Ours(m)
      <4>1. crowded /\ raced
        BY <1>0, <1>1, <1>3, <3>4, SameServer
        DEF QueueTypes, QueueInv, OursInv, RaceInv
      <4>2. CountInv(p)' /\ DeadInv(p)'
        BY <1>1, <1>4, <1>9, <3>2
        DEF QueueInv, CountInv, DeadInv, Filled, Posting, Taking
      <4>3. OursInv(p)' /\ RaceInv(p)'
        BY <1>1, <4>1 DEF OursInv, RaceInv
      <4> QED BY <4>2, <4>3 DEF QueueInv
    <3> QED BY <3>3, <3>4
  <2> QED BY <2>1, <2>2 DEF Queues
<1> QED BY <1>5, <1>6, <1>7, <1>8, <1>9

LEMMA StoreKeeps == ASSUME IInv, NEW q \in Queues, Store(q) PROVE IInv'
<1> USE DEF IInv
<1>0. PICK k : k = taker[q].used
  OBVIOUS
<1>1. /\ Taking(q) # {} /\ taker[q].at = "store"
      /\ taker' = [taker EXCEPT ![q] = Waiting]
      /\ used' = [used EXCEPT ![q] = k - 1]
      /\ UNCHANGED <<main, net, db, block, sem, tasks, thread, asked, waits,
                     deaths, crowded, raced, dropped, stale, mismatch>>
  BY <1>0 DEF Store, clients, history
<1>2. QueueTypes(q) /\ k \in 1 .. Cap(q) /\ Filled(q, k)
  BY <1>0, <1>1, Types DEF QueueTypes, QueueInv, CountInv
<1>3. /\ taker'[q].at = "wait" /\ used'[q] = k - 1 /\ Cap(q) \in Nat
  BY <1>1, <1>2 DEF TypeInv, Waiting, QueueTypes
<1>4. TypeInv'
  <2>1. used' \in [Queues -> Nat]
    BY <1>1, <1>2, <1>3 DEF TypeInv
  <2>2. taker' \in [Queues -> [at : {"wait", "hand", "store"},
                               msg : Messages \union {NoMessage}, used : Nat]]
    BY <1>1 DEF TypeInv, Waiting
  <2> QED BY <1>1, <2>1, <2>2 DEF TypeInv
<1>5. PortInv' /\ OneServer' /\ AloneInv'
  BY <1>1, StartsAside DEF Taking
<1>6. StaleNeedsRace'
  BY <1>1 DEF StaleNeedsRace
<1>7. ASSUME NEW p \in Queues, p # q PROVE QueueInv(p)'
  <2>1. taker'[p] = taker[p] /\ used'[p] = used[p]
    BY <1>1, <1>7 DEF TypeInv
  <2> QED BY <1>1, <2>1, QueueAside
<1>8. QueueInv(q)'
  <2>1. CountInv(q)'
    BY <1>1, <1>2, <1>3 DEF QueueTypes, QueueInv, CountInv, Filled
  <2>2. DeadInv(q)'
    BY <1>1, <1>2, <1>3 DEF QueueTypes, QueueInv, DeadInv, Posting, Taking
  <2>3. OursInv(q)'
    BY <1>0, <1>1, <1>2, <1>3
    DEF QueueTypes, QueueInv, OursInv, OursUpTo, Ours
  <2>4. RaceInv(q)'
    <3> SUFFICES ASSUME ~raced, net \union db # {} PROVE RaceInv(q)'
      BY <1>1 DEF RaceInv
    <3>1. /\ k = used[q] /\ sem[q] + 1 <= used[q]
          /\ \A t \in Pool(q) : thread[q][t].at # "loaded"
          /\ \A i \in 1 .. used[q] :
               i > used[q] - sem[q] - 1 => Ours(block[q][i])
          /\ \A i \in DOMAIN tasks[q] : Ours(tasks[q][i])
      BY <1>0, <1>1, <1>2 DEF QueueTypes, QueueInv, RaceInv, Held
    <3>2. Held(q)' = 0
      BY <1>3 DEF Held
    <3> QED BY <1>1, <1>2, <1>3, <3>1, <3>2 DEF RaceInv, Ours, QueueTypes
  <2> QED BY <2>1, <2>2, <2>3, <2>4 DEF QueueInv
<1> QED BY <1>4, <1>5, <1>6, <1>7, <1>8

-----------------------------------------------------------------------------
LEMMA NextIInv == IInv /\ [Next]_vars => IInv'
<1> SUFFICES ASSUME IInv, [Next]_vars PROVE IInv'
  OBVIOUS
<1>1. ASSUME NEW s \in Starts, Start(s) PROVE IInv'
  BY <1>1, ClearKeeps, BindKeeps, ServeKeeps DEF Start, Queues
<1>2. ASSUME NEW c \in Clients, Ask(c) PROVE IInv'
  BY <1>2, AskKeeps
<1>3. ASSUME NEW q \in Queues, Die(q) PROVE IInv'
  BY <1>3, DieKeeps
<1>4. ASSUME NEW q \in Queues, PoolStep(q) PROVE IInv'
  BY <1>4, LoadKeeps, PostKeeps DEF PoolStep
<1>5. ASSUME NEW q \in Queues, TakerStep(q) PROVE IInv'
  BY <1>5, TakeKeeps, HandOverKeeps, StoreKeeps DEF TakerStep
<1>7. ASSUME NEW q \in Queues, TakeFails(q) PROVE IInv'
  BY <1>7, TakeFailsKeeps
<1>6. CASE UNCHANGED vars
  <2>1. /\ UNCHANGED <<main, net, db, used, block, sem, tasks, thread, taker,
                       asked, waits, deaths, crowded, raced, dropped, stale,
                       mismatch>>
    BY <1>6 DEF vars, segments, clients, history
  <2>2. TypeInv' /\ StaleNeedsRace'
    BY <2>1 DEF IInv, TypeInv, StaleNeedsRace
  <2>3. PortInv' /\ OneServer' /\ AloneInv'
    BY <2>1, StartsAside DEF IInv
  <2> QED BY <2>1, <2>2, <2>3, QueueAside DEF IInv
<1> QED BY <1>1, <1>2, <1>3, <1>4, <1>5, <1>6, <1>7 DEF Next

(* What is left of the bounds, and which lists are forgotten. *)
BoundInv == asleep \in [Queues -> BOOLEAN] /\ failures \in Nat

LEMMA AddTaskBounds ==
  ASSUME BoundInv, NEW q \in Queues, NEW m, AddTask(q, m) PROVE BoundInv'
<1>1. asleep' \in [Queues -> BOOLEAN]
  BY Zenon DEF BoundInv, AddTask
<1>2. failures' \in Nat
  BY DEF BoundInv, AddTask
<1> QED BY <1>1, <1>2 DEF BoundInv

LEMMA NextBounds == BoundInv /\ [Next]_vars => BoundInv'
<1> SUFFICES ASSUME BoundInv, [Next]_vars PROVE BoundInv'
  OBVIOUS
<1>1. ASSUME NEW s \in Starts, Start(s) PROVE BoundInv'
  BY <1>1 DEF Start, Clear, Bind, Serve, BoundInv
<1>2. ASSUME NEW c \in Clients, Ask(c) PROVE BoundInv'
  BY <1>2, AddTaskBounds DEF Ask, Queues
<1>3. ASSUME NEW q \in Queues, Die(q) PROVE BoundInv'
  BY <1>3 DEF Die, BoundInv
<1>4. ASSUME NEW q \in Queues, PoolStep(q) PROVE BoundInv'
  BY <1>4 DEF PoolStep, Load, Post, BoundInv
<1>5. ASSUME NEW q \in Queues, Take(q) \/ Store(q) \/ TakeFails(q)
      PROVE  BoundInv'
  BY <1>5 DEF Take, Store, TakeFails, BoundInv
<1>6. ASSUME NEW q \in Queues, HandOver(q) PROVE BoundInv'
  <2>1. CASE q = "request"
    BY <1>6, <2>1, AddTaskBounds DEF HandOver, Queues
  <2>2. CASE q # "request"
    BY <1>6, <2>2 DEF HandOver, BoundInv
  <2> QED BY <2>1, <2>2
<1>7. CASE UNCHANGED vars
  BY <1>7 DEF vars, BoundInv
<1> QED BY <1>1, <1>2, <1>3, <1>4, <1>5, <1>6, <1>7 DEF Next, TakerStep

LEMMA Invariance == Spec => []IInv
  BY InitIInv, NextIInv, PTL DEF Spec

(* Every counter is one of the segment's, every packet was sent by some    *)
(* client and read by some server: no race, start or death lets a block    *)
(* that was never filled into a task or a reply.                           *)
THEOREM TypeCorrect == Spec => []TypeOK
<1>1. IInv /\ BoundInv => TypeOK
  BY DEF IInv, BoundInv, TypeInv, QueueInv, CountInv, TypeOK
<1>2. Init => BoundInv
  BY ServerAssumption DEF ServerAssumption, Init, BoundInv
<1> QED BY <1>1, <1>2, NextBounds, Invariance, PTL DEF Spec

(* Never two servers on one pair of segments, however many are started and *)
(* whichever processes die: Bind decides, and both processes keep the port *)
(* (main.cpp:161, 172).                                                    *)
THEOREM OneServerCorrect == Spec => []OneServer
<1>1. IInv => OneServer
  BY DEF IInv
<1> QED BY <1>1, Invariance, PTL

(* A packet of an older server is taken only if some start was crowded and *)
(* actors overlapped, or a sem_p failed, in the new server (main.cpp:128,  *)
(* 157).                                                                   *)
THEOREM StaleCorrect == Spec => []StaleNeedsRace
<1>1. IInv => StaleNeedsRace
  BY DEF IInv
<1> QED BY <1>1, Invariance, PTL
=============================================================================
