-------------------------- MODULE ServerMatchProofs --------------------------
(***************************************************************************)
(* A client that waits gets the reply it waits for, through both           *)
(* last-in first-out segments and both pools, until actors overlap, and no *)
(* request or reply is lost or made two of on the way, so that the whole   *)
(* is the exchange it is meant to be: for any number of clients, threads,  *)
(* blocks, starts and deaths.                                              *)
(***************************************************************************)
EXTENDS ServerProofs

USE ServerAssumption DEF ServerAssumption

(* The places a packet passes on its way: queue q, kind k, and which task, *)
(* thread or block of that kind.  They count while the server that runs    *)
(* has not raced, and somebody is left to take from the queue.  A block    *)
(* the taker holds is at its hand, or already in the next queue; blocks    *)
(* below those a token stands for were left behind by an older server.     *)
On(q, k, x) ==
  /\ ~raced /\ net # {} /\ Taking(q) # {}
  /\ \/ k = "task" /\ x \in DOMAIN tasks[q]
     \/ k = "thread" /\ x \in Pool(q) /\ thread[q][x].at = "loaded"
     \/ /\ k = "block"
        /\ x \in (used[q] - sem[q] - Held(q) + 1) .. (used[q] - Held(q))
     \/ k = "hand" /\ x = 0 /\ taker[q].at = "hand"

(* The packet there. *)
At(q, k, x) ==
  CASE k = "task"   -> tasks[q][x]
    [] k = "thread" -> thread[q][x].msg
    [] k = "block"  -> block[q][x]
    [] k = "hand"   -> taker[q].msg

Reads(m) == m.client \notin Deaf

(* A packet on its way is the one its client waits for. *)
WaitedInv ==
  \A q \in Queues : \A k, x :
    On(q, k, x) /\ Reads(At(q, k, x)) =>
      waits[At(q, k, x).client] = At(q, k, x).n

(* No client has packets at two places. *)
OnceInv ==
  \A q, p \in Queues : \A k, x, j, y :
    On(q, k, x) /\ On(p, j, y) /\ Reads(At(q, k, x))
      /\ At(q, k, x).client = At(p, j, y).client
      => q = p /\ k = j /\ x = y

(* The inductive invariant, beside IInv: MatchUnlessRaced alone does not   *)
(* say which packets are about.                                            *)
MatchInv == WaitedInv /\ OnceInv /\ MatchUnlessRaced

-----------------------------------------------------------------------------
LEMMA PacketsAreMessages ==
  ASSUME IInv, NEW q \in Queues, NEW k, NEW x, On(q, k, x)
  PROVE  /\ At(q, k, x) \in Messages
         /\ At(q, k, x).client \in Clients /\ At(q, k, x).n # 0
<1>1. At(q, k, x) \in Messages
  <2>0. QueueInv(q) /\ CountInv(q) /\ TypeInv
    BY DEF IInv, QueueInv
  <2>1. CASE k = "task"
    <3>1. tasks[q] \in Seq(Messages) /\ x \in DOMAIN tasks[q]
      BY <2>0, <2>1 DEF On, TypeInv
    <3> QED
      BY <2>1, <3>1 DEF At
  <2>2. CASE k = "thread"
    BY <2>0, <2>2 DEF On, At, CountInv
  <2>3. CASE k = "block"
    <3>1. /\ sem[q] + Held(q) <= used[q] /\ used[q] \in Nat /\ sem[q] \in Nat
          /\ Held(q) \in {0, 1}
      BY <2>0 DEF On, QueueInv, RaceInv, TypeInv, Held
    <3>2. x \in 1 .. used[q]
      BY <2>3, <3>1 DEF On
    <3> QED
      BY <2>0, <2>3, <3>2 DEF At, CountInv, Filled
  <2>4. CASE k = "hand"
    BY <2>0, <2>4 DEF On, At, CountInv
  <2> QED
    BY <2>1, <2>2, <2>3, <2>4 DEF On
<1> QED
  BY <1>1 DEF Messages

(* A step that puts no packet anywhere keeps the invariant.                *)
LEMMA NoPacketMoves ==
  ASSUME MatchInv, waits' = waits,
         \A p \in Queues : \A k, x :
           On(p, k, x)' => On(p, k, x) /\ At(p, k, x)' = At(p, k, x)
  PROVE  WaitedInv' /\ OnceInv'
<1>1. WaitedInv'
  BY DEF MatchInv, WaitedInv, Reads
<1>2. OnceInv'
  BY DEF MatchInv, OnceInv, Reads
<1> QED
  BY <1>1, <1>2

(* What only the tasks, threads, blocks and taker of a queue say of it.    *)
LEMMA PlacesAside ==
  ASSUME NEW p \in Queues, raced => raced', net' = net, db' = db,
         tasks'[p] = tasks[p], thread'[p] = thread[p], block'[p] = block[p],
         used'[p] = used[p], sem'[p] = sem[p], taker'[p] = taker[p]
  PROVE  \A k, x : On(p, k, x)' => On(p, k, x) /\ At(p, k, x)' = At(p, k, x)
BY DEF On, At, Held, Taking

-----------------------------------------------------------------------------
LEMMA InitMatch == Init => MatchInv
<1> SUFFICES ASSUME Init PROVE MatchInv
  OBVIOUS
<1>1. \A q \in Queues : \A k, x : ~On(q, k, x)
  BY DEF Init, On
<1> QED
  BY <1>1 DEF Init, MatchInv, WaitedInv, OnceInv, MatchUnlessRaced

(* Nobody is left to take anything, or actors have overlapped.             *)
LEMMA NothingOn ==
  ASSUME raced' \/ net' = {}
  PROVE  WaitedInv' /\ OnceInv'
BY DEF On, WaitedInv, OnceInv

LEMMA ClearMatch ==
  ASSUME MatchInv, NEW s \in Starts, NEW q \in Queues, NEW from, NEW to,
         Clear(s, q, from, to)
  PROVE  MatchInv'
<1>1. raced' = (raced \/ net \union db # {}) /\ UNCHANGED <<net, mismatch>>
  BY DEF Clear
<1>2. raced' \/ net' = {}
  BY <1>1
<1> QED
  BY <1>1, <1>2, NothingOn DEF MatchInv, MatchUnlessRaced

LEMMA BindMatch ==
  ASSUME MatchInv, NEW s \in Starts, Bind(s)
  PROVE  MatchInv'
<1>1. UNCHANGED <<net, db, used, block, sem, tasks, thread, taker, waits,
                  raced, mismatch>>
  BY DEF Bind, segments, clients, history
<1>2. \A p \in Queues : \A k, x :
        On(p, k, x)' => On(p, k, x) /\ At(p, k, x)' = At(p, k, x)
  BY <1>1, PlacesAside
<1> QED
  BY <1>1, <1>2, NoPacketMoves DEF MatchInv, MatchUnlessRaced

(* A server begins with both queues empty, whatever blocks are left.       *)
LEMMA ServeMatch ==
  ASSUME IInv, MatchInv, NEW s \in Starts, Serve(s)
  PROVE  MatchInv'
<1>1. /\ net = {} /\ db = {} /\ sem' = [q \in Queues |-> 0]
      /\ UNCHANGED <<used, tasks, thread, taker>> /\ mismatch' = FALSE
  BY DEF Serve, IInv, PortInv
<1>2. ASSUME NEW q \in Queues, NEW k, NEW x PROVE ~On(q, k, x)'
  <2>1. /\ tasks'[q] = <<>> /\ taker'[q].at = "wait" /\ sem'[q] = 0
        /\ \A t \in Pool(q) : thread'[q][t].at = "idle"
    BY <1>1 DEF IInv, QueueInv, DeadInv, Posting, Taking
  <2>2. used'[q] \in Nat
    BY <1>1 DEF IInv, TypeInv
  <2>3. Held(q)' = 0
    BY <2>1 DEF Held
  <2> QED
    BY <2>1, <2>2, <2>3 DEF On
<1> QED
  BY <1>1, <1>2 DEF MatchInv, WaitedInv, OnceInv, MatchUnlessRaced

(* A process dies: what was in its queue and its hand is gone, and of what *)
(* waits for it nothing is asked any more.                                 *)
LEMMA DieMatch ==
  ASSUME IInv, MatchInv, NEW q \in Queues, Die(q)
  PROVE  MatchInv'
<1> DEFINE other == CHOOSE p \in Queues : p # q
<1>1. /\ \/ q = "request" /\ net' = {} /\ db' = db
         \/ q = "reply" /\ db' = {} /\ net' = net /\ waits' = waits
      /\ tasks' = [tasks EXCEPT ![q] = <<>>]
      /\ thread' = [thread EXCEPT ![q] = [t \in Pool(q) |-> Idle]]
      /\ taker' = [taker EXCEPT ![other] = Waiting]
      /\ UNCHANGED <<used, block, sem, raced, mismatch>>
  BY DEF Die, Queues, segments, history
<1>2. MatchUnlessRaced'
  BY <1>1 DEF MatchInv, MatchUnlessRaced
<1>3. CASE q = "request"
  BY <1>1, <1>2, <1>3, NothingOn DEF MatchInv
<1>4. CASE q = "reply"
  <2>1. /\ db' = {} /\ net' = net /\ waits' = waits /\ other = "request"
    BY <1>1, <1>4 DEF Queues
  <2>2. ASSUME NEW p \in Queues, NEW k, NEW x, On(p, k, x)'
        PROVE  On(p, k, x) /\ At(p, k, x)' = At(p, k, x)
    <3>1. p = "reply"
      BY <2>1, <2>2 DEF On, Taking, Queues
    <3>2. /\ tasks'[p] = <<>> /\ taker'[p] = taker[p]
          /\ thread'[p] = [t \in Pool(p) |-> Idle]
      BY <1>1, <1>4, <2>1, <3>1 DEF IInv, TypeInv
    <3>3. k # "task" /\ k # "thread"
      BY <2>2, <3>2 DEF On, Idle
    <3>4. Held(p)' = Held(p)
      BY <3>2 DEF Held
    <3> QED
      BY <1>1, <2>1, <2>2, <3>1, <3>2, <3>3, <3>4 DEF On, At, Taking
  <2> QED
    BY <1>2, <2>1, <2>2, NoPacketMoves DEF MatchInv
<1> QED
  BY <1>3, <1>4 DEF Queues

-----------------------------------------------------------------------------
(* A client that waits for nothing has no packet on its way.               *)
LEMMA NothingAbout ==
  ASSUME IInv, MatchInv, NEW c \in Clients \ Deaf, waits[c] = 0,
         NEW q \in Queues, NEW k, NEW x, On(q, k, x)
  PROVE  At(q, k, x).client # c
BY PacketsAreMessages DEF MatchInv, WaitedInv, Reads

LEMMA AskMatch ==
  ASSUME IInv, MatchInv, NEW c \in Clients, Ask(c)
  PROVE  MatchInv'
<1>1. PICK s \in net :
        tasks' = [tasks EXCEPT !["request"] =
                    Append(@, [client |-> c, n |-> asked', by |-> s])]
  BY DEF Ask, AddTask
<1> DEFINE m == [client |-> c, n |-> asked', by |-> s]
           w == Len(tasks["request"]) + 1
<1>2. /\ asked < MaxRequests /\ asked' = asked + 1
      /\ c \notin Deaf => waits[c] = 0
      /\ waits' = IF c \in Deaf THEN waits ELSE [waits EXCEPT ![c] = asked']
      /\ UNCHANGED <<net, db, used, block, sem, thread, taker, raced, mismatch>>
  BY DEF Ask, AddTask, segments, history
<1>3. m.client = c /\ m.n = asked' /\ asked' \in 1 .. MaxRequests
  <2>1. asked \in 0 .. MaxRequests
    BY DEF IInv, TypeInv
  <2>2. asked' \in 1 .. MaxRequests
    BY <1>2, <2>1
  <2>3. m.client = c /\ m.n = asked'
    OBVIOUS
  <2> QED
    BY <2>2, <2>3
<1>4. m \in Messages
  BY <1>1, <1>3 DEF Messages, IInv, TypeInv
<1> HIDE DEF m
<1>5. /\ tasks["request"] \in Seq(Messages)
      /\ tasks'["request"] = Append(tasks["request"], m)
      /\ tasks'["reply"] = tasks["reply"]
  BY <1>1 DEF IInv, TypeInv, Queues, m
<1>6. \A i \in DOMAIN tasks'["request"] :
        \/ i = w /\ tasks'["request"][i] = m
        \/ /\ i \in DOMAIN tasks["request"]
           /\ tasks'["request"][i] = tasks["request"][i]
  BY <1>4, <1>5
<1> HIDE DEF w
<1>7. \A p \in Queues : \A k, x :
        On(p, k, x)' =>
          \/ p = "request" /\ k = "task" /\ x = w /\ At(p, k, x)' = m
          \/ On(p, k, x) /\ At(p, k, x)' = At(p, k, x)
  <2> SUFFICES ASSUME NEW p \in Queues, NEW k, NEW x, On(p, k, x)'
               PROVE  \/ p = "request" /\ k = "task" /\ x = w
                         /\ At(p, k, x)' = m
                      \/ On(p, k, x) /\ At(p, k, x)' = At(p, k, x)
    OBVIOUS
  <2>1. CASE p = "request" /\ k = "task"
    BY <1>2, <1>6, <2>1 DEF On, At, Taking
  <2>2. CASE k # "task"
    BY <1>2, <2>2 DEF On, At, Taking, Held
  <2>3. CASE p = "reply"
    BY <1>2, <1>5, <2>3, PlacesAside DEF Queues
  <2> QED
    BY <2>1, <2>2, <2>3 DEF Queues
<1>8. \A p \in Queues : \A k, x :
        On(p, k, x) /\ Reads(At(p, k, x)) => At(p, k, x).client # c
  BY <1>2, NothingAbout DEF Reads
<1>9. WaitedInv'
  <2> SUFFICES ASSUME NEW p \in Queues, NEW k, NEW x,
                      On(p, k, x)', Reads(At(p, k, x)')
               PROVE  waits'[At(p, k, x)'.client] = At(p, k, x)'.n
    BY DEF WaitedInv, Reads
  <2>1. CASE At(p, k, x)' = m
    BY <1>2, <1>3, <2>1 DEF Reads, IInv, TypeInv
  <2>2. CASE On(p, k, x) /\ At(p, k, x)' = At(p, k, x)
    <3>1. /\ At(p, k, x).client # c /\ At(p, k, x).client \in Clients
          /\ waits[At(p, k, x).client] = At(p, k, x).n
      BY <1>8, <2>2, PacketsAreMessages DEF MatchInv, WaitedInv
    <3> QED
      BY <1>2, <2>2, <3>1 DEF IInv, TypeInv
  <2> QED
    BY <1>7, <2>1, <2>2
<1>10. OnceInv'
  BY <1>3, <1>7, <1>8 DEF MatchInv, OnceInv, Reads
<1> QED
  BY <1>2, <1>9, <1>10 DEF MatchInv, MatchUnlessRaced

(* run() takes the first task; the others move up by one place.            *)
LEMMA LoadMatch ==
  ASSUME IInv, MatchInv, NEW q \in Queues, NEW t \in Pool(q), Load(q, t)
  PROVE  MatchInv'
<1> DEFINE m == Head(tasks[q])
           loaded == [at |-> "loaded", msg |-> m, used |-> used[q] + 1]
<1>1. /\ tasks[q] # <<>> /\ tasks' = [tasks EXCEPT ![q] = Tail(@)]
      /\ UNCHANGED <<net, db, used, block, sem, taker, waits, mismatch>>
  BY DEF Load, segments, clients
<1>2. \/ /\ thread' = [thread EXCEPT ![q][t] = loaded]
         /\ raced' = (raced \/ ThreadInside(q) \/ taker[q].at # "wait")
      \/ thread' = thread /\ raced' = raced
  BY DEF Load
<1>3. raced => raced'
  BY <1>2
<1>4. /\ tasks[q] \in Seq(Messages) /\ tasks'[q] = Tail(tasks[q])
      /\ 1 \in DOMAIN tasks[q] /\ m = tasks[q][1]
      /\ \A i \in DOMAIN tasks'[q] :
           i + 1 \in DOMAIN tasks[q] /\ tasks'[q][i] = tasks[q][i+1]
  BY <1>1, TailIsOfTheSame DEF IInv, TypeInv
<1>5. DOMAIN tasks'[q] \subseteq Nat \ {0}
  BY <1>4
<1>6. \A u \in Pool(q) :
        \/ u = t /\ thread'[q][u] = loaded
        \/ thread'[q][u] = thread[q][u]
  BY <1>2 DEF IInv, TypeInv, QueueInv, CountInv
<1>7. m = loaded.msg
  OBVIOUS
<1> HIDE DEF m, loaded
<1>8. \A p \in Queues : \A k, x :
        On(p, k, x)' =>
          \/ /\ p = q /\ k = "task" /\ x \in Nat \ {0}
             /\ On(q, k, x + 1) /\ At(p, k, x)' = At(q, k, x + 1)
          \/ /\ p = q /\ k = "thread" /\ x = t
             /\ On(q, "task", 1) /\ At(p, k, x)' = At(q, "task", 1)
          \/ /\ ~(p = q /\ k = "task")
             /\ On(p, k, x) /\ At(p, k, x)' = At(p, k, x)
  <2> SUFFICES
        ASSUME NEW p \in Queues, NEW k, NEW x, On(p, k, x)'
        PROVE  \/ /\ p = q /\ k = "task" /\ x \in Nat \ {0}
                  /\ On(q, k, x + 1) /\ At(p, k, x)' = At(q, k, x + 1)
               \/ /\ p = q /\ k = "thread" /\ x = t
                  /\ On(q, "task", 1) /\ At(p, k, x)' = At(q, "task", 1)
               \/ /\ ~(p = q /\ k = "task")
                  /\ On(p, k, x) /\ At(p, k, x)' = At(p, k, x)
    OBVIOUS
  <2>0. ~raced /\ net # {} /\ Taking(p) # {}
    BY <1>1, <1>3 DEF On, Taking
  <2>1. CASE p # q
    <3>1. tasks'[p] = tasks[p] /\ thread'[p] = thread[p]
      BY <1>1, <1>2, <2>1 DEF IInv, TypeInv
    <3> QED
      BY <1>1, <1>3, <2>1, <3>1, PlacesAside
  <2>2. CASE p = q /\ k = "task"
    <3>1. x \in DOMAIN tasks'[q]
      BY <2>2 DEF On
    <3> QED
      BY <1>4, <1>5, <2>0, <2>2, <3>1 DEF On, At
  <2>3. CASE p = q /\ k = "thread"
    <3>1. x \in Pool(q) /\ thread'[q][x].at = "loaded"
      BY <2>3 DEF On
    <3>2. CASE x = t /\ thread'[q][x] = loaded
      BY <1>4, <1>7, <2>0, <2>3, <3>2 DEF On, At
    <3>3. CASE thread'[q][x] = thread[q][x]
      BY <2>0, <2>3, <3>1, <3>3 DEF On, At
    <3> QED
      BY <1>6, <3>1, <3>2, <3>3
  <2>4. CASE p = q /\ k \in {"block", "hand"}
    BY <1>1, <2>0, <2>4 DEF On, At, Held
  <2>5. k \in {"task", "thread", "block", "hand"}
    BY DEF On
  <2> QED
    BY <2>1, <2>2, <2>3, <2>4, <2>5
<1>9. WaitedInv'
  BY <1>1, <1>8 DEF MatchInv, WaitedInv, Reads
<1>10. OnceInv'
  BY <1>8 DEF MatchInv, OnceInv, Reads
<1> QED
  BY <1>1, <1>3, <1>9, <1>10 DEF MatchInv, MatchUnlessRaced

(* The packet of the thread is the block on top, with a token of its own.  *)
LEMMA PostMatch ==
  ASSUME IInv, MatchInv, NEW q \in Queues, NEW t \in Pool(q), Post(q, t)
  PROVE  MatchInv'
<1>0. PICK n, m : n = thread[q][t].used /\ m = thread[q][t].msg
  OBVIOUS
<1>1. /\ thread[q][t].at = "loaded"
      /\ thread' = [thread EXCEPT ![q][t] = Idle]
      /\ block' = [block EXCEPT ![q][n] = m]
      /\ used' = [used EXCEPT ![q] = n]
      /\ sem' = [sem EXCEPT ![q] = @ + 1]
      /\ UNCHANGED <<net, db, tasks, taker, waits, raced, mismatch>>
  BY <1>0 DEF Post, clients, history
<1>2. QueueTypes(q) /\ CountInv(q) /\ RaceInv(q)
  BY Types DEF IInv, QueueInv
<1>3. /\ thread'[q][t].at = "idle"
      /\ \A u \in Pool(q) : u # t => thread'[q][u] = thread[q][u]
      /\ \A i : i \in 1 .. Cap(q) /\ i # n => block'[q][i] = block[q][i]
      /\ n \in 1 .. Cap(q) => block'[q][n] = m
      /\ used'[q] = n /\ sem'[q] = sem[q] + 1
      /\ used[q] \in Nat /\ sem[q] \in Nat
  BY <1>1, <1>2 DEF IInv, TypeInv, CountInv, Idle
<1>4. CASE raced
  BY <1>1, <1>4, NothingOn DEF MatchInv, MatchUnlessRaced
<1>5. CASE net = {}
  BY <1>1, <1>5, NothingOn DEF MatchInv, MatchUnlessRaced
<1>6. CASE ~raced /\ net # {}
  <2>1. /\ taker[q].at = "wait" /\ n = used[q] + 1 /\ sem[q] <= used[q]
        /\ n \in 1 .. Cap(q)
    <3>1. ~raced /\ net \union db # {}
      BY <1>6
    <3>2. taker[q].at = "wait" /\ n = used[q] + 1
      BY <1>0, <1>1, <1>2, <3>1 DEF RaceInv
    <3>3. sem[q] + 0 <= used[q]
      BY <1>2, <3>1, <3>2 DEF RaceInv, Held
    <3>4. n \in 1 .. Cap(q)
      BY <1>0, <1>1, <1>2 DEF CountInv
    <3> QED
      BY <1>3, <3>2, <3>3, <3>4
  <2>2. Held(q) = 0 /\ Held(q)' = 0
    BY <1>1, <2>1 DEF Held
  <2>3. \A p \in Queues : \A k, x :
          On(p, k, x)' =>
            \/ /\ p = q /\ k = "block" /\ x = n
               /\ On(q, "thread", t) /\ At(p, k, x)' = At(q, "thread", t)
            \/ /\ ~(p = q /\ k = "thread" /\ x = t)
               /\ On(p, k, x) /\ At(p, k, x)' = At(p, k, x)
    <3> SUFFICES
          ASSUME NEW p \in Queues, NEW k, NEW x, On(p, k, x)'
          PROVE  \/ /\ p = q /\ k = "block" /\ x = n
                    /\ On(q, "thread", t) /\ At(p, k, x)' = At(q, "thread", t)
                 \/ /\ ~(p = q /\ k = "thread" /\ x = t)
                    /\ On(p, k, x) /\ At(p, k, x)' = At(p, k, x)
      OBVIOUS
    <3>0. ~raced /\ net # {} /\ Taking(p) # {}
      BY <1>1 DEF On, Taking
    <3>1. CASE p # q
      <4>1. /\ thread'[p] = thread[p] /\ block'[p] = block[p]
            /\ used'[p] = used[p] /\ sem'[p] = sem[p]
        BY <1>1, <3>1 DEF IInv, TypeInv
      <4> QED
        BY <1>1, <3>1, <4>1, PlacesAside
    <3>2. CASE p = q /\ k \in {"task", "hand"}
      BY <1>1, <3>0, <3>2 DEF On, At
    <3>3. CASE p = q /\ k = "thread"
      <4>1. x \in Pool(q) /\ thread'[q][x].at = "loaded"
        BY <3>3 DEF On
      <4>2. x # t /\ thread'[q][x] = thread[q][x]
        BY <1>3, <4>1
      <4> QED
        BY <3>0, <3>3, <4>1, <4>2 DEF On, At
    <3>4. CASE p = q /\ k = "block"
      <4>1. x \in (n - (sem[q] + 1) - 0 + 1) .. (n - 0)
        BY <1>3, <2>2, <3>4 DEF On
      <4>2. CASE x = n
        <5>1. On(q, "thread", t) /\ At(q, "thread", t) = m
          BY <1>0, <1>1, <3>0, <3>4 DEF On, At
        <5>2. At(p, k, x)' = m
          BY <1>3, <2>1, <3>4, <4>2 DEF At
        <5> QED
          BY <3>4, <4>2, <5>1, <5>2
      <4>3. CASE x # n
        <5>1. /\ x \in (used[q] - sem[q] - 0 + 1) .. (used[q] - 0)
              /\ x \in 1 .. n
          BY <1>3, <2>1, <4>1, <4>3
        <5>2. x \in 1 .. Cap(q)
          BY <2>1, <5>1, CapIsNat
        <5> QED
          BY <1>3, <2>2, <3>0, <3>4, <4>3, <5>1, <5>2 DEF On, At
      <4> QED
        BY <4>2, <4>3
    <3>5. k \in {"task", "thread", "block", "hand"}
      BY DEF On
    <3> QED
      BY <3>1, <3>2, <3>3, <3>4, <3>5
  <2>4. WaitedInv'
    BY <1>1, <2>3 DEF MatchInv, WaitedInv, Reads
  <2>5. OnceInv'
    BY <2>3 DEF MatchInv, OnceInv, Reads
  <2> QED
    BY <1>1, <2>4, <2>5 DEF MatchInv, MatchUnlessRaced
<1> QED
  BY <1>4, <1>5, <1>6

(* The block on top comes into the taker's hand, and its token is gone.    *)
LEMMA TakeMatch ==
  ASSUME IInv, MatchInv, NEW q \in Queues, Take(q)
  PROVE  MatchInv'
<1>0. PICK n, m : n = used[q] /\ m = Copied(q)
  OBVIOUS
<1> DEFINE hand == [at |-> "hand", msg |-> m, used |-> n]
<1>1. /\ taker[q].at = "wait" /\ sem[q] > 0
      /\ sem' = [sem EXCEPT ![q] = @ - 1]
      /\ UNCHANGED <<net, db, used, block, tasks, thread, waits, mismatch>>
      /\ n \in 1 .. Cap(q) => taker' = [taker EXCEPT ![q] = hand]
      /\ raced => raced'
  BY <1>0 DEF Take, Copy, clients
<1>2. QueueTypes(q) /\ CountInv(q) /\ RaceInv(q)
  BY Types DEF IInv, QueueInv
<1>3. /\ sem'[q] = sem[q] - 1 /\ used[q] \in Nat /\ sem[q] \in Nat
      /\ used[q] <= Cap(q)
  BY <1>1, <1>2 DEF IInv, TypeInv, CountInv
<1>4. MatchUnlessRaced'
  BY <1>1 DEF MatchInv, MatchUnlessRaced
<1>5. CASE raced \/ net = {}
  BY <1>1, <1>4, <1>5, NothingOn DEF MatchInv
<1>6. CASE ~raced /\ net # {}
  <2>1. Held(q) = 0 /\ n \in 1 .. Cap(q)
    BY <1>0, <1>1, <1>2, <1>3, <1>6, CapIsNat DEF RaceInv, Held
  <2>2. taker'[q] = hand /\ taker' = [taker EXCEPT ![q] = hand]
    BY <1>1, <2>1 DEF IInv, TypeInv
  <2>3. Held(q)' = 1
    BY <2>2 DEF Held
  <2>4. \A p \in Queues : \A k, x :
          On(p, k, x)' =>
            \/ /\ p = q /\ k = "hand" /\ x = 0
               /\ On(q, "block", n) /\ At(p, k, x)' = At(q, "block", n)
            \/ /\ ~(p = q /\ k = "block" /\ x = n)
               /\ On(p, k, x) /\ At(p, k, x)' = At(p, k, x)
    <3> SUFFICES
          ASSUME NEW p \in Queues, NEW k, NEW x, On(p, k, x)'
          PROVE  \/ /\ p = q /\ k = "hand" /\ x = 0
                    /\ On(q, "block", n) /\ At(p, k, x)' = At(q, "block", n)
                 \/ /\ ~(p = q /\ k = "block" /\ x = n)
                    /\ On(p, k, x) /\ At(p, k, x)' = At(p, k, x)
      OBVIOUS
    <3>0. ~raced /\ net # {} /\ Taking(p) # {}
      BY <1>1, <1>6 DEF On, Taking
    <3>1. CASE p # q
      <4>1. taker'[p] = taker[p] /\ sem'[p] = sem[p]
        BY <1>1, <2>2, <3>1 DEF IInv, TypeInv
      <4> QED
        BY <1>1, <3>1, <4>1, PlacesAside
    <3>2. CASE p = q /\ k \in {"task", "thread"}
      BY <1>1, <3>0, <3>2 DEF On, At
    <3>3. CASE p = q /\ k = "hand"
      <4>1. x = 0 /\ At(p, k, x)' = m
        BY <2>2, <3>3 DEF On, At
      <4>2. On(q, "block", n)
        BY <1>0, <1>1, <1>3, <2>1, <3>0, <3>3 DEF On
      <4>3. At(q, "block", n) = m
        BY <1>0 DEF At, Copied
      <4> QED
        BY <3>3, <4>1, <4>2, <4>3
    <3>4. CASE p = q /\ k = "block"
      <4>1. x \in (n - (sem[q] - 1) - 1 + 1) .. (n - 1)
        BY <1>0, <1>1, <1>3, <2>3, <3>4 DEF On
      <4>2. x # n /\ x \in (n - sem[q] - 0 + 1) .. (n - 0)
        BY <1>0, <1>3, <4>1
      <4> QED
        BY <1>0, <1>1, <2>1, <3>0, <3>4, <4>2 DEF On, At
    <3>5. k \in {"task", "thread", "block", "hand"}
      BY DEF On
    <3> QED
      BY <3>1, <3>2, <3>3, <3>4, <3>5
  <2>5. WaitedInv'
    BY <1>1, <2>4 DEF MatchInv, WaitedInv, Reads
  <2>6. OnceInv'
    BY <2>4 DEF MatchInv, OnceInv, Reads
  <2> QED
    BY <1>4, <2>5, <2>6 DEF MatchInv
<1> QED
  BY <1>5, <1>6

-----------------------------------------------------------------------------
(* What the hand-over does to the places, but for the tasks of replies:    *)
(* the hand is empty, and no other packet moves.                           *)
LEMMA HandEmptied ==
  ASSUME IInv, NEW q \in Queues, HandOver(q),
         NEW p \in Queues, NEW k, NEW x, On(p, k, x)', tasks'[p] = tasks[p]
  PROVE  /\ ~(p = q /\ k = "hand")
         /\ On(p, k, x) /\ At(p, k, x)' = At(p, k, x)
<1>1. /\ taker[q].at = "hand" /\ taker' = [taker EXCEPT ![q].at = "store"]
      /\ UNCHANGED <<net, db, used, block, sem, thread, raced>>
  BY DEF HandOver, AddTask, segments
<1>2. CASE p # q
  <2>1. taker'[p] = taker[p]
    BY <1>1, <1>2 DEF IInv, TypeInv
  <2> QED
    BY <1>1, <1>2, <2>1, PlacesAside
<1>3. CASE p = q
  <2>1. taker'[q].at = "store" /\ Held(q) = 1 /\ Held(q)' = 1
    BY <1>1 DEF IInv, TypeInv, Held
  <2> QED
    BY <1>1, <1>3, <2>1 DEF On, At, Taking
<1> QED
  BY <1>2, <1>3

(* The dispatcher: the packet in its hand becomes the last task of the     *)
(* database process.                                                       *)
LEMMA DispatchMatch ==
  ASSUME IInv, MatchInv, HandOver("request")
  PROVE  MatchInv'
<1> DEFINE m == taker["request"].msg
           w == Len(tasks["reply"]) + 1
<1>1. /\ Taking("request") # {} /\ taker["request"].at = "hand"
      /\ tasks' = [tasks EXCEPT !["reply"] = Append(@, m)]
      /\ UNCHANGED <<net, db, used, block, sem, thread, raced, waits, mismatch>>
  BY DEF HandOver, AddTask, segments
<1>2. m \in Messages
  BY <1>1 DEF IInv, QueueInv, CountInv, Queues
<1> HIDE DEF m
<1>3. /\ tasks["reply"] \in Seq(Messages)
      /\ tasks'["reply"] = Append(tasks["reply"], m)
      /\ tasks'["request"] = tasks["request"]
  BY <1>1 DEF IInv, TypeInv, Queues
<1>4. \A i \in DOMAIN tasks'["reply"] :
        \/ i = w /\ tasks'["reply"][i] = m
        \/ i \in DOMAIN tasks["reply"] /\ tasks'["reply"][i] = tasks["reply"][i]
  BY <1>2, <1>3
<1> HIDE DEF w
<1>5. \A p \in Queues : \A k, x :
        On(p, k, x)' =>
          \/ /\ p = "reply" /\ k = "task" /\ x = w
             /\ On("request", "hand", 0)
             /\ At(p, k, x)' = At("request", "hand", 0)
          \/ /\ ~(p = "request" /\ k = "hand")
             /\ On(p, k, x) /\ At(p, k, x)' = At(p, k, x)
  <2> SUFFICES
        ASSUME NEW p \in Queues, NEW k, NEW x, On(p, k, x)'
        PROVE  \/ /\ p = "reply" /\ k = "task" /\ x = w
                  /\ On("request", "hand", 0)
                  /\ At(p, k, x)' = At("request", "hand", 0)
               \/ /\ ~(p = "request" /\ k = "hand")
                  /\ On(p, k, x) /\ At(p, k, x)' = At(p, k, x)
    OBVIOUS
  <2>0. ~raced /\ net # {} /\ Taking(p) # {}
    BY <1>1 DEF On, Taking
  <2>1. CASE p = "reply" /\ k = "task"
    <3>1. On("request", "hand", 0) /\ At("request", "hand", 0) = m
      BY <1>1, <2>0 DEF On, At, m
    <3>2. x \in DOMAIN tasks'["reply"] /\ At(p, k, x)' = tasks'["reply"][x]
      BY <2>1 DEF On, At
    <3>3. CASE x = w /\ tasks'["reply"][x] = m
      BY <2>1, <3>1, <3>2, <3>3
    <3>4. CASE /\ x \in DOMAIN tasks["reply"]
               /\ tasks'["reply"][x] = tasks["reply"][x]
      BY <2>0, <2>1, <3>2, <3>4 DEF On, At
    <3> QED
      BY <1>4, <3>2, <3>3, <3>4
  <2>2. CASE p = "reply" /\ k # "task"
    <3>1. taker'["reply"] = taker["reply"]
      BY DEF HandOver, IInv, TypeInv
    <3> QED
      BY <1>1, <2>0, <2>2, <3>1 DEF On, At, Held
  <2>3. CASE p = "request"
    BY <1>3, <2>3, HandEmptied DEF Queues
  <2> QED
    BY <2>1, <2>2, <2>3 DEF Queues
<1>6. WaitedInv'
  BY <1>1, <1>5 DEF MatchInv, WaitedInv, Reads, Queues
<1>7. OnceInv'
  BY <1>5 DEF MatchInv, OnceInv, Reads, Queues
<1> QED
  BY <1>1, <1>6, <1>7 DEF MatchInv, MatchUnlessRaced

(* handler(): the reply in its hand is the one the client waits for, and   *)
(* nothing else on its way is for that client.                             *)
LEMMA AnswerMatch ==
  ASSUME IInv, MatchInv, HandOver("reply")
  PROVE  MatchInv'
<1> DEFINE m == taker["reply"].msg
<1>1. /\ net # {} /\ taker["reply"].at = "hand"
      /\ waits' = IF waits[m.client] = m.n
                    THEN [waits EXCEPT ![m.client] = 0] ELSE waits
      /\ mismatch' = (mismatch \/ (/\ m.client \notin Deaf
                                   /\ waits[m.client] # m.n))
      /\ UNCHANGED <<tasks, raced, net>>
  BY DEF HandOver, Taking
<1>2. CASE raced
  BY <1>1, <1>2, NothingOn DEF MatchInv, MatchUnlessRaced
<1>3. CASE ~raced
  <2>1. On("reply", "hand", 0) /\ At("reply", "hand", 0) = m
    BY <1>1, <1>3 DEF On, At, Taking
  <2> HIDE DEF m
  <2>2. Reads(m) => waits[m.client] = m.n
    BY <2>1 DEF MatchInv, WaitedInv, Queues
  <2>3. MatchUnlessRaced'
    BY <1>1, <2>2 DEF MatchInv, MatchUnlessRaced, Reads
  <2>4. \A p \in Queues : \A k, x :
          On(p, k, x)' =>
            /\ ~(p = "reply" /\ k = "hand" /\ x = 0)
            /\ On(p, k, x) /\ At(p, k, x)' = At(p, k, x)
    BY <1>1, HandEmptied DEF Queues
  <2>5. WaitedInv'
    <3> SUFFICES ASSUME NEW p \in Queues, NEW k, NEW x,
                        On(p, k, x)', Reads(At(p, k, x)')
                 PROVE  waits'[At(p, k, x)'.client] = At(p, k, x)'.n
      BY DEF WaitedInv, Reads
    <3>1. /\ On(p, k, x) /\ At(p, k, x)' = At(p, k, x)
          /\ ~(p = "reply" /\ k = "hand" /\ x = 0)
      BY <2>4
    <3>2. /\ At(p, k, x).client \in Clients
          /\ waits[At(p, k, x).client] = At(p, k, x).n
      BY <3>1, PacketsAreMessages DEF MatchInv, WaitedInv
    <3>3. At(p, k, x).client # m.client
      BY <2>1, <3>1 DEF MatchInv, OnceInv, Reads, Queues
    <3> QED
      BY <1>1, <3>1, <3>2, <3>3 DEF IInv, TypeInv
  <2>6. OnceInv'
    BY <2>4 DEF MatchInv, OnceInv, Reads
  <2> QED
    BY <2>3, <2>5, <2>6 DEF MatchInv
<1> QED
  BY <1>2, <1>3

(* The taker gives back the block it had handed over already.              *)
LEMMA StoreMatch ==
  ASSUME IInv, MatchInv, NEW q \in Queues, Store(q)
  PROVE  MatchInv'
<1>0. PICK n : n = taker[q].used
  OBVIOUS
<1>1. /\ taker[q].at = "store" /\ taker' = [taker EXCEPT ![q] = Waiting]
      /\ used' = [used EXCEPT ![q] = n - 1]
      /\ UNCHANGED <<net, db, block, sem, tasks, thread, waits, raced,
                     mismatch>>
  BY <1>0 DEF Store, clients, history
<1>2. MatchUnlessRaced'
  BY <1>1 DEF MatchInv, MatchUnlessRaced
<1>3. CASE raced \/ net = {}
  BY <1>1, <1>2, <1>3, NothingOn DEF MatchInv
<1>4. CASE ~raced /\ net # {}
  <2>1. /\ n = used[q] /\ Held(q) = 1 /\ used[q] \in Nat /\ sem[q] \in Nat
    <3>1. net \union db # {} /\ RaceInv(q)
      BY <1>4 DEF IInv, QueueInv
    <3> QED
      BY <1>0, <1>1, <1>4, <3>1 DEF RaceInv, Held, IInv, TypeInv
  <2>2. taker'[q] = Waiting /\ used'[q] = used[q] - 1
    BY <1>1, <2>1 DEF IInv, TypeInv
  <2>3. taker'[q].at = "wait" /\ Held(q)' = 0
    BY <2>2 DEF Waiting, Held
  <2>4. ASSUME NEW p \in Queues, NEW k, NEW x, On(p, k, x)'
        PROVE  On(p, k, x) /\ At(p, k, x)' = At(p, k, x)
    <3>0. ~raced /\ net # {} /\ Taking(p) # {}
      BY <1>1, <2>4 DEF On, Taking
    <3>1. CASE p # q
      <4>1. taker'[p] = taker[p] /\ used'[p] = used[p]
        BY <1>1, <3>1 DEF IInv, TypeInv
      <4> QED
        BY <1>1, <2>4, <3>1, <4>1, PlacesAside
    <3>2. CASE p = q /\ k \in {"task", "thread"}
      BY <1>1, <2>4, <3>0, <3>2 DEF On, At
    <3>3. CASE p = q /\ k = "block"
      <4>1. x \in (used[q] - 1 - sem[q] - 0 + 1) .. (used[q] - 1 - 0)
        BY <1>1, <2>2, <2>3, <2>4, <3>3 DEF On
      <4>2. x \in (used[q] - sem[q] - 1 + 1) .. (used[q] - 1)
        BY <2>1, <4>1
      <4> QED
        BY <1>1, <2>1, <3>0, <3>3, <4>2 DEF On, At
    <3>4. ~(p = q /\ k = "hand")
      BY <2>3, <2>4 DEF On
    <3>5. k \in {"task", "thread", "block", "hand"}
      BY <2>4 DEF On
    <3> QED
      BY <3>1, <3>2, <3>3, <3>4, <3>5
  <2> QED
    BY <1>1, <1>2, <2>4, NoPacketMoves DEF MatchInv
<1> QED
  BY <1>3, <1>4

(* A failed sem_p counts as an overlap.                                    *)
LEMMA TakeFailsMatch ==
  ASSUME MatchInv, NEW q \in Queues, TakeFails(q)
  PROVE  MatchInv'
<1>1. raced' /\ MatchUnlessRaced'
  BY DEF TakeFails, MatchUnlessRaced
<1> QED
  BY <1>1, NothingOn DEF MatchInv

-----------------------------------------------------------------------------
LEMMA NextMatch == IInv /\ MatchInv /\ [Next]_vars => MatchInv'
<1> SUFFICES ASSUME IInv, MatchInv, [Next]_vars PROVE MatchInv'
  OBVIOUS
<1>1. ASSUME NEW s \in Starts, Start(s) PROVE MatchInv'
  BY <1>1, ClearMatch, BindMatch, ServeMatch DEF Start, Queues
<1>2. ASSUME NEW c \in Clients, Ask(c) PROVE MatchInv'
  BY <1>2, AskMatch
<1>3. ASSUME NEW q \in Queues, Die(q) PROVE MatchInv'
  BY <1>3, DieMatch
<1>4. ASSUME NEW q \in Queues, PoolStep(q) PROVE MatchInv'
  BY <1>4, LoadMatch, PostMatch DEF PoolStep
<1>5. ASSUME NEW q \in Queues, TakerStep(q) PROVE MatchInv'
  BY <1>5, TakeMatch, DispatchMatch, AnswerMatch, StoreMatch
  DEF TakerStep, Queues
<1>6. ASSUME NEW q \in Queues, TakeFails(q) PROVE MatchInv'
  BY <1>6, TakeFailsMatch
<1>7. CASE UNCHANGED vars
  <2>1. UNCHANGED <<net, db, used, block, sem, tasks, thread, taker, waits,
                    raced, mismatch>>
    BY <1>7 DEF vars, segments, clients, history
  <2>2. \A p \in Queues : \A k, x :
          On(p, k, x)' => On(p, k, x) /\ At(p, k, x)' = At(p, k, x)
    BY <2>1, PlacesAside
  <2> QED
    BY <2>1, <2>2, NoPacketMoves DEF MatchInv, MatchUnlessRaced
<1> QED
  BY <1>1, <1>2, <1>3, <1>4, <1>5, <1>6, <1>7 DEF Next

(* Until actors overlap or a sem_p fails, handler() writes to a client     *)
(* that waits only the reply it waits for, although both segments give the *)
(* newest block first: a client that waits has one packet about, wherever  *)
(* it is.                                                                  *)
THEOREM MatchCorrect == Spec => []MatchUnlessRaced
<1>1. MatchInv => MatchUnlessRaced
  BY DEF MatchInv
<1> QED
  BY <1>1, InitMatch, NextMatch, Invariance, PTL DEF Spec

-----------------------------------------------------------------------------
(* None is lost: while nothing was dropped and nobody overlapped, what a   *)
(* client waits for is somewhere, and every step leaves it there or takes  *)
(* it to its next place.                                                   *)
Fine == ~Trouble /\ net # {}

In(p, m) == \E k, x : On(p, k, x) /\ At(p, k, x) = m

Somewhere(m) == \E p \in Queues : In(p, m)

NothingMoves == \A p \in Queues : \A m : In(p, m) => In(p, m)'

(* A step that leaves each packet in its queue, and each client waiting.   *)
Quiet ==
  /\ net' = net /\ waits' = waits
  /\ Fine' => Fine /\ NothingMoves

(* Clients of a network process that died have seen their connection end.  *)
SomewhereInv ==
  /\ net = {} => \A c \in Clients : waits[c] = 0
  /\ Fine => \A c \in Clients \ Deaf :
       waits[c] # 0 => \E m : Somewhere(m) /\ m.client = c

(* The queue a step leaves alone. *)
LEMMA StaysAside ==
  ASSUME NEW p \in Queues, ~raced', net' = net, db' = db,
         tasks'[p] = tasks[p], thread'[p] = thread[p], block'[p] = block[p],
         used'[p] = used[p], sem'[p] = sem[p], taker'[p] = taker[p]
  PROVE  \A k, x : On(p, k, x) => On(p, k, x)' /\ At(p, k, x)' = At(p, k, x)
BY DEF On, At, Held, Taking

(* Whatever was somewhere still is, and nobody waits for anything new.     *)
LEMMA QuietSomewhere ==
  ASSUME SomewhereInv, net' = net, waits' = waits,
         Fine' => Fine /\ \A m : Somewhere(m) => Somewhere(m)'
  PROVE  SomewhereInv'
<1>1. net' = {} => \A c \in Clients : waits'[c] = 0
  BY DEF SomewhereInv
<1>2. ASSUME Fine', NEW c \in Clients \ Deaf, waits'[c] # 0
      PROVE  \E m : Somewhere(m)' /\ m.client = c
  <2>1. PICK m : Somewhere(m) /\ m.client = c
    BY <1>2 DEF SomewhereInv
  <2>2. Somewhere(m)'
    BY <1>2, <2>1
  <2> QED
    BY <2>1, <2>2
<1> QED
  BY <1>1, <1>2 DEF SomewhereInv

LEMMA QuietLeaves ==
  ASSUME Quiet, SomewhereInv
  PROVE  SomewhereInv'
<1>1. NothingMoves => \A m : Somewhere(m) => Somewhere(m)'
  BY DEF NothingMoves, Somewhere
<1> QED
  BY <1>1, QuietSomewhere DEF Quiet

LEMMA InitSomewhere == Init => SomewhereInv
BY DEF Init, SomewhereInv, Fine

LEMMA ClearSomewhere ==
  ASSUME SomewhereInv, NEW s \in Starts, NEW q \in Queues, NEW from, NEW to,
         Clear(s, q, from, to)
  PROVE  SomewhereInv'
BY DEF Clear, clients, SomewhereInv, Fine, Trouble

LEMMA ServeSomewhere ==
  ASSUME IInv, SomewhereInv, NEW s \in Starts, Serve(s)
  PROVE  SomewhereInv'
<1>1. net = {} /\ waits' = waits
  BY DEF Serve, clients, IInv, PortInv
<1> QED
  BY <1>1 DEF SomewhereInv

LEMMA DieSomewhere ==
  ASSUME IInv, SomewhereInv, NEW q \in Queues, Die(q)
  PROVE  SomewhereInv'
<1>1. CASE q = "request"
  BY <1>1 DEF Die, SomewhereInv, Fine
<1>2. CASE q = "reply"
  BY <1>2 DEF Die, SomewhereInv, Fine, Trouble
<1> QED
  BY <1>1, <1>2 DEF Queues

LEMMA AskMoves ==
  ASSUME IInv, NEW c \in Clients, Ask(c), Fine'
  PROVE  /\ Fine /\ NothingMoves
         /\ \E m : In("request", m)' /\ m.client = c
<1>1. PICK s \in net :
        tasks' = [tasks EXCEPT !["request"] =
                    Append(@, [client |-> c, n |-> asked', by |-> s])]
  BY DEF Ask, AddTask
<1>2. /\ asked < MaxRequests /\ asked' = asked + 1
      /\ waits' = IF c \in Deaf THEN waits ELSE [waits EXCEPT ![c] = asked']
      /\ UNCHANGED <<net, db, used, block, sem, thread, taker, raced, dropped>>
  BY DEF Ask, AddTask, segments, history
<1>3. PICK m : m = [client |-> c, n |-> asked', by |-> s]
  OBVIOUS
<1>4. m \in Messages /\ m.client = c
  <2>1. asked \in 0 .. MaxRequests /\ s \in Starts
    BY <1>1 DEF IInv, TypeInv
  <2>2. asked' \in 1 .. MaxRequests
    BY <1>2, <2>1
  <2> QED
    BY <1>3, <2>1, <2>2 DEF Messages
<1>5. /\ tasks["request"] \in Seq(Messages)
      /\ tasks'["request"] = Append(tasks["request"], m)
      /\ tasks'["reply"] = tasks["reply"]
  BY <1>1, <1>3 DEF IInv, TypeInv, Queues
<1>6. PICK w : w = Len(tasks["request"]) + 1
  OBVIOUS
<1>7. /\ w \in DOMAIN tasks'["request"] /\ tasks'["request"][w] = m
      /\ \A i \in DOMAIN tasks["request"] :
           /\ i \in DOMAIN tasks'["request"]
           /\ tasks'["request"][i] = tasks["request"][i]
  BY <1>4, <1>5, <1>6
<1>8. ~raced' /\ net' # {} /\ db' # {} /\ Fine
  BY <1>2 DEF Fine, Trouble
<1>9. In("request", m)'
  <2>1. On("request", "task", w)' /\ At("request", "task", w)' = m
    BY <1>7, <1>8 DEF On, At, Taking
  <2> QED
    BY <2>1 DEF In
<1>10. ASSUME NEW p \in Queues, NEW l, In(p, l) PROVE In(p, l)'
  <2>1. PICK k, x : On(p, k, x) /\ At(p, k, x) = l
    BY <1>10 DEF In
  <2>2. On(p, k, x)' /\ At(p, k, x)' = l
    <3>1. CASE p = "request" /\ k = "task"
      BY <1>7, <1>8, <2>1, <3>1 DEF On, At, Taking
    <3>2. CASE p = "request" /\ k # "task"
      BY <1>2, <1>8, <2>1, <3>2 DEF On, At, Taking, Held
    <3>3. CASE p = "reply"
      BY <1>2, <1>5, <1>8, <2>1, <3>3, StaysAside
    <3> QED
      BY <3>1, <3>2, <3>3 DEF Queues
  <2> QED
    BY <2>2 DEF In
<1> QED
  BY <1>4, <1>8, <1>9, <1>10 DEF NothingMoves

LEMMA AskSomewhere ==
  ASSUME IInv, SomewhereInv, NEW c \in Clients, Ask(c)
  PROVE  SomewhereInv'
<1>1. net' # {}
  BY DEF Ask, segments
<1>2. ASSUME Fine', NEW d \in Clients \ Deaf, waits'[d] # 0
      PROVE  \E l : Somewhere(l)' /\ l.client = d
  <2>1. CASE d = c
    BY <1>2, <2>1, AskMoves DEF Somewhere, Queues
  <2>2. CASE d # c
    <3>1. waits[d] # 0
      BY <1>2, <2>2 DEF Ask, IInv, TypeInv
    <3>2. PICK l : Somewhere(l) /\ l.client = d
      BY <1>2, <3>1, AskMoves DEF SomewhereInv
    <3> QED
      BY <1>2, <3>2, AskMoves DEF Somewhere, NothingMoves
  <2> QED
    BY <2>1, <2>2
<1> QED
  BY <1>1, <1>2 DEF SomewhereInv

LEMMA TailHasTheRest ==
  ASSUME NEW S, NEW s \in Seq(S), s # <<>>, NEW i \in DOMAIN s, i # 1
  PROVE  i - 1 \in DOMAIN Tail(s) /\ Tail(s)[i-1] = s[i]
<1>1. i \in 2 .. Len(s) /\ Len(s) \in Nat
  OBVIOUS
<1>2. Len(Tail(s)) = Len(s) - 1 /\ DOMAIN Tail(s) = 1 .. Len(s) - 1
  BY <1>1
<1>3. i - 1 \in 1 .. Len(s) - 1 /\ (i - 1) + 1 = i
  BY <1>1
<1> QED
  BY <1>2, <1>3

LEMMA LoadStays ==
  ASSUME IInv, NEW q \in Queues, NEW t \in Pool(q), Load(q, t), Fine',
         NEW p \in Queues, NEW m, In(p, m)
  PROVE  In(p, m)'
<1>1. PICK k, x : On(p, k, x) /\ At(p, k, x) = m
  BY DEF In
<1>2. /\ tasks[q] # <<>> /\ tasks' = [tasks EXCEPT ![q] = Tail(@)]
      /\ thread[q][t].at = "idle"
      /\ UNCHANGED <<net, db, used, block, sem, taker>>
  BY DEF Load, segments
<1>3. ~raced' /\ ~raced /\ ~dropped' /\ net' # {} /\ Taking(p)' # {}
  BY <1>1, <1>2 DEF On, Fine, Trouble, Taking
<1>4. thread' = [thread EXCEPT ![q][t] = [at |-> "loaded",
                                          msg |-> Head(tasks[q]),
                                          used |-> used[q] + 1]]
  BY <1>3 DEF Load
<1>5. /\ tasks[q] \in Seq(Messages) /\ tasks'[q] = Tail(tasks[q])
      /\ thread'[q][t].at = "loaded" /\ thread'[q][t].msg = tasks[q][1]
      /\ \A u \in Pool(q) : u # t => thread'[q][u] = thread[q][u]
  BY <1>2, <1>4 DEF IInv, TypeInv, QueueInv, CountInv
<1>6. CASE p # q
  <2>1. tasks'[p] = tasks[p] /\ thread'[p] = thread[p]
    BY <1>2, <1>4, <1>6 DEF IInv, TypeInv
  <2>2. On(p, k, x)' /\ At(p, k, x)' = m
    BY <1>1, <1>2, <1>3, <2>1, StaysAside
  <2> QED
    BY <2>2 DEF In
<1>7. CASE p = q /\ k = "task" /\ x = 1
  <2>1. On(q, "thread", t)' /\ At(q, "thread", t)' = m
    BY <1>1, <1>3, <1>5, <1>7 DEF On, At
  <2> QED
    BY <1>7, <2>1 DEF In
<1>8. CASE p = q /\ k = "task" /\ x # 1
  <2>1. x \in DOMAIN tasks[q] /\ tasks[q][x] = m
    BY <1>1, <1>8 DEF On, At
  <2>2. x - 1 \in DOMAIN tasks'[q] /\ tasks'[q][x - 1] = m
    <3>1. PICK s \in Seq(Messages) : s = tasks[q]
      BY <1>5
    <3>2. s # <<>> /\ x \in DOMAIN s /\ x # 1
      BY <1>2, <1>8, <2>1, <3>1
    <3>3. x - 1 \in DOMAIN Tail(s) /\ Tail(s)[x - 1] = s[x]
      BY <3>2, TailHasTheRest
    <3> QED
      BY <1>5, <2>1, <3>1, <3>3
  <2>3. On(q, k, x - 1)' /\ At(q, k, x - 1)' = m
    BY <1>3, <1>8, <2>2 DEF On, At
  <2> QED
    BY <1>8, <2>3 DEF In
<1>9. CASE p = q /\ k # "task"
  <2>1. k = "thread" => thread'[q][x] = thread[q][x]
    BY <1>1, <1>2, <1>5, <1>9 DEF On
  <2>2. On(p, k, x)' /\ At(p, k, x)' = m
    BY <1>1, <1>2, <1>3, <1>9, <2>1 DEF On, At, Held
  <2> QED
    BY <1>9, <2>2 DEF In
<1> QED
  BY <1>6, <1>7, <1>8, <1>9

LEMMA PostStays ==
  ASSUME IInv, NEW q \in Queues, NEW t \in Pool(q), Post(q, t), Fine',
         NEW p \in Queues, NEW m, In(p, m)
  PROVE  In(p, m)'
<1>1. PICK k, x : On(p, k, x) /\ At(p, k, x) = m
  BY DEF In
<1>2. PICK n, l : n = thread[q][t].used /\ l = thread[q][t].msg
  OBVIOUS
<1>3. /\ thread[q][t].at = "loaded"
      /\ thread' = [thread EXCEPT ![q][t] = Idle]
      /\ block' = [block EXCEPT ![q][n] = l]
      /\ used' = [used EXCEPT ![q] = n]
      /\ sem' = [sem EXCEPT ![q] = @ + 1]
      /\ UNCHANGED <<net, db, tasks, taker, raced>>
  BY <1>2 DEF Post, clients, history
<1>4. ~raced' /\ ~raced /\ net # {} /\ net' # {} /\ Taking(p)' # {}
  BY <1>1, <1>3 DEF On, Taking
<1>5. QueueTypes(q) /\ CountInv(q) /\ RaceInv(q)
  BY Types DEF IInv, QueueInv
<1>6. /\ \A u \in Pool(q) : u # t => thread'[q][u] = thread[q][u]
      /\ \A i : i \in 1 .. Cap(q) /\ i # n => block'[q][i] = block[q][i]
      /\ n \in 1 .. Cap(q) => block'[q][n] = l
      /\ used'[q] = n /\ sem'[q] = sem[q] + 1
      /\ used[q] \in Nat /\ sem[q] \in Nat
  BY <1>3, <1>5 DEF IInv, TypeInv, CountInv, Idle
<1>7. /\ taker[q].at = "wait" /\ n = used[q] + 1 /\ sem[q] <= used[q]
      /\ n \in 1 .. Cap(q)
  <2>1. ~raced /\ net \union db # {}
    BY <1>4
  <2>2. taker[q].at = "wait" /\ n = used[q] + 1
    BY <1>2, <1>3, <1>5, <2>1 DEF RaceInv
  <2>3. sem[q] + 0 <= used[q]
    BY <1>5, <2>1, <2>2 DEF RaceInv, Held
  <2>4. n \in 1 .. Cap(q)
    BY <1>2, <1>3, <1>5 DEF CountInv
  <2> QED
    BY <1>6, <2>2, <2>3, <2>4
<1>8. Held(q) = 0 /\ Held(q)' = 0
  BY <1>3, <1>7 DEF Held
<1>9. CASE p # q
  <2>1. /\ thread'[p] = thread[p] /\ block'[p] = block[p]
        /\ used'[p] = used[p] /\ sem'[p] = sem[p]
    BY <1>3, <1>9 DEF IInv, TypeInv
  <2>2. On(p, k, x)' /\ At(p, k, x)' = m
    BY <1>1, <1>3, <1>4, <2>1, StaysAside
  <2> QED
    BY <2>2 DEF In
<1>10. CASE p = q /\ k \in {"task", "hand"}
  <2>1. On(p, k, x)' /\ At(p, k, x)' = m
    BY <1>1, <1>3, <1>4, <1>10 DEF On, At
  <2> QED
    BY <1>10, <2>1 DEF In
<1>11. CASE p = q /\ k = "thread" /\ x = t
  <2>1. l = m
    BY <1>1, <1>2, <1>11 DEF At
  <2>2. n \in (n - (sem[q] + 1) - 0 + 1) .. (n - 0)
    BY <1>6, <1>7
  <2>3. On(q, "block", n)' /\ At(q, "block", n)' = m
    BY <1>4, <1>6, <1>7, <1>8, <1>11, <2>1, <2>2 DEF On, At
  <2> QED
    BY <1>11, <2>3 DEF In
<1>12. CASE p = q /\ k = "thread" /\ x # t
  <2>1. On(p, k, x)' /\ At(p, k, x)' = m
    BY <1>1, <1>4, <1>6, <1>12 DEF On, At
  <2> QED
    BY <1>12, <2>1 DEF In
<1>13. CASE p = q /\ k = "block"
  <2>1. x \in (used[q] - sem[q] - 0 + 1) .. (used[q] - 0)
    BY <1>1, <1>8, <1>13 DEF On
  <2>2. /\ x # n /\ x \in 1 .. n
        /\ x \in (n - (sem[q] + 1) - 0 + 1) .. (n - 0)
    BY <1>6, <1>7, <2>1
  <2>3. x \in 1 .. Cap(q)
    BY <1>7, <2>2, CapIsNat
  <2>4. On(p, k, x)' /\ At(p, k, x)' = m
    BY <1>1, <1>4, <1>6, <1>8, <1>13, <2>2, <2>3 DEF On, At
  <2> QED
    BY <1>13, <2>4 DEF In
<1>14. k \in {"task", "thread", "block", "hand"}
  BY <1>1 DEF On
<1> QED
  BY <1>9, <1>10, <1>11, <1>12, <1>13, <1>14

LEMMA TakeStays ==
  ASSUME IInv, NEW q \in Queues, Take(q), Fine',
         NEW p \in Queues, NEW m, In(p, m)
  PROVE  In(p, m)'
<1>1. PICK k, x : On(p, k, x) /\ At(p, k, x) = m
  BY DEF In
<1>2. PICK n : n = used[q]
  OBVIOUS
<1> DEFINE hand == [at |-> "hand", msg |-> block[q][n], used |-> n]
<1>3. /\ taker[q].at = "wait" /\ sem[q] > 0
      /\ sem' = [sem EXCEPT ![q] = @ - 1]
      /\ UNCHANGED <<net, db, used, block, tasks, thread>>
      /\ n \in 1 .. Cap(q) => taker' = [taker EXCEPT ![q] = hand]
  BY <1>2 DEF Take, Copy, Copied
<1>4. ~raced' /\ ~raced /\ net # {} /\ net' # {} /\ Taking(p)' # {}
  BY <1>1, <1>3 DEF On, Taking, Fine, Trouble
<1>5. QueueTypes(q) /\ CountInv(q) /\ RaceInv(q)
  BY Types DEF IInv, QueueInv
<1>6. /\ sem'[q] = sem[q] - 1 /\ used[q] \in Nat /\ sem[q] \in Nat
      /\ used[q] <= Cap(q)
  BY <1>3, <1>5 DEF IInv, TypeInv, CountInv
<1>7. Held(q) = 0 /\ n \in 1 .. Cap(q)
  BY <1>2, <1>3, <1>4, <1>5, <1>6, CapIsNat DEF RaceInv, Held
<1>8. taker'[q] = hand /\ taker' = [taker EXCEPT ![q] = hand]
  BY <1>3, <1>7 DEF IInv, TypeInv
<1>9. Held(q)' = 1
  BY <1>8 DEF Held
<1>10. CASE p # q
  <2>1. taker'[p] = taker[p] /\ sem'[p] = sem[p]
    BY <1>3, <1>8, <1>10 DEF IInv, TypeInv
  <2>2. On(p, k, x)' /\ At(p, k, x)' = m
    BY <1>1, <1>3, <1>4, <2>1, StaysAside
  <2> QED
    BY <2>2 DEF In
<1>11. CASE p = q /\ k \in {"task", "thread"}
  <2>1. On(p, k, x)' /\ At(p, k, x)' = m
    BY <1>1, <1>3, <1>4, <1>11 DEF On, At
  <2> QED
    BY <1>11, <2>1 DEF In
<1>12. CASE p = q /\ k = "block" /\ x = n
  <2>1. block[q][n] = m
    BY <1>1, <1>12 DEF At
  <2>2. On(q, "hand", 0)' /\ At(q, "hand", 0)' = m
    BY <1>4, <1>8, <1>12, <2>1 DEF On, At
  <2> QED
    BY <1>12, <2>2 DEF In
<1>13. CASE p = q /\ k = "block" /\ x # n
  <2>1. x \in (n - sem[q] - 0 + 1) .. (n - 0)
    BY <1>1, <1>2, <1>7, <1>13 DEF On
  <2>2. x \in (n - (sem[q] - 1) - 1 + 1) .. (n - 1)
    BY <1>2, <1>6, <1>13, <2>1
  <2>3. On(p, k, x)' /\ At(p, k, x)' = m
    BY <1>1, <1>2, <1>3, <1>4, <1>6, <1>9, <1>13, <2>2 DEF On, At
  <2> QED
    BY <1>13, <2>3 DEF In
<1>14. ~(p = q /\ k = "hand") /\ k \in {"task", "thread", "block", "hand"}
  BY <1>1, <1>3 DEF On
<1> QED
  BY <1>10, <1>11, <1>12, <1>13, <1>14

(* The hand-over takes only the packet in the hand from its place.         *)
LEMMA OthersStay ==
  ASSUME IInv, NEW q \in Queues, HandOver(q), Fine',
         NEW p \in Queues, NEW k, NEW x, On(p, k, x), ~(p = q /\ k = "hand"),
         ~(k = "task" /\ p = "reply")
  PROVE  On(p, k, x)' /\ At(p, k, x)' = At(p, k, x)
<1>1. /\ taker[q].at = "hand" /\ taker' = [taker EXCEPT ![q].at = "store"]
      /\ tasks'["request"] = tasks["request"]
      /\ UNCHANGED <<net, db, used, block, sem, thread, raced>>
  BY DEF HandOver, AddTask, segments, IInv, TypeInv, Queues
<1>2. ~raced' /\ net' # {} /\ Taking(p)' # {}
  BY <1>1 DEF On, Taking
<1>3. taker'[q].at = "store" /\ \A r \in Queues : r # q => taker'[r] = taker[r]
  BY <1>1 DEF IInv, TypeInv
<1>4. Held(p)' = Held(p)
  BY <1>1, <1>3 DEF Held
<1>5. k = "hand" => taker'[p] = taker[p]
  BY <1>3
<1>6. k = "task" => tasks'[p] = tasks[p]
  BY <1>1 DEF Queues
<1> QED
  BY <1>1, <1>2, <1>4, <1>5, <1>6 DEF On, At

LEMMA DispatchMoves ==
  ASSUME IInv, HandOver("request"), Fine', NEW l, l = taker["request"].msg
  PROVE  /\ In("reply", l)'
         /\ \A p \in Queues : \A m : In(p, m) /\ m # l => In(p, m)'
<1>1. /\ taker["request"].at = "hand" /\ l \in Messages
      /\ tasks' = [tasks EXCEPT !["reply"] = Append(@, l)]
      /\ UNCHANGED <<net, db, raced>>
  BY DEF HandOver, AddTask, IInv, QueueInv, CountInv, Queues
<1>2. /\ ~raced' /\ net' # {} /\ db' # {}
  BY <1>1 DEF Fine, Trouble
<1>3. PICK w : w = Len(tasks["reply"]) + 1
  OBVIOUS
<1>4. /\ tasks["reply"] \in Seq(Messages)
      /\ tasks'["reply"] = Append(tasks["reply"], l)
  BY <1>1 DEF IInv, TypeInv, Queues
<1>5. /\ w \in DOMAIN tasks'["reply"] /\ tasks'["reply"][w] = l
      /\ \A i \in DOMAIN tasks["reply"] :
           /\ i \in DOMAIN tasks'["reply"]
           /\ tasks'["reply"][i] = tasks["reply"][i]
  BY <1>1, <1>3, <1>4
<1>6. In("reply", l)'
  <2>1. On("reply", "task", w)' /\ At("reply", "task", w)' = l
    BY <1>2, <1>5 DEF On, At, Taking
  <2> QED
    BY <2>1 DEF In
<1>7. ASSUME NEW p \in Queues, NEW m, In(p, m), m # l PROVE In(p, m)'
  <2>1. PICK k, x : On(p, k, x) /\ At(p, k, x) = m
    BY <1>7 DEF In
  <2>2. ~(p = "request" /\ k = "hand")
    BY <1>7, <2>1 DEF At
  <2>3. CASE p = "reply" /\ k = "task"
    <3>1. On(p, k, x)' /\ At(p, k, x)' = m
      BY <1>2, <1>5, <2>1, <2>3 DEF On, At, Taking
    <3> QED
      BY <3>1 DEF In
  <2>4. CASE ~(p = "reply" /\ k = "task")
    <3>1. On(p, k, x)' /\ At(p, k, x)' = m
      BY <2>1, <2>2, <2>4, OthersStay DEF Queues
    <3> QED
      BY <3>1 DEF In
  <2> QED
    BY <2>3, <2>4
<1> QED
  BY <1>6, <1>7

LEMMA DispatchSomewhere ==
  ASSUME IInv, SomewhereInv, HandOver("request")
  PROVE  SomewhereInv'
<1>1. net' = net /\ waits' = waits /\ (Fine' => Fine)
  BY DEF HandOver, Fine, Trouble
<1>2. ASSUME Fine', NEW m, Somewhere(m) PROVE Somewhere(m)'
  <2>1. PICK l : l = taker["request"].msg
    OBVIOUS
  <2> QED
    BY <1>2, <2>1, DispatchMoves DEF Somewhere, Queues
<1> QED
  BY <1>1, <1>2, QuietSomewhere

(* handler() takes the reply from its hand, and its client has it.         *)
LEMMA AnswerMoves ==
  ASSUME IInv, HandOver("reply"), Fine', NEW l, l = taker["reply"].msg
  PROVE  \A p \in Queues : \A m : In(p, m) /\ m # l => In(p, m)'
<1>1. ASSUME NEW p \in Queues, NEW m, In(p, m), m # l PROVE In(p, m)'
  <2>1. PICK k, x : On(p, k, x) /\ At(p, k, x) = m
    BY <1>1 DEF In
  <2>2. ~(p = "reply" /\ k = "hand")
    BY <1>1, <2>1 DEF At
  <2>3. On(p, k, x)' /\ At(p, k, x)' = m
    <3>1. CASE k = "task" /\ p = "reply"
      BY <2>1, <3>1 DEF HandOver, On, At, Taking
    <3>2. CASE ~(k = "task" /\ p = "reply")
      BY <2>1, <2>2, <3>2, OthersStay DEF Queues
    <3> QED
      BY <3>1, <3>2
  <2> QED
    BY <2>3 DEF In
<1> QED
  BY <1>1

(* Whom handler() writes to waits for the reply in its hand.               *)
LEMMA InHand ==
  ASSUME IInv, MatchInv, NEW q \in Queues, HandOver(q), Fine
  PROVE  /\ taker[q].msg \in Messages /\ In(q, taker[q].msg)
         /\ Reads(taker[q].msg) =>
              waits[taker[q].msg.client] = taker[q].msg.n
<1>1. PICK l : l = taker[q].msg
  OBVIOUS
<1>2. taker[q].at = "hand" /\ l \in Messages
  BY <1>1 DEF HandOver, IInv, QueueInv, CountInv
<1>3. On(q, "hand", 0) /\ At(q, "hand", 0) = l
  BY <1>1, <1>2 DEF On, At, Taking, Fine, Trouble
<1>4. Reads(l) => waits[l.client] = l.n
  BY <1>3 DEF MatchInv, WaitedInv
<1>5. In(q, l)
  BY <1>3 DEF In
<1> QED
  BY <1>1, <1>2, <1>4, <1>5

LEMMA AnswerSomewhere ==
  ASSUME IInv, MatchInv, SomewhereInv, HandOver("reply")
  PROVE  SomewhereInv'
<1>1. PICK l : l = taker["reply"].msg
  OBVIOUS
<1>2. /\ net' # {} /\ (Fine' => Fine)
      /\ waits' = IF waits[l.client] = l.n
                    THEN [waits EXCEPT ![l.client] = 0] ELSE waits
  BY <1>1 DEF HandOver, Taking, Fine, Trouble
<1>3. ASSUME Fine', NEW c \in Clients \ Deaf, waits'[c] # 0
      PROVE  \E m : Somewhere(m)' /\ m.client = c
  <2>1. Reads(l) => waits[l.client] = l.n
    BY <1>1, <1>2, <1>3, InHand DEF Queues
  <2>2. l.client # c /\ waits[c] # 0
    BY <1>2, <1>3, <2>1 DEF IInv, TypeInv, Reads
  <2>3. PICK m : Somewhere(m) /\ m.client = c
    BY <1>2, <1>3, <2>2 DEF SomewhereInv
  <2>4. Somewhere(m)'
    BY <1>1, <1>3, <2>2, <2>3, AnswerMoves DEF Somewhere
  <2> QED
    BY <2>3, <2>4
<1> QED
  BY <1>2, <1>3 DEF SomewhereInv

LEMMA StoreStays ==
  ASSUME IInv, NEW q \in Queues, Store(q), Fine',
         NEW p \in Queues, NEW m, In(p, m)
  PROVE  In(p, m)'
<1>1. PICK k, x : On(p, k, x) /\ At(p, k, x) = m
  BY DEF In
<1>2. PICK n : n = taker[q].used
  OBVIOUS
<1>3. /\ taker[q].at = "store" /\ taker' = [taker EXCEPT ![q] = Waiting]
      /\ used' = [used EXCEPT ![q] = n - 1]
      /\ UNCHANGED <<net, db, block, sem, tasks, thread, raced>>
  BY <1>2 DEF Store, clients, history
<1>4. ~raced' /\ ~raced /\ net # {} /\ net' # {} /\ Taking(p)' # {}
  BY <1>1, <1>3 DEF On, Taking
<1>5. n = used[q] /\ Held(q) = 1 /\ used[q] \in Nat /\ sem[q] \in Nat
  <2>1. net \union db # {} /\ RaceInv(q)
    BY <1>4 DEF IInv, QueueInv
  <2> QED
    BY <1>2, <1>3, <1>4, <2>1 DEF RaceInv, Held, IInv, TypeInv
<1>6. taker'[q] = Waiting /\ used'[q] = used[q] - 1
  BY <1>3, <1>5 DEF IInv, TypeInv
<1>7. taker'[q].at = "wait" /\ Held(q)' = 0
  BY <1>6 DEF Waiting, Held
<1>8. CASE p # q
  <2>1. taker'[p] = taker[p] /\ used'[p] = used[p]
    BY <1>3, <1>8 DEF IInv, TypeInv
  <2> QED
    BY <1>1, <1>3, <1>4, <2>1, StaysAside DEF In
<1>9. CASE p = q /\ k \in {"task", "thread"}
  <2>1. On(p, k, x)' /\ At(p, k, x)' = m
    BY <1>1, <1>3, <1>4, <1>9 DEF On, At
  <2> QED
    BY <1>9, <2>1 DEF In
<1>10. CASE p = q /\ k = "block"
  <2>1. x \in (used[q] - sem[q] - 1 + 1) .. (used[q] - 1)
    BY <1>1, <1>5, <1>10 DEF On
  <2>2. x \in (used[q] - 1 - sem[q] - 0 + 1) .. (used[q] - 1 - 0)
    BY <1>5, <2>1
  <2>3. On(p, k, x)' /\ At(p, k, x)' = m
    BY <1>1, <1>3, <1>4, <1>6, <1>7, <1>10, <2>2 DEF On, At
  <2> QED
    BY <1>10, <2>3 DEF In
<1>11. ~(p = q /\ k = "hand") /\ k \in {"task", "thread", "block", "hand"}
  BY <1>1, <1>3 DEF On
<1> QED
  BY <1>8, <1>9, <1>10, <1>11

(* Most steps are quiet.                                                   *)
LEMMA UnmovedQuiet ==
  ASSUME UNCHANGED <<net, db, used, block, sem, tasks, thread, taker, waits,
                     raced, dropped>>
  PROVE  Quiet
<1>1. Fine' => Fine
  BY DEF Fine, Trouble
<1>2. ASSUME Fine', NEW p \in Queues, NEW m, In(p, m) PROVE In(p, m)'
  BY <1>2, StaysAside DEF In, Fine, Trouble
<1> QED
  BY <1>1, <1>2 DEF Quiet, NothingMoves

LEMMA PoolQuiet ==
  ASSUME IInv, NEW q \in Queues, PoolStep(q)
  PROVE  Quiet
<1>1. ASSUME NEW t \in Pool(q), Load(q, t) PROVE Quiet
  <2>1. net' = net /\ waits' = waits /\ (Fine' => Fine)
    <3>1. /\ net' = net /\ db' = db /\ waits' = waits
      BY <1>1 DEF Load, clients
    <3>2. raced => raced'
      BY <1>1 DEF Load
    <3>3. dropped => dropped'
      BY <1>1 DEF Load
    <3> QED
      BY <3>1, <3>2, <3>3 DEF Fine, Trouble
  <2>2. Fine' => NothingMoves
    BY <1>1, LoadStays DEF NothingMoves
  <2> QED
    BY <2>1, <2>2 DEF Quiet
<1>2. ASSUME NEW t \in Pool(q), Post(q, t) PROVE Quiet
  <2>1. net' = net /\ waits' = waits /\ (Fine' => Fine)
    BY <1>2 DEF Post, clients, history, Fine, Trouble
  <2>2. Fine' => NothingMoves
    BY <1>2, PostStays DEF NothingMoves
  <2> QED
    BY <2>1, <2>2 DEF Quiet
<1> QED
  BY <1>1, <1>2 DEF PoolStep

LEMMA TakerQuiet ==
  ASSUME IInv, NEW q \in Queues, Take(q) \/ Store(q)
  PROVE  Quiet
<1>1. CASE Take(q)
  <2>1. net' = net /\ waits' = waits /\ (Fine' => Fine)
    BY <1>1 DEF Take, clients, Fine, Trouble
  <2>2. Fine' => NothingMoves
    BY <1>1, TakeStays DEF NothingMoves
  <2> QED
    BY <2>1, <2>2 DEF Quiet
<1>2. CASE Store(q)
  <2>1. net' = net /\ waits' = waits /\ (Fine' => Fine)
    BY <1>2 DEF Store, clients, history, Fine, Trouble
  <2>2. Fine' => NothingMoves
    BY <1>2, StoreStays DEF NothingMoves
  <2> QED
    BY <2>1, <2>2 DEF Quiet
<1> QED
  BY <1>1, <1>2

LEMMA BindQuiet == ASSUME NEW s \in Starts, Bind(s) PROVE Quiet
<1>1. UNCHANGED <<net, db, used, block, sem, tasks, thread, taker, waits,
                  raced, dropped>>
  BY DEF Bind, segments, clients, history
<1> QED
  BY <1>1, UnmovedQuiet

LEMMA StutterQuiet == ASSUME UNCHANGED vars PROVE Quiet
<1>1. UNCHANGED <<net, db, used, block, sem, tasks, thread, taker, waits,
                  raced, dropped>>
  BY DEF vars, segments, clients, history
<1> QED
  BY <1>1, UnmovedQuiet

LEMMA TakeFailsQuiet ==
  ASSUME NEW q \in Queues, TakeFails(q)
  PROVE  Quiet /\ ~Fine' /\ UNCHANGED <<asked, waits>>
BY DEF TakeFails, clients, Quiet, Fine, Trouble

LEMMA NextSomewhere ==
  ASSUME IInv, MatchInv, SomewhereInv, [Next]_vars
  PROVE  SomewhereInv'
<1>1. ASSUME NEW s \in Starts, Start(s) PROVE SomewhereInv'
  BY <1>1, ClearSomewhere, ServeSomewhere, BindQuiet, QuietLeaves
  DEF Start, Queues
<1>2. ASSUME NEW c \in Clients, Ask(c) PROVE SomewhereInv'
  BY <1>2, AskSomewhere
<1>3. ASSUME NEW q \in Queues, Die(q) PROVE SomewhereInv'
  BY <1>3, DieSomewhere
<1>4. ASSUME NEW q \in Queues, PoolStep(q) PROVE SomewhereInv'
  BY <1>4, PoolQuiet, QuietLeaves
<1>5. ASSUME NEW q \in Queues, TakerStep(q) PROVE SomewhereInv'
  BY <1>5, TakerQuiet, QuietLeaves, DispatchSomewhere, AnswerSomewhere
  DEF TakerStep, Queues
<1>6. ASSUME NEW q \in Queues, TakeFails(q) PROVE SomewhereInv'
  BY <1>6, TakeFailsQuiet, QuietLeaves
<1>7. CASE UNCHANGED vars
  BY <1>7, StutterQuiet, QuietLeaves
<1> QED
  BY <1>1, <1>2, <1>3, <1>4, <1>5, <1>6, <1>7 DEF Next

(* OnTheWay lists the places of On, with their packets.                    *)
LEMMA OnTheWayIs ==
  ASSUME IInv, Fine, NEW q \in Queues, NEW p
  PROVE  p \in OnTheWay(q) <=>
           \E k, x : On(q, k, x) /\ p = <<q, k, x, At(q, k, x)>>
<1>1. ~raced /\ net # {} /\ Taking(q) # {}
  BY DEF Fine, Trouble, Taking
<1>2. used[q] \in Nat /\ sem[q] \in Nat /\ Held(q) \in {0, 1}
  BY DEF IInv, TypeInv, Held
<1>3. Kept(q) - sem[q] + 1 .. Kept(q) =
        (used[q] - sem[q] - Held(q) + 1) .. (used[q] - Held(q))
  <2>1. Kept(q) = used[q] - Held(q)
    BY DEF Kept, Held
  <2>2. ASSUME NEW a \in Nat, NEW b \in Nat, NEW h \in {0, 1}
        PROVE  a - h - b + 1 = a - b - h + 1
    OBVIOUS
  <2> QED
    BY <1>2, <2>1, <2>2
<1>4. ASSUME p \in OnTheWay(q)
      PROVE  \E k, x : On(q, k, x) /\ p = <<q, k, x, At(q, k, x)>>
  <2>1. CASE \E i \in DOMAIN tasks[q] : p = <<q, "task", i, tasks[q][i]>>
    BY <1>1, <2>1 DEF On, At
  <2>2. CASE \E t \in Pool(q) : /\ thread[q][t].at = "loaded"
                                /\ p = <<q, "thread", t, thread[q][t].msg>>
    BY <1>1, <2>2 DEF On, At
  <2>3. CASE \E i \in Kept(q) - sem[q] + 1 .. Kept(q) :
               p = <<q, "block", i, block[q][i]>>
    BY <1>1, <1>3, <2>3 DEF On, At
  <2>4. CASE taker[q].at = "hand" /\ p = <<q, "hand", 0, taker[q].msg>>
    BY <1>1, <2>4 DEF On, At
  <2> QED
    BY <1>4, <2>1, <2>2, <2>3, <2>4 DEF OnTheWay
<1>5. ASSUME NEW k, NEW x, On(q, k, x), p = <<q, k, x, At(q, k, x)>>
      PROVE  p \in OnTheWay(q)
  <2>1. CASE k = "task"
    BY <1>5, <2>1 DEF On, At, OnTheWay
  <2>2. CASE k = "thread"
    BY <1>5, <2>2 DEF On, At, OnTheWay
  <2>3. CASE k = "block"
    BY <1>3, <1>5, <2>3 DEF On, At, OnTheWay
  <2>4. CASE k = "hand"
    BY <1>5, <2>4 DEF On, At, OnTheWay
  <2> QED
    BY <1>5, <2>1, <2>2, <2>3, <2>4 DEF On
<1> QED
  BY <1>4, <1>5

(* For any number of clients, threads, blocks, starts and deaths: until a  *)
(* packet is given up, a sem_p fails, actors overlap on a counter or a     *)
(* process dies, a client that waits has one packet in the server, the one *)
(* it waits for, and a client that does not has none.                      *)
THEOREM NoneLostCorrect == Spec => []NoneLostNoneTwice
<1>1. ASSUME IInv, MatchInv, SomewhereInv, Fine,
             NEW c \in Clients \ Deaf
      PROVE  LET about == PacketsOf(c) IN
             IF waits[c] = 0 THEN about = {}
             ELSE \E p \in about : about = {p} /\ p[4].n = waits[c]
  <2>1. \A p : p \in PacketsOf(c) <=>
                 \E q \in Queues : \E k, x :
                   /\ On(q, k, x) /\ p = <<q, k, x, At(q, k, x)>>
                   /\ At(q, k, x).client = c
    <3>1. \A p : p \in PacketsOf(c) <=>
                   (\E q \in Queues : p \in OnTheWay(q)) /\ p[4].client = c
      BY DEF PacketsOf
    <3> QED
      BY <1>1, <3>1, OnTheWayIs
  <2>2. ASSUME NEW q \in Queues, NEW k, NEW x, On(q, k, x),
               At(q, k, x).client = c
        PROVE  waits[c] = At(q, k, x).n /\ At(q, k, x).n # 0
    BY <1>1, <2>2, PacketsAreMessages DEF MatchInv, WaitedInv, Reads
  <2>3. CASE waits[c] = 0
    <3>1. PacketsOf(c) = {}
      BY <2>1, <2>2, <2>3
    <3> QED
      BY <2>3, <3>1
  <2>4. CASE waits[c] # 0
    <3>1. PICK m : Somewhere(m) /\ m.client = c
      BY <1>1, <2>4 DEF SomewhereInv
    <3>2. PICK q \in Queues : In(q, m)
      BY <3>1 DEF Somewhere
    <3>3. PICK k, x : On(q, k, x) /\ At(q, k, x) = m
      BY <3>2 DEF In
    <3>4. PICK p : p = <<q, k, x, At(q, k, x)>>
      OBVIOUS
    <3>5. p \in PacketsOf(c)
      BY <2>1, <3>1, <3>3, <3>4
    <3>6. p[4].n = waits[c]
      BY <2>2, <3>1, <3>3, <3>4
    <3>7. ASSUME NEW r \in PacketsOf(c) PROVE r = p
      <4>1. PICK y \in Queues :
              \E j, z : /\ On(y, j, z) /\ r = <<y, j, z, At(y, j, z)>>
                        /\ At(y, j, z).client = c
        BY <2>1, <3>7
      <4>2. PICK j, z : /\ On(y, j, z) /\ r = <<y, j, z, At(y, j, z)>>
                        /\ At(y, j, z).client = c
        BY <4>1
      <4>3. y = q /\ j = k /\ z = x
        BY <1>1, <3>1, <3>3, <4>2 DEF MatchInv, OnceInv, Reads
      <4> QED
        BY <3>4, <4>2, <4>3
    <3> QED
      BY <2>4, <3>5, <3>6, <3>7
  <2> QED
    BY <2>3, <2>4
<1>2. IInv /\ MatchInv /\ SomewhereInv => NoneLostNoneTwice
  BY <1>1 DEF NoneLostNoneTwice, Fine
<1>3. Init => MatchInv /\ SomewhereInv
  BY InitMatch, InitSomewhere
<1>4. IInv /\ (MatchInv /\ SomewhereInv) /\ [Next]_vars
        => (MatchInv /\ SomewhereInv)'
  BY NextMatch, NextSomewhere
<1> QED
  BY <1>2, <1>3, <1>4, Invariance, PTL DEF Spec

-----------------------------------------------------------------------------
(* The whole is an exchange: the queues of a client's packet are those     *)
(* that have it, one while the client waits, none while it does not.       *)
LEMMA WhereIs ==
  ASSUME IInv, Fine, NEW c, NEW q
  PROVE  q \in Where(c) <=>
           q \in Queues /\ \E m : In(q, m) /\ m.client = c
<1>1. q \in Where(c) <=> \E p \in PacketsOf(c) : q = p[1]
  BY DEF Where, Fine
<1>2. \A p : p \in PacketsOf(c) <=>
               (\E r \in Queues : p \in OnTheWay(r)) /\ p[4].client = c
  BY DEF PacketsOf
<1>3. ASSUME q \in Where(c)
      PROVE  q \in Queues /\ \E m : In(q, m) /\ m.client = c
  <2>1. PICK p \in PacketsOf(c) : q = p[1]
    BY <1>1, <1>3
  <2>2. PICK r \in Queues : p \in OnTheWay(r) /\ p[4].client = c
    BY <1>2, <2>1
  <2>3. PICK k, x : On(r, k, x) /\ p = <<r, k, x, At(r, k, x)>>
    BY <2>2, OnTheWayIs
  <2>4. q = r /\ At(r, k, x).client = c
    BY <2>1, <2>2, <2>3
  <2> QED
    BY <2>3, <2>4 DEF In
<1>4. ASSUME q \in Queues, NEW m, In(q, m), m.client = c
      PROVE  q \in Where(c)
  <2>1. PICK k, x : On(q, k, x) /\ At(q, k, x) = m
    BY <1>4 DEF In
  <2>2. PICK p : p = <<q, k, x, m>>
    OBVIOUS
  <2>3. p \in OnTheWay(q)
    BY <1>4, <2>1, <2>2, OnTheWayIs
  <2>4. p[4] = m /\ p[1] = q
    BY <2>2
  <2> QED
    BY <1>1, <1>2, <1>4, <2>3, <2>4
<1> QED
  BY <1>3, <1>4

LEMMA WhereOne ==
  ASSUME IInv, MatchInv, Fine, NEW c \in Patient, NEW q \in Queues, NEW m,
         In(q, m), m.client = c
  PROVE  Where(c) = {q} /\ waits[c] = m.n /\ waits[c] # 0
<1>1. PICK k, x : On(q, k, x) /\ At(q, k, x) = m
  BY DEF In
<1>2. Reads(m)
  BY DEF Reads, Patient
<1>3. waits[c] = m.n /\ m.n # 0
  BY <1>1, <1>2, PacketsAreMessages DEF MatchInv, WaitedInv
<1>4. ASSUME NEW r \in Where(c) PROVE r = q
  <2>1. r \in Queues
    BY <1>4, WhereIs
  <2>2. PICK l : In(r, l) /\ l.client = c
    BY <1>4, WhereIs
  <2>3. PICK j, y : On(r, j, y) /\ At(r, j, y) = l
    BY <2>2 DEF In
  <2> QED
    BY <1>1, <1>2, <2>1, <2>2, <2>3 DEF MatchInv, OnceInv, Reads
<1>5. q \in Where(c)
  BY WhereIs
<1> QED
  BY <1>3, <1>4, <1>5

LEMMA WhereNone ==
  ASSUME IInv, MatchInv, NEW c \in Patient, waits[c] = 0
  PROVE  Where(c) = {}
<1>1. CASE Fine
  <2>1. ASSUME NEW q \in Where(c) PROVE FALSE
    <3>1. q \in Queues
      BY <1>1, <2>1, WhereIs
    <3>2. PICK m : In(q, m) /\ m.client = c
      BY <1>1, <2>1, WhereIs
    <3> QED
      BY <1>1, <3>1, <3>2, WhereOne
  <2> QED
    BY <2>1
<1>2. CASE ~Fine
  BY <1>2 DEF Where, Fine
<1> QED
  BY <1>1, <1>2

(* Where a client that waits is, and that one that does not is nowhere.    *)
WhereInv ==
  \A c \in Patient :
    /\ waits[c] = 0 => Where(c) = {}
    /\ Fine => \A q \in Queues : \A m :
         In(q, m) /\ m.client = c =>
           Where(c) = {q} /\ waits[c] = m.n /\ waits[c] # 0

LEMMA WhereFollows == IInv /\ MatchInv => WhereInv
BY WhereNone, WhereOne DEF WhereInv

(* A client is where it was if all its packets are.                        *)
LEMMA WhereStays ==
  ASSUME SomewhereInv, WhereInv, WhereInv', Fine, Fine',
         NEW c \in Patient, waits'[c] = waits[c],
         \A p \in Queues : \A m : In(p, m) /\ m.client = c => In(p, m)'
  PROVE  Where(c)' = Where(c)
<1>1. CASE waits[c] = 0
  BY <1>1 DEF WhereInv
<1>2. CASE waits[c] # 0
  <2>1. PICK m : Somewhere(m) /\ m.client = c
    BY <1>2 DEF SomewhereInv, Patient
  <2>2. PICK p \in Queues : In(p, m)
    BY <2>1 DEF Somewhere
  <2>3. Where(c) = {p}
    BY <2>1, <2>2 DEF WhereInv
  <2>4. Where(c)' = {p}
    BY <2>1, <2>2 DEF WhereInv
  <2> QED
    BY <2>3, <2>4
<1> QED
  BY <1>1, <1>2

(* The steps of the exchange, client by client.                            *)
UnmovedFor(c) == waits'[c] = waits[c] /\ Where(c)' = Where(c)

LEMMA UnmovedForAll ==
  ASSUME \A c \in Patient : UnmovedFor(c)
  PROVE  UNCHANGED Served!vars
BY DEF UnmovedFor, Served!vars

LEMMA OneMoves ==
  ASSUME NEW c \in Patient, NEW n, NEW w,
         waits'[c] = n, Where(c)' = w,
         \A d \in Patient \ {c} : UnmovedFor(d)
  PROVE  /\ [d \in Patient |-> waits[d]]' =
              [[d \in Patient |-> waits[d]] EXCEPT ![c] = n]
         /\ [d \in Patient |-> Where(d)]' =
              [[d \in Patient |-> Where(d)] EXCEPT ![c] = w]
BY DEF UnmovedFor

LEMMA QuietServed ==
  ASSUME SomewhereInv, WhereInv, WhereInv', Fine', Quiet
  PROVE  UNCHANGED Served!vars
<1>1. ASSUME NEW c \in Patient PROVE UnmovedFor(c)
  BY WhereStays DEF Quiet, NothingMoves, UnmovedFor
<1> QED
  BY <1>1, UnmovedForAll

(* Numbers of requests are given out once.                                 *)
AskedInv == \A c \in Clients : waits[c] <= asked

LEMMA AskedNext ==
  ASSUME IInv, AskedInv, [Next]_vars
  PROVE  AskedInv'
<1>2. /\ asked \in Nat /\ waits \in [Clients -> Nat]
  BY DEF IInv, TypeInv
<1>3. CASE asked' = asked /\ \A c \in Clients : waits'[c] \in {0, waits[c]}
  BY <1>2, <1>3 DEF AskedInv
<1>4. ASSUME NEW c \in Clients, Ask(c) PROVE AskedInv'
  <2>1. asked' = asked + 1 /\ waits' \in {waits, [waits EXCEPT ![c] = asked']}
    BY <1>4 DEF Ask
  <2> QED
    BY <1>2, <2>1 DEF AskedInv
<1>5. ASSUME NEW q \in Queues, HandOver(q) PROVE AskedInv'
  <2>1. /\ asked' = asked
        /\ \/ waits' = waits
           \/ \E d : waits' = [waits EXCEPT ![d] = 0]
    BY <1>5 DEF HandOver
  <2> QED
    BY <1>2, <1>3, <2>1
<1>6. ASSUME NEW q \in Queues, Die(q) PROVE AskedInv'
  BY <1>2, <1>3, <1>6 DEF Die
<1>7. CASE UNCHANGED <<asked, waits>>
  BY <1>3, <1>7
<1>8. ASSUME NEW s \in Starts, Start(s) PROVE UNCHANGED <<asked, waits>>
  BY <1>8 DEF Start, Clear, Bind, Serve, clients
<1>9. ASSUME NEW q \in Queues, PoolStep(q) \/ Take(q) \/ Store(q)
      PROVE  UNCHANGED <<asked, waits>>
  BY <1>9 DEF PoolStep, Load, Post, Take, Store, clients
<1> QED
  BY <1>4, <1>5, <1>6, <1>7, <1>8, <1>9, TakeFailsQuiet
  DEF Next, TakerStep, vars, clients

LEMMA AskServed ==
  ASSUME IInv, SomewhereInv, AskedInv, WhereInv, WhereInv',
         NEW c \in Clients, Ask(c), Fine'
  PROVE  Served!Next \/ UNCHANGED Served!vars
<1>1. /\ asked' = asked + 1 /\ asked < MaxRequests
      /\ c \notin Deaf => waits[c] = 0
      /\ waits' = IF c \in Deaf THEN waits ELSE [waits EXCEPT ![c] = asked']
  BY DEF Ask
<1>2. /\ asked \in Nat /\ waits \in [Clients -> Nat]
  BY DEF IInv, TypeInv
<1>3. Fine /\ NothingMoves
  BY AskMoves
<1>4. PICK m : In("request", m)' /\ m.client = c
  BY AskMoves
<1>5. ASSUME NEW d \in Patient, d # c PROVE UnmovedFor(d)
  <2>1. waits'[d] = waits[d]
    BY <1>1, <1>2, <1>5 DEF Patient
  <2> QED
    BY <1>3, <2>1, WhereStays DEF NothingMoves, UnmovedFor
<1>6. CASE c \in Deaf
  BY <1>5, <1>6, UnmovedForAll DEF Patient
<1>7. CASE c \notin Deaf
  <2>1. c \in Patient /\ waits[c] = 0 /\ waits'[c] = asked'
    BY <1>1, <1>2, <1>7 DEF Patient
  <2>2. Where(c) = {}
    BY <2>1 DEF WhereInv
  <2>3. Where(c)' = {"request"}
    BY <1>4, <2>1 DEF WhereInv, Queues
  <2>4. asked' \in 1 .. MaxRequests
    BY <1>1, <1>2
  <2>5. ASSUME NEW d \in Patient PROVE waits[d] # asked'
    <3>1. waits[d] <= asked /\ waits[d] \in Nat
      BY <1>2 DEF AskedInv, Patient
    <3> QED
      BY <1>1, <1>2, <3>1
  <2>6. /\ [d \in Patient |-> waits[d]]' =
              [[d \in Patient |-> waits[d]] EXCEPT ![c] = asked']
        /\ [d \in Patient |-> Where(d)]' =
              [[d \in Patient |-> Where(d)] EXCEPT ![c] = {"request"}]
    BY <1>5, <2>1, <2>3, OneMoves
  <2>7. Served!Ask(c)
    BY <2>1, <2>2, <2>4, <2>5, <2>6 DEF Served!Ask
  <2> QED
    BY <2>1, <2>7 DEF Served!Next
<1> QED
  BY <1>6, <1>7

LEMMA DispatchServed ==
  ASSUME IInv, MatchInv, SomewhereInv, WhereInv, WhereInv',
         HandOver("request"), Fine'
  PROVE  Served!Next \/ UNCHANGED Served!vars
<1>1. PICK l : l = taker["request"].msg
  OBVIOUS
<1>2. Fine /\ waits' = waits
  BY DEF HandOver, Fine, Trouble
<1>3. l \in Messages /\ In("request", l) /\ In("reply", l)'
  BY <1>1, <1>2, InHand, DispatchMoves DEF Queues
<1>4. PICK c : c = l.client
  OBVIOUS
<1>5. ASSUME NEW d \in Patient, d # c PROVE UnmovedFor(d)
  <2>1. \A p \in Queues : \A m : In(p, m) /\ m.client = d => In(p, m)'
    BY <1>1, <1>4, <1>5, DispatchMoves
  <2> QED
    BY <1>2, <2>1, WhereStays DEF UnmovedFor
<1>6. CASE c \notin Patient
  BY <1>5, <1>6, UnmovedForAll
<1>7. CASE c \in Patient
  <2>1. Where(c) = {"request"} /\ waits[c] # 0
    BY <1>2, <1>3, <1>4, <1>7 DEF WhereInv, Queues
  <2>2. Where(c)' = {"reply"}
    BY <1>3, <1>4, <1>7 DEF WhereInv, Queues
  <2>3. [d \in Patient |-> Where(d)]' =
          [[d \in Patient |-> Where(d)] EXCEPT ![c] = {"reply"}]
    BY <1>2, <1>5, <1>7, <2>2, OneMoves
  <2>4. Served!Dispatch(c)
    BY <1>2, <1>7, <2>1, <2>3 DEF Served!Dispatch
  <2> QED
    BY <1>7, <2>4 DEF Served!Next
<1> QED
  BY <1>6, <1>7

LEMMA AnswerServed ==
  ASSUME IInv, MatchInv, SomewhereInv, WhereInv, WhereInv',
         HandOver("reply"), Fine'
  PROVE  Served!Next \/ UNCHANGED Served!vars
<1>1. PICK l : l = taker["reply"].msg
  OBVIOUS
<1>2. /\ Fine
      /\ waits' = IF waits[l.client] = l.n
                    THEN [waits EXCEPT ![l.client] = 0] ELSE waits
  BY <1>1 DEF HandOver, Fine, Trouble
<1>3. /\ l \in Messages /\ In("reply", l)
      /\ Reads(l) => waits[l.client] = l.n
  BY <1>1, <1>2, InHand DEF Queues
<1>4. PICK c : c = l.client
  OBVIOUS
<1>5. c \in Clients /\ waits \in [Clients -> Nat]
  BY <1>3, <1>4 DEF Messages, IInv, TypeInv
<1>6. ASSUME NEW d \in Patient, d # c PROVE UnmovedFor(d)
  <2>1. \A p \in Queues : \A m : In(p, m) /\ m.client = d => In(p, m)'
    BY <1>1, <1>4, <1>6, AnswerMoves
  <2>2. waits'[d] = waits[d]
    BY <1>2, <1>4, <1>5, <1>6 DEF Patient
  <2> QED
    BY <1>2, <2>1, <2>2, WhereStays DEF UnmovedFor
<1>7. CASE c \notin Patient
  BY <1>6, <1>7, UnmovedForAll
<1>8. CASE c \in Patient
  <2>1. Where(c) = {"reply"} /\ waits[c] # 0
    BY <1>2, <1>3, <1>4, <1>8 DEF WhereInv, Queues
  <2>2. waits'[c] = 0
    BY <1>2, <1>3, <1>4, <1>5, <1>8 DEF Reads, Patient
  <2>3. Where(c)' = {}
    BY <1>8, <2>2 DEF WhereInv
  <2>4. /\ [d \in Patient |-> waits[d]]' =
              [[d \in Patient |-> waits[d]] EXCEPT ![c] = 0]
        /\ [d \in Patient |-> Where(d)]' =
              [[d \in Patient |-> Where(d)] EXCEPT ![c] = {}]
    BY <1>6, <1>8, <2>2, <2>3, OneMoves
  <2>5. Served!Answer(c)
    BY <1>8, <2>1, <2>4 DEF Served!Answer
  <2> QED
    BY <1>8, <2>5 DEF Served!Next
<1> QED
  BY <1>7, <1>8

(* A start finds nobody waiting, or is trouble itself.                     *)
LEMMA StartServed ==
  ASSUME IInv, SomewhereInv, WhereInv, WhereInv', NEW s \in Starts, Start(s),
         Fine'
  PROVE  UNCHANGED Served!vars
<1>1. CASE Bind(s)
  BY <1>1, BindQuiet, QuietServed
<1>2. CASE Serve(s)
  <2>1. net = {} /\ waits' = waits
    BY <1>2 DEF Serve, clients, IInv, PortInv
  <2>2. ASSUME NEW c \in Patient PROVE UnmovedFor(c)
    <3>1. waits[c] = 0
      BY <2>1 DEF SomewhereInv, Patient
    <3> QED
      BY <2>1, <3>1 DEF WhereInv, UnmovedFor
  <2> QED
    BY <2>2, UnmovedForAll
<1>3. ASSUME NEW q \in Queues, NEW from, NEW to, Clear(s, q, from, to)
      PROVE  FALSE
  BY <1>3 DEF Clear, Fine, Trouble
<1> QED
  BY <1>1, <1>2, <1>3 DEF Start, Queues

LEMMA NextServed ==
  ASSUME IInv, MatchInv, SomewhereInv, AskedInv, WhereInv, WhereInv',
         [Next]_vars
  PROVE  Trouble' \/ net' = {} \/ Served!Next \/ UNCHANGED Served!vars
<1> SUFFICES ASSUME Fine' PROVE Served!Next \/ UNCHANGED Served!vars
  BY DEF Fine
<1>1. ASSUME NEW s \in Starts, Start(s) PROVE UNCHANGED Served!vars
  BY <1>1, StartServed
<1>2. ASSUME NEW c \in Clients, Ask(c)
      PROVE  Served!Next \/ UNCHANGED Served!vars
  BY <1>2, AskServed
<1>3. ASSUME NEW q \in Queues, Die(q) PROVE FALSE
  BY <1>3 DEF Die, Fine, Trouble
<1>4. ASSUME NEW q \in Queues, PoolStep(q) PROVE UNCHANGED Served!vars
  BY <1>4, PoolQuiet, QuietServed
<1>5. ASSUME NEW q \in Queues, TakerStep(q)
      PROVE  Served!Next \/ UNCHANGED Served!vars
  BY <1>5, TakerQuiet, QuietServed, DispatchServed, AnswerServed
  DEF TakerStep, Queues
<1>6. ASSUME NEW q \in Queues, TakeFails(q) PROVE FALSE
  BY <1>6, TakeFailsQuiet
<1>7. CASE UNCHANGED vars
  BY <1>7, StutterQuiet, QuietServed
<1> QED
  BY <1>1, <1>2, <1>3, <1>4, <1>5, <1>6, <1>7 DEF Next

LEMMA InitServed == Init => Served!Init /\ AskedInv
<1> SUFFICES ASSUME Init PROVE Served!Init /\ AskedInv
  OBVIOUS
<1>1. \A c \in Patient : waits[c] = 0 /\ Where(c) = {}
  BY DEF Init, Where, Patient
<1> QED
  BY <1>1 DEF Init, Served!Init, AskedInv

(* For any number of clients, threads, blocks, starts and deaths: until a  *)
(* packet is given up, a sem_p fails, actors overlap on a counter or a     *)
(* process dies, the whole way through the server and back does to each    *)
(* client that waits what Exchange does.                                   *)
THEOREM ExchangeCorrect == Spec => ExchangeUntilTrouble
<1>1. Init => MatchInv /\ SomewhereInv /\ AskedInv /\ Served!Init
  BY InitMatch, InitSomewhere, InitServed
<1>2. IInv /\ (MatchInv /\ SomewhereInv /\ AskedInv) /\ [Next]_vars
        => (MatchInv /\ SomewhereInv /\ AskedInv)'
  BY NextMatch, NextSomewhere, AskedNext
<1>3. IInv /\ (MatchInv /\ SomewhereInv /\ AskedInv) => WhereInv
  BY WhereFollows
<1>4. IInv /\ (MatchInv /\ SomewhereInv /\ AskedInv) /\ WhereInv
        /\ WhereInv' /\ [Next]_vars
        => [Trouble' \/ net' = {} \/ Served!Next
              \/ UNCHANGED Served!vars]_vars
  BY NextServed
<1> QED
  BY <1>1, <1>2, <1>3, <1>4, Invariance, PTL DEF Spec, ExchangeUntilTrouble
=============================================================================
