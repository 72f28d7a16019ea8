------------------------------- MODULE Server -------------------------------
(***************************************************************************)
(* The whole server: its starts, its two processes, and the way of a       *)
(* request through both segments and back to the client.                   *)
(*                                                                         *)
(*   client -> pool thread of the network process -> request segment       *)
(*          -> dispatcher -> pool thread of the database process           *)
(*          -> reply segment -> handler() -> client                        *)
(*                                                                         *)
(* The parts are coarser here than in their own modules: a pool is its     *)
(* list of tasks (TaskQueue), some threads, and whether one of them is on  *)
(* its way to the list (ThreadPool has the wake-up that is lost), a block  *)
(* is copied at once (its words are ShmSegment's), the database work is    *)
(* the time between a thread's load and its store, and connections stay    *)
(* open while the network process lives (Connections has those that end).  *)
(***************************************************************************)
EXTENDS Integers, Sequences, FiniteSets

CONSTANTS
  Clients,
  Deaf,          \* clients that do not read, and do not wait for replies
  Readers,       \* pool threads of the network process (readbufftask)
  Operators,     \* pool threads of the database process (readshmtask)
  NoMessage,
  RequestCap,    \* blocks of the request segment (74)
  ReplyCap,      \* blocks of the reply segment (9)
  MaxStarts,     \* bound: times somebody starts the program
  MaxDeaths,     \* bound: processes of a running server that die
  MaxFailures,   \* bound: lost wake-ups, failed sem_p, odd purchases
  MaxRequests    \* bound: requests of all clients

ASSUME ServerAssumption ==
  /\ Deaf \subseteq Clients
  /\ RequestCap \in Nat \ {0} /\ ReplyCap \in Nat \ {0}
  /\ MaxStarts \in Nat /\ MaxDeaths \in Nat /\ MaxRequests \in Nat
  /\ MaxFailures \in Nat

Starts == 1 .. MaxStarts

(* A packet: who sent it, its number, the server that read it.             *)
Messages == [client : Clients, n : 1 .. MaxRequests, by : Starts]

Queues == {"request", "reply"}
Cap(q) == IF q = "request" THEN RequestCap ELSE ReplyCap
Pool(q) == IF q = "request" THEN Readers ELSE Operators

VARIABLES
  main,     \* each start: "none", "requests", "replies", "bound", "over"
  net, db,  \* starts whose network or database process lives
  used, block, sem,    \* the segments and their semaphores
  tasks,               \* the task lists of the pools that post
  asleep,              \* no thread of the pool is going to look at its list
  thread,              \* the threads of these pools
  taker,               \* the dispatcher and handler()
  asked,    \* requests sent
  waits,    \* the request a client waits for, or 0
  deaths,   \* what is left of MaxDeaths
  failures, \* what is left of MaxFailures
  \* history; but for crowded, of the server that runs
  crowded,  \* a start cleared a counter while it was not alone
  raced,    \* actors overlapped on a counter, a start cleared one, or a
            \* sem_p that failed let a taker at one
  dropped,  \* a packet found its segment full, or was an odd purchase
  stale,    \* a packet of an older server was taken
  mismatch  \* a client that waits got a reply it was not waiting for

segments == <<used, block, sem>>
clients  == <<asked, waits>>
history  == <<raced, dropped, stale, mismatch>>
vars == <<main, net, db, segments, tasks, asleep, thread, taker, clients,
          deaths, failures, crowded, history>>

(* A pool thread, and a taker: where it is, its packet, its used_sum.      *)
Idle    == [at |-> "idle", msg |-> NoMessage, used |-> 0]
Waiting == [at |-> "wait", msg |-> NoMessage, used |-> 0]

Init ==
  /\ main = [s \in Starts |-> "none"] /\ net = {} /\ db = {}
  /\ used = [q \in Queues |-> 0] /\ sem = [q \in Queues |-> 0]
  /\ block = [q \in Queues |-> [i \in 1 .. Cap(q) |-> NoMessage]]
  /\ tasks = [q \in Queues |-> <<>>] /\ asleep = [q \in Queues |-> FALSE]
  /\ thread = [q \in Queues |-> [t \in Pool(q) |-> Idle]]
  /\ taker = [q \in Queues |-> Waiting]
  /\ asked = 0 /\ waits = [c \in Clients |-> 0]
  /\ deaths = MaxDeaths /\ failures = MaxFailures /\ crowded = FALSE
  /\ raced = FALSE /\ dropped = FALSE /\ stale = FALSE /\ mismatch = FALSE

-----------------------------------------------------------------------------
(* main(), up to the fork.                                                 *)

Starting(s) == main[s] \in {"requests", "replies", "bound"}

(* A start zeroes the counter of a segment, whoever uses it.               *)
Clear(s, q, from, to) ==
  /\ main[s] = from /\ main' = [main EXCEPT ![s] = to]
  /\ used' = [used EXCEPT ![q] = 0]
  /\ crowded' = (crowded \/ net \union db # {}
                        \/ \E r \in Starts \ {s} : Starting(r))
  /\ raced' = (raced \/ net \union db # {})
  /\ UNCHANGED <<net, db, block, sem, tasks, asleep, thread, taker, clients,
                 deaths, failures, dropped, stale, mismatch>>

(* Faulty variant: the child closes the socket it does not use. *)
PortFreeForNet == net = {} /\ \A s \in Starts : main[s] # "bound"

(* The fork leaves the listening socket open in both processes.            *)
PortFree == net \union db = {} /\ \A s \in Starts : main[s] # "bound"

(* Bind() exits when the port is taken.  (That main() can fail elsewhere   *)
(* is left out: a start that ends alone leaves nothing behind.)            *)
Bind(s) ==
  /\ main[s] = "replies"
  /\ main' = [main EXCEPT ![s] = IF PortFree THEN "bound" ELSE "over"]
  /\ UNCHANGED <<net, db, segments, tasks, asleep, thread, taker, clients,
                 deaths, failures, crowded, history>>

(* Faulty variant: the semaphores keep their tokens. *)
ServeKeepsTokens(s) ==
  /\ main[s] = "bound" /\ main' = [main EXCEPT ![s] = "over"]
  /\ net' = net \union {s} /\ db' = db \union {s}
  /\ raced' = FALSE /\ dropped' = FALSE /\ stale' = FALSE /\ mismatch' = FALSE
  /\ UNCHANGED <<used, block, sem, tasks, asleep, thread, taker, clients,
                 deaths, failures, crowded>>

(* sem_setval, then fork(): the two processes start anew.                  *)
Serve(s) ==
  /\ main[s] = "bound" /\ main' = [main EXCEPT ![s] = "over"]
  /\ sem' = [q \in Queues |-> 0]
  /\ net' = net \union {s} /\ db' = db \union {s}
  /\ raced' = FALSE /\ dropped' = FALSE /\ stale' = FALSE /\ mismatch' = FALSE
  /\ UNCHANGED <<used, block, tasks, asleep, thread, taker, clients, deaths,
                 failures, crowded>>

Start(s) ==
  \/ /\ \A r \in Starts : r < s => main[r] # "none"
     /\ Clear(s, "request", "none", "requests")
  \/ Clear(s, "reply", "requests", "replies")
  \/ Bind(s) \/ Serve(s)

-----------------------------------------------------------------------------
(* The processes of a server; either may die without the other noticing.   *)

Posting(q) == IF q = "request" THEN net ELSE db
Taking(q)  == IF q = "request" THEN db ELSE net

(* The process that posts to q dies, its threads with it, and the taker of *)
(* the other queue; clients of the network process see their connection    *)
(* end (SIGPIPE, an epoll_wait that is interrupted, a kill).               *)
Die(q) ==
  LET other == CHOOSE p \in Queues : p # q IN
  /\ Posting(q) # {} /\ deaths > 0 /\ deaths' = deaths - 1
  /\ IF q = "request"
       THEN net' = {} /\ waits' = [c \in Clients |-> 0] /\ UNCHANGED db
       ELSE db' = {} /\ UNCHANGED <<net, waits>>
  /\ tasks' = [tasks EXCEPT ![q] = <<>>]
  /\ asleep' = [asleep EXCEPT ![q] = FALSE]
  /\ thread' = [thread EXCEPT ![q] = [t \in Pool(q) |-> Idle]]
  /\ taker' = [taker EXCEPT ![other] = Waiting]
  /\ UNCHANGED <<main, segments, asked, failures, crowded, history>>

ThreadInside(q) == \E t \in Pool(q) : thread[q][t].at = "loaded"

(* addTask: a thread is woken or created to look at the list, unless one   *)
(* is on its way to it.  When none is, nobody may come: the wake-up is     *)
(* lost on a thread whose wait has timed out, or pthread_create fails.     *)
AddTask(q, m) ==
  /\ tasks' = [tasks EXCEPT ![q] = Append(@, m)]
  /\ \/ asleep' = [asleep EXCEPT ![q] = FALSE] /\ UNCHANGED failures
     \/ /\ ~ThreadInside(q) /\ (tasks[q] = <<>> \/ asleep[q])
        /\ failures > 0 /\ failures' = failures - 1
        /\ asleep' = [asleep EXCEPT ![q] = TRUE]

(* A client's request is read by an epoll thread and becomes a task.       *)
Ask(c) ==
  /\ asked < MaxRequests /\ asked' = asked + 1
  /\ c \notin Deaf => waits[c] = 0
  /\ \E s \in net :
       AddTask("request", [client |-> c, n |-> asked', by |-> s])
  /\ waits' = IF c \in Deaf THEN waits ELSE [waits EXCEPT ![c] = asked']
  /\ UNCHANGED <<main, net, db, segments, thread, taker, deaths, crowded,
                 history>>

(* Faulty variant: the bound is off by one. *)
HasRoomOffByOne(q) == used[q] <= Cap(q)

HasRoom(q) == used[q] < Cap(q)

(* run() of a task loads the counter; it gives the packet up if it finds   *)
(* no room, and in the database process if it is a purchase whose ask_buy  *)
(* is neither 0 nor 1.                                                     *)
Load(q, t) ==
  /\ Posting(q) # {} /\ thread[q][t].at = "idle"
  /\ tasks[q] # <<>> /\ ~asleep[q]
  /\ tasks' = [tasks EXCEPT ![q] = Tail(@)]
  /\ \/ /\ HasRoom(q)
        /\ thread' = [thread EXCEPT ![q][t] =
                        [at |-> "loaded", msg |-> Head(tasks[q]),
                         used |-> used[q] + 1]]
        /\ raced' = (raced \/ ThreadInside(q) \/ taker[q].at # "wait")
        /\ UNCHANGED <<dropped, failures>>
     \/ /\ \/ ~HasRoom(q) /\ UNCHANGED failures
           \/ q = "reply" /\ failures > 0 /\ failures' = failures - 1
        /\ dropped' = TRUE
        /\ UNCHANGED <<thread, raced>>
  /\ UNCHANGED <<main, net, db, segments, asleep, taker, clients, deaths,
                 crowded, stale, mismatch>>

(* Faulty variant: nobody is told. *)
PostForgotten(q, t) ==
  /\ Posting(q) # {} /\ thread[q][t].at = "loaded"
  /\ thread' = [thread EXCEPT ![q][t] = Idle]
  /\ block' = [block EXCEPT ![q][thread[q][t].used] = thread[q][t].msg]
  /\ used' = [used EXCEPT ![q] = thread[q][t].used]
  /\ UNCHANGED <<main, net, db, sem, tasks, asleep, taker, clients, deaths,
                 failures, crowded, history>>

(* ... fills its block, stores the counter, sem_v.                         *)
Post(q, t) ==
  /\ Posting(q) # {} /\ thread[q][t].at = "loaded"
  /\ thread' = [thread EXCEPT ![q][t] = Idle]
  /\ block' = [block EXCEPT ![q][thread[q][t].used] = thread[q][t].msg]
  /\ used' = [used EXCEPT ![q] = thread[q][t].used]
  /\ sem' = [sem EXCEPT ![q] = @ + 1]
  /\ UNCHANGED <<main, net, db, tasks, asleep, taker, clients, deaths,
                 failures, crowded, history>>

(* Faulty variant: the first block is copied, not the last. *)
CopiedFirst(q) == block[q][1]

Copied(q) == block[q][used[q]]

(* The taker loads the counter and copies the block. *)
Copy(q) ==
  /\ taker' = [taker EXCEPT ![q] =
                 [at |-> "hand", msg |-> Copied(q), used |-> used[q]]]
  /\ stale' = (stale \/ Copied(q).by \notin Taking(q))

(* sem_p, load, copy; with no block in range, sem_p again.                 *)
Take(q) ==
  /\ Taking(q) # {} /\ taker[q].at = "wait" /\ sem[q] > 0
  /\ sem' = [sem EXCEPT ![q] = @ - 1]
  /\ IF used[q] \in 1 .. Cap(q)
       THEN Copy(q) /\ raced' = (raced \/ ThreadInside(q))
       ELSE UNCHANGED <<taker, raced, stale>>
  /\ UNCHANGED <<main, net, db, used, block, tasks, asleep, thread, clients,
                 deaths, failures, crowded, dropped, mismatch>>

(* sem_p fails, and the taker goes on as if it had a token; if it finds no *)
(* block it is back at sem_p and nothing has changed.                      *)
TakeFails(q) ==
  /\ Taking(q) # {} /\ taker[q].at = "wait" /\ used[q] \in 1 .. Cap(q)
  /\ failures > 0 /\ failures' = failures - 1
  /\ Copy(q) /\ raced' = TRUE
  /\ UNCHANGED <<main, net, db, segments, tasks, asleep, thread, clients,
                 deaths, crowded, dropped, mismatch>>

(* The dispatcher calls addTask; handler() writes to the client, which     *)
(* returns when the client reads.                                          *)
HandOver(q) ==
  /\ Taking(q) # {} /\ taker[q].at = "hand"
  /\ taker' = [taker EXCEPT ![q].at = "store"]
  /\ LET m == taker[q].msg IN
     IF q = "request"
       THEN AddTask("reply", m) /\ UNCHANGED <<waits, mismatch>>
       ELSE /\ waits' = IF waits[m.client] = m.n
                          THEN [waits EXCEPT ![m.client] = 0] ELSE waits
            /\ mismatch' = (mismatch \/ (/\ m.client \notin Deaf
                                         /\ waits[m.client] # m.n))
            /\ UNCHANGED <<tasks, asleep, failures>>
  /\ UNCHANGED <<main, net, db, segments, thread, asked, deaths, crowded,
                 raced, dropped, stale>>

(* Faulty variant: the block that was taken is still counted. *)
StoreKeepsBlock(q) ==
  /\ Taking(q) # {} /\ taker[q].at = "store"
  /\ taker' = [taker EXCEPT ![q] = Waiting]
  /\ used' = [used EXCEPT ![q] = taker[q].used]
  /\ UNCHANGED <<main, net, db, block, sem, tasks, asleep, thread, clients,
                 deaths, failures, crowded, history>>

(* The counter it loaded, less one, is stored. *)
Store(q) ==
  /\ Taking(q) # {} /\ taker[q].at = "store"
  /\ taker' = [taker EXCEPT ![q] = Waiting]
  /\ used' = [used EXCEPT ![q] = taker[q].used - 1]
  /\ UNCHANGED <<main, net, db, block, sem, tasks, asleep, thread, clients,
                 deaths, failures, crowded, history>>

PoolStep(q) == \E t \in Pool(q) : Load(q, t) \/ Post(q, t)
TakerStep(q) == Take(q) \/ HandOver(q) \/ Store(q)

Next ==
  \/ \E s \in Starts : Start(s)
  \/ \E c \in Clients : Ask(c)
  \/ \E q \in Queues : Die(q) \/ PoolStep(q) \/ TakerStep(q) \/ TakeFails(q)

Spec == Init /\ [][Next]_vars

(* handler() writes to a client that does not read. *)
WritesToDeaf ==
  taker["reply"].at = "hand" /\ taker["reply"].msg.client \in Deaf

(* Threads that are on their way to a list, and takers, run while their    *)
(* process lives; a list that nobody was told of stays as it is, a write   *)
(* to a deaf client may never return, and nobody has to start, ask, die,   *)
(* or fail.                                                                *)
FairSpec ==
  /\ Spec
  /\ \A q \in Queues : WF_vars(PoolStep(q))
  /\ WF_vars(TakerStep("request"))
  /\ WF_vars(TakerStep("reply") /\ ~WritesToDeaf)

-----------------------------------------------------------------------------
TypeOK ==
  /\ main \in [Starts -> {"none", "requests", "replies", "bound", "over"}]
  /\ net \subseteq Starts /\ db \subseteq Starts
  /\ used \in [Queues -> Nat] /\ \A q \in Queues : used[q] <= Cap(q)
  /\ \A q \in Queues :
       block[q] \in [1 .. Cap(q) -> Messages \union {NoMessage}]
  /\ sem \in [Queues -> Nat]
  /\ tasks \in [Queues -> Seq(Messages)] /\ asleep \in [Queues -> BOOLEAN]
  /\ \A q \in Queues :
       thread[q] \in [Pool(q) -> [at : {"idle", "loaded"},
                                 msg : Messages \union {NoMessage}, used : Nat]]
  /\ taker \in [Queues -> [at : {"wait", "hand", "store"},
                          msg : Messages \union {NoMessage}, used : Nat]]
  /\ asked \in 0 .. MaxRequests /\ waits \in [Clients -> 0 .. MaxRequests]
  /\ deaths \in Nat /\ failures \in Nat
  /\ {crowded, raced, dropped, stale, mismatch} \subseteq BOOLEAN

(* Never two servers on one pair of segments, although a server may have   *)
(* lost either process: the one that is left keeps the port, through the   *)
(* socket it inherited (main.cpp:172), and every start exits in Bind.      *)
OneServer ==
  /\ \A s, r \in net \union db : s = r
  /\ net \union db # {} => \A s \in Starts : main[s] # "bound"

(* main() zeroes the counters before it knows that it is alone             *)
(* (main.cpp:128, 157, then 161), so an older server can put blocks back   *)
(* and die in time for Bind.  Even then a packet of the older server is    *)
(* taken only after actors overlapped, or a sem_p failed, in the new one.  *)
StaleNeedsRace == stale => crowded /\ raced

(* A client that waits for each reply gets the one it waits for, through   *)
(* both last-in first-out segments, unless actors overlapped or a sem_p    *)
(* failed.                                                                 *)
MatchUnlessRaced == mismatch => raced

(* The running server can no longer be trusted to answer. *)
Trouble == raced \/ dropped \/ db = {}

(* The packets on their way, each with its place: a task, the packet of a  *)
(* thread, a block that a token stands for, the packet in a taker's hand.  *)
(* The tokens stand for the blocks on top, but for the one the taker has   *)
(* copied and not given back.                                              *)
Kept(q) == used[q] - (IF taker[q].at = "wait" THEN 0 ELSE 1)

OnTheWay(q) ==
  {<<q, "task", i, tasks[q][i]>> : i \in DOMAIN tasks[q]}
    \union {<<q, "thread", t, thread[q][t].msg>> :
              t \in {u \in Pool(q) : thread[q][u].at = "loaded"}}
    \union {<<q, "block", i, block[q][i]>> :
              i \in Kept(q) - sem[q] + 1 .. Kept(q)}
    \union (IF taker[q].at = "hand" THEN {<<q, "hand", 0, taker[q].msg>>}
                                     ELSE {})

PacketsOf(c) == {p \in UNION {OnTheWay(q) : q \in Queues} : p[4].client = c}

(* While both processes live, no packet was given up, no sem_p failed and  *)
(* no actors overlapped on a counter: of the four hand-overs between a     *)
(* client that waits and its reply none loses the request, and none makes  *)
(* two of it, although packets overtake each other and a list may be       *)
(* forgotten; of a client that waits for nothing, nothing is left behind.  *)
NoneLostNoneTwice ==
  ~Trouble /\ net # {} =>
    \A c \in Clients \ Deaf :
      LET about == PacketsOf(c) IN
      IF waits[c] = 0 THEN about = {}
      ELSE \E p \in about : about = {p} /\ p[4].n = waits[c]

(* The queues a packet of client c is in, while the server can be trusted. *)
Where(c) ==
  IF Trouble \/ net = {} THEN {} ELSE {p[1] : p \in PacketsOf(c)}

Patient == Clients \ Deaf

Served == INSTANCE Exchange
            WITH Clients <- Patient, Numbers <- 1 .. MaxRequests,
                 waits <- [c \in Patient |-> waits[c]],
                 where <- [c \in Patient |-> Where(c)]

(* Two segments that give the newest block first, two pools and the        *)
(* threads between them are one exchange, of each server until trouble     *)
(* begins or its network process dies: a step of the server moves the      *)
(* request of one client on, or none.                                      *)
ExchangeUntilTrouble ==
  /\ Served!Init
  /\ [][Trouble' \/ net' = {} \/ Served!Next \/ UNCHANGED Served!vars]_vars

(* Whoever waits gets the reply, or sees the connection end, unless actors *)
(* overlapped on a counter, a sem_p failed, a packet was given up, the     *)
(* database process died, handler() is in a write() that never returns, or *)
(* a list was added to and no thread ever came.                            *)
AnsweredUnlessTrouble ==
  \A c \in Clients \ Deaf :
    \/ []<>(waits[c] = 0 \/ Trouble)
    \/ <>[]WritesToDeaf
    \/ \E q \in Queues : <>[]asleep[q]

-----------------------------------------------------------------------------
(* What a comment says, and the code does not do.                          *)

(* public.h:42: the client asks first, is answered, then confirms, and is  *)
(* answered again.                                                         *)
EveryRequestIsAnswered ==
  \A c \in Clients : waits[c] # 0 ~> waits[c] = 0
=============================================================================
