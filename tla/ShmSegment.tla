----------------------------- MODULE ShmSegment -----------------------------
(***************************************************************************)
(* One System V shared-memory segment of the server, the semaphore that    *)
(* announces its contents, the pool threads that post packets into it and  *)
(* the single thread that takes them out.  The server has two of them:     *)
(*                                                                         *)
(*   requests  readbufftask::run (EpollSecond.cpp)  ->  the dispatcher     *)
(*             loop of the database process (main.cpp), 74 blocks          *)
(*   replies   readshmtask::run (OperationThread.cpp)  ->  handler()       *)
(*             of the network process (main.cpp), 9 blocks                 *)
(*                                                                         *)
(* Both follow the same protocol: block 0 holds the number of used blocks, *)
(* a producer loads it, fills the block after the last used one and stores *)
(* the number back; the consumer loads it, copies the last used block,     *)
(* hands the copy over and stores the number back.  Nothing locks the      *)
(* segment, so each load, each copied word and each store is a step.       *)
(* The consumer's switch on an unknown packet type is left out: Run()      *)
(* posts only known types, and NoUnfilledBlock shows that the consumer     *)
(* never meets a block nobody filled.                                      *)
(***************************************************************************)
EXTENDS Integers, Sequences, FiniteSets

CONSTANTS
  Threads,      \* the pool threads that post
  Packets,      \* the packets; each is given to one thread, once
  NoPacket,     \* what an untouched word of the segment holds
  Cap,          \* blocks behind the counter: 74 for requests, 9 for replies
  NWords,       \* words of a block; word 1 is the client's fd
  MaxIntr,      \* bound: sem_p calls that fail
  MaxRestarts,  \* bound: restarts of the whole server
  MaxSeconds    \* bound: starts of a second server that exits in Bind

ASSUME SegmentAssumption ==
  /\ NoPacket \notin Packets
  /\ Cap \in Nat \ {0}
  /\ NWords \in Nat \ {0}
  /\ MaxIntr \in Nat
  /\ MaxRestarts \in Nat
  /\ MaxSeconds \in Nat

Words == 1 .. NWords
Blocks == 1 .. Cap

VARIABLES
  count,        \* block 0: the number of used blocks
  block,        \* the blocks behind it
  sem,          \* the semaphore
  tpc,          \* producer thread: "idle", "write", "store", "post"
  tpkt,         \*   the packet of its task
  tused,        \*   its local used_sum
  tword,        \*   next word it copies into the block
  cpc,          \* consumer: "wait", "load", "copy", "hand", "store"
  cused,        \*   its local used_sum
  cword,        \*   next word it copies out of the block
  got,          \*   its local copy of the block
  todo,         \* packets no thread was given yet
  begun,        \* history: packets a thread found room for, in this run
  granted,      \* history: sem_v calls and failed sem_p calls, in this run
  handed,       \* history: blocks handed over, in this run
  overlapped,   \* history: two actors were between load and store at once
  intrs, restarts, seconds   \* what is left of the three bounds

segment  == <<count, block, sem>>
producer == <<tpc, tpkt, tused, tword>>
consumer == <<cpc, cused, cword, got>>
history  == <<begun, granted, handed, overlapped>>
bounds   == <<intrs, restarts, seconds>>
vars == <<segment, producer, consumer, todo, history, bounds>>

Init ==
  /\ count = 0
  /\ block = [i \in Blocks |-> [w \in Words |-> NoPacket]]
  /\ sem = 0
  /\ tpc = [t \in Threads |-> "idle"]
  /\ tpkt = [t \in Threads |-> NoPacket]
  /\ tused = [t \in Threads |-> 0]
  /\ tword = [t \in Threads |-> 1]
  /\ cpc = "wait" /\ cused = 0 /\ cword = 1
  /\ got = [w \in Words |-> NoPacket]
  /\ todo = Packets
  /\ begun = {} /\ granted = 0 /\ handed = <<>> /\ overlapped = FALSE
  /\ intrs = MaxIntr /\ restarts = MaxRestarts /\ seconds = MaxSeconds

-----------------------------------------------------------------------------
(* Who is between its load of the counter and its store. *)
ThreadInside(t) == tpc[t] \in {"write", "store"}
ConsumerInside == cpc \in {"copy", "hand", "store"}

(* Faulty variant: the bound of the full test is off by one. *)
HasRoomOffByOne(n) == n <= Cap

(* The producer's full test (used_sum<74, used_sum<9). *)
HasRoom(n) == n < Cap

(* The consumer's test (used_sum>0 && used_sum<=74, write_used<=9). *)
InRange(n) == n > 0 /\ n <= Cap

(* Faulty variant: a copy stops one word short of the block. *)
CopiedShort(w) == w + 1 >= NWords

(* A memcpy is done when it has copied the last word. *)
Copied(w) == w = NWords

(* A pool thread starts its task: it loads the counter and gives up when   *)
(* the segment is full; the packet is then lost and nobody is told.        *)
Load(t, p) ==
  /\ tpc[t] = "idle" /\ p \in todo
  /\ todo' = todo \ {p}
  /\ \/ /\ HasRoom(count)
        /\ tpc' = [tpc EXCEPT ![t] = "write"]
        /\ tpkt' = [tpkt EXCEPT ![t] = p]
        /\ tused' = [tused EXCEPT ![t] = count + 1]
        /\ tword' = [tword EXCEPT ![t] = 1]
        /\ begun' = begun \union {p}
        /\ overlapped' = (overlapped \/ ConsumerInside
                            \/ \E u \in Threads : ThreadInside(u))
     \/ /\ ~HasRoom(count)
        /\ UNCHANGED <<producer, begun, overlapped>>
  /\ UNCHANGED <<segment, consumer, granted, handed, bounds>>

(* One word of memcpy into the block: first the fd, then the packet. *)
WriteWord(t) ==
  /\ tpc[t] = "write"
  /\ block' = [block EXCEPT ![tused[t]] = [@ EXCEPT ![tword[t]] = tpkt[t]]]
  /\ IF Copied(tword[t])
       THEN tpc' = [tpc EXCEPT ![t] = "store"] /\ UNCHANGED tword
       ELSE tword' = [tword EXCEPT ![t] = @ + 1] /\ UNCHANGED tpc
  /\ UNCHANGED <<count, sem, tpkt, tused, consumer, todo, history, bounds>>

(* The thread stores its local used_sum into the counter. *)
StoreCount(t) ==
  /\ tpc[t] = "store"
  /\ count' = tused[t]
  /\ tpc' = [tpc EXCEPT ![t] = "post"]
  /\ UNCHANGED <<block, sem, tpkt, tused, tword, consumer, todo, history,
                 bounds>>

(* Faulty variant: the packet is never announced. *)
PostForgotten(t) ==
  /\ tpc[t] = "post"
  /\ tpc' = [tpc EXCEPT ![t] = "idle"]
  /\ UNCHANGED <<segment, tpkt, tused, tword, consumer, todo, history, bounds>>

(* sem.sem_v(n, 1) *)
Post(t) ==
  /\ tpc[t] = "post"
  /\ sem' = sem + 1
  /\ granted' = granted + 1
  /\ tpc' = [tpc EXCEPT ![t] = "idle"]
  /\ UNCHANGED <<count, block, tpkt, tused, tword, consumer, todo, begun,
                 handed, overlapped, bounds>>

-----------------------------------------------------------------------------
(* Faulty variant: the wait does not consume the token. *)
TakeKeepsToken ==
  /\ cpc = "wait" /\ sem > 0
  /\ cpc' = "load"
  /\ UNCHANGED <<segment, producer, cused, cword, got, todo, history, bounds>>

(* sem.sem_p(n, 1) returns with a token. *)
Take ==
  /\ cpc = "wait" /\ sem > 0
  /\ sem' = sem - 1
  /\ cpc' = "load"
  /\ UNCHANGED <<count, block, producer, cused, cword, got, todo, history,
                 bounds>>

(* semop fails (EINTR when the process is stopped and continued): sem_p    *)
(* prints a message, returns nothing, and the callers go on all the same.  *)
TakeFails ==
  /\ cpc = "wait" /\ intrs > 0
  /\ intrs' = intrs - 1
  /\ granted' = granted + 1
  /\ cpc' = "load"
  /\ UNCHANGED <<segment, producer, cused, cword, got, todo, begun, handed,
                 overlapped, restarts, seconds>>

(* The consumer loads the counter; out of range, it waits again and the    *)
(* token is gone.                                                          *)
ConsumerLoad ==
  /\ cpc = "load"
  /\ \/ /\ InRange(count)
        /\ cpc' = "copy" /\ cused' = count /\ cword' = 1
        /\ overlapped' = (overlapped \/ \E u \in Threads : ThreadInside(u))
     \/ /\ ~InRange(count)
        /\ cpc' = "wait"
        /\ UNCHANGED <<cused, cword, overlapped>>
  /\ UNCHANGED <<segment, producer, got, todo, begun, granted, handed, bounds>>

(* One word of memcpy out of the block. *)
CopyWord ==
  /\ cpc = "copy"
  /\ got' = [got EXCEPT ![cword] = block[cused][cword]]
  /\ IF Copied(cword) THEN cpc' = "hand" /\ UNCHANGED cword
                       ELSE cword' = cword + 1 /\ UNCHANGED cpc
  /\ UNCHANGED <<segment, producer, cused, todo, history, bounds>>

(* The copy is handed over before the counter is lowered: the dispatcher   *)
(* gives a task to the pool, the writer thread writes to the client.       *)
HandOver ==
  /\ cpc = "hand"
  /\ handed' = Append(handed, got)
  /\ cpc' = "store"
  /\ UNCHANGED <<segment, producer, cused, cword, got, todo, begun, granted,
                 overlapped, bounds>>

(* Faulty variant: the counter is left as it was found. *)
ConsumerStoreForgotten ==
  /\ cpc = "store"
  /\ cpc' = "wait"
  /\ UNCHANGED <<segment, producer, cused, cword, got, todo, history, bounds>>

(* used_sum--, and the counter is stored. *)
ConsumerStore ==
  /\ cpc = "store"
  /\ count' = cused - 1
  /\ cpc' = "wait"
  /\ UNCHANGED <<block, sem, producer, cused, cword, got, todo, history,
                 bounds>>

-----------------------------------------------------------------------------
(* Somebody starts the server again while it runs: main() zeroes the       *)
(* counter of the live segment before Bind finds the port taken and exits. *)
SecondStart ==
  /\ seconds > 0
  /\ seconds' = seconds - 1
  /\ count' = 0
  /\ overlapped' = TRUE
  /\ UNCHANGED <<block, sem, producer, consumer, todo, begun, granted, handed,
                 intrs, restarts>>

(* Faulty variant: the counter of the old segment is kept. *)
ResetSegmentKeepsCount == count' = count /\ sem' = 0

(* What main() does to a segment and its semaphore before it forks.        *)
(* shmctl is given the key where it wants the segment's id, so nothing is  *)
(* removed: an existing segment keeps its blocks.                          *)
ResetSegment == count' = 0 /\ sem' = 0

(* Both processes die at any point and main() runs again.                  *)
Restart ==
  /\ restarts > 0
  /\ restarts' = restarts - 1
  /\ ResetSegment
  /\ tpc' = [t \in Threads |-> "idle"]
  /\ cpc' = "wait"
  /\ begun' = {} /\ granted' = 0 /\ handed' = <<>> /\ overlapped' = FALSE
  /\ UNCHANGED <<block, tpkt, tused, tword, cused, cword, got, todo,
                 intrs, seconds>>

ThreadStep(t) ==
  \/ \E p \in Packets : Load(t, p)
  \/ WriteWord(t) \/ StoreCount(t) \/ Post(t)

ConsumerStep == Take \/ ConsumerLoad \/ CopyWord \/ HandOver \/ ConsumerStore

Next ==
  \/ \E t \in Threads : ThreadStep(t)
  \/ ConsumerStep \/ TakeFails
  \/ SecondStart \/ Restart

Spec == Init /\ [][Next]_vars

(* Threads and the consumer are scheduled, and the consumer is the only    *)
(* waiter of its semaphore; nothing says that a failure ever happens.      *)
FairSpec ==
  /\ Spec
  /\ \A t \in Threads : WF_vars(ThreadStep(t))
  /\ WF_vars(ConsumerStep)
-----------------------------------------------------------------------------
(* The variables keep their types; above all, no local used_sum, however   *)
(* stale, leaves the segment: every block touched is one of 1..Cap.        *)
TypeOK ==
  /\ count \in 0 .. Cap
  /\ block \in [Blocks -> [Words -> Packets \union {NoPacket}]]
  /\ sem \in Nat
  /\ tpc \in [Threads -> {"idle", "write", "store", "post"}]
  /\ tpkt \in [Threads -> Packets \union {NoPacket}]
  /\ tused \in [Threads -> 0 .. Cap]
  /\ tword \in [Threads -> Words]
  /\ cpc \in {"wait", "load", "copy", "hand", "store"}
  /\ cused \in 0 .. Cap
  /\ cword \in Words
  /\ got \in [Words -> Packets \union {NoPacket}]
  /\ todo \subseteq Packets
  /\ begun \subseteq Packets
  /\ granted \in Nat
  /\ handed \in Seq([Words -> Packets \union {NoPacket}])
  /\ overlapped \in BOOLEAN
  /\ intrs \in Nat /\ restarts \in Nat /\ seconds \in Nat

Filled(i) == \A w \in Words : block[i][w] \in begun

(* Every block the counter counts was filled completely since the server   *)
(* started, whatever loads and stores raced: the consumer never copies a   *)
(* block nobody wrote, nor one an earlier run of the server left behind in *)
(* the segment that main() fails to remove.                                *)
NoUnfilledBlock == \A i \in 1 .. count : Filled(i)

(* Permits of the abstract mailbox: tokens in the semaphore, and the one   *)
(* the consumer holds until it hands over or finds nothing.                *)
Permits == sem + (IF cpc \in {"load", "copy", "hand"} THEN 1 ELSE 0)

(* Races may repeat a packet, but only at the price of losing another: the *)
(* consumer never hands over more blocks than the producers announced      *)
(* (plus one for each failed sem_p), so the server never creates more      *)
(* tasks, or writes more replies, than it was sent.                        *)
NeverMoreThanAnnounced == Len(handed) + Permits <= granted

(* Blocks that are still to be handed over. *)
Depth == IF cpc = "store" THEN count - 1 ELSE count

(* As long as no two actors overlapped, each block waiting in the segment  *)
(* has a token, in the semaphore, with the consumer or about to be posted: *)
(* no packet is stranded with the consumer asleep.                         *)
NoStrandedBlock ==
  ~overlapped =>
    Depth <= Permits + Cardinality({t \in Threads : tpc[t] = "post"})

(* The weak promise, kept under every race, failed sem_p and restart.      *)
Lossy == INSTANCE LossyMailbox
           WITH offered <- begun, permits <- Permits, out <- handed

(* The segment implements the lossy mailbox: whatever is delivered was     *)
(* offered in this run of the server, at most one delivery per sem_v.      *)
ImplementsLossyMailbox == Lossy!Spec

(* Packets whose block the counter has covered since the server started.   *)
Stored == begun \ {tpkt[t] : t \in {u \in Threads : ThreadInside(u)}}

(* The strong promise. *)
Lifo == INSTANCE LifoMailbox
          WITH pushed <- Stored,
               stack <- [i \in 1 .. Depth |-> block[i]],
               out <- handed

(* Until two actors first overlap, every step of the segment is a step of  *)
(* a stack of whole packets: nothing is lost, repeated or mixed.  The lock *)
(* that main.cpp:439 remembers is all that is missing.                     *)
LifoUntilOverlap ==
  [][overlapped' \/ Lifo!Next \/ UNCHANGED Lifo!vars]_vars

Handed(p) == \E i \in 1 .. Len(handed) : handed[i] = Lifo!WholeBlock(p)

(* A packet that found room reaches the consumer, unless an overlap came   *)
(* before it did.                                                          *)
BegunIsHandedOver ==
  \A p \in Packets : (p \in begun) ~> (Handed(p) \/ overlapped)

(* Every token is consumed in the end: the consumer does not stop while    *)
(* packets are announced, even when the races made tokens and blocks       *)
(* disagree and many wake-ups find nothing.                                *)
TokensAreConsumed == (sem > 0) ~> (sem = 0 /\ cpc = "wait")

-----------------------------------------------------------------------------
(* What comments of the code say, and the code does not do.                *)

(* main.cpp:77-81: a block holds a client's fd and what is to be written   *)
(* to that client.                                                         *)
BlocksAreWhole ==
  \A i \in 1 .. Len(handed) : \E p \in Packets : handed[i] = Lifo!WholeBlock(p)
=============================================================================
