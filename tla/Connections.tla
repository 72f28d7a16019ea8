----------------------------- MODULE Connections -----------------------------
(***************************************************************************)
(* The network process: the acceptor of main() hands each new connection   *)
(* to the epoll thread with the smallest lis_fd_sum, each CEpollSecond     *)
(* thread reads the packets of its connections, and handler() writes the   *)
(* replies to the fd the request was read from.                            *)
(*                                                                         *)
(* The kernel is modelled from how the code uses it: the lowest free fd is *)
(* given out, a closed fd leaves its epoll set, epoll is level-triggered.  *)
(* A client that leaves sends a FIN, which read() shows as 0 ever after,   *)
(* or a RST, an error the next call on the socket reports once.            *)
(*                                                                         *)
(* What is between a request and its reply (both segments, the database)   *)
(* is only its effect: a request is answered once, or lost.                *)
(***************************************************************************)
EXTENDS Integers, Sequences, FiniteSets

CONSTANTS
  Clients,      \* each connects once
  NoClient,
  NEpolls,      \* length of epollsecond[] (30)
  NFds,         \* fds the process may have
  MaxPackets,   \* bound: packets sent
  MaxFails      \* bound: accept() calls that fail

ASSUME ConnAssumption ==
  /\ NoClient \notin Clients
  /\ NEpolls \in Nat \ {0} /\ NFds \in Nat
  /\ MaxPackets \in Nat /\ MaxFails \in Nat

Epolls == 1 .. NEpolls
Fds == 1 .. NFds
NoFd == -1

(* What arrives on a socket: the head of a request, its body, or a packet  *)
(* without a body (a heartbeat, or a type the server does not know).       *)
Items == {"head", "body", "beat"}

VARIABLES
  \* the clients and the kernel
  backlog,   \* connections not accepted yet
  peer,      \* "off", "open", "left" (FIN), "reset" (RST), "dead" (RST seen)
  half,      \* clients that have sent a head and not its body
  inbox,     \* items the server has not read yet
  owner,     \* whose connection an fd is
  member,    \* the epoll sets
  up,        \* the network process lives; with it, all connections end
  packets, fails,   \* what is left of the bounds
  \* the acceptor
  apc,       \* "accept", "scan", "add", "load", "store"
  acid,      \* the fd accept() returned
  online,    \* epid_onlineuser[]
  num,       \* its next index; then the epoll chosen
  aload,     \* the count it is incrementing
  \* the epoll threads
  sum,       \* lis_fd_sum
  epc,       \* "wait", "event", "body", "close", "load", "store"
  todo,      \* events of the last epoll_wait not handled yet
  cur,       \* the fd of the event being handled
  eload,     \* the count it is decrementing
  \* requests read and not answered yet, by fd and by who sent them
  pending,
  \* history
  failed,    \* an accept() failed
  closed,    \* a connection was closed
  raced,     \* an increment and a decrement of one lis_fd_sum overlapped
  orphaned,  \* an fd was closed with a request of it pending
  wrong      \* a reply reached a client who had not asked

kernel   == <<backlog, peer, half, inbox, owner, member, up, packets, fails>>
acceptor == <<apc, acid, online, num, aload>>
threads  == <<epc, todo, cur, eload>>
history  == <<failed, closed, raced, orphaned, wrong>>
vars == <<kernel, acceptor, sum, threads, pending, history>>

Init ==
  /\ backlog = {} /\ half = {} /\ up = TRUE
  /\ peer = [c \in Clients |-> "off"]
  /\ inbox = [c \in Clients |-> <<>>]
  /\ owner = [fd \in Fds |-> NoClient]
  /\ member = [e \in Epolls |-> {}]
  /\ packets = MaxPackets /\ fails = MaxFails
  /\ apc = "accept" /\ acid = NoFd /\ num = 1 /\ aload = 0
  /\ online = [e \in Epolls |-> 0]
  /\ sum = [e \in Epolls |-> 0]
  /\ epc = [e \in Epolls |-> "wait"]
  /\ todo = [e \in Epolls |-> {}]
  /\ cur = [e \in Epolls |-> NoFd]
  /\ eload = [e \in Epolls |-> 0]
  /\ pending = [fd \in Fds |-> [c \in Clients |-> 0]]
  /\ failed = FALSE /\ closed = FALSE /\ raced = FALSE
  /\ orphaned = FALSE /\ wrong = FALSE

-----------------------------------------------------------------------------
(* The clients.                                                            *)

Connect(c) ==
  /\ up /\ peer[c] = "off"
  /\ peer' = [peer EXCEPT ![c] = "open"]
  /\ backlog' = backlog \union {c}
  /\ UNCHANGED <<half, inbox, owner, member, up, packets, fails, acceptor,
                 sum, threads, pending, history>>

(* A packet comes whole, or its body later, or never. *)
Send(c) ==
  /\ up /\ peer[c] = "open"
  /\ \/ /\ c \notin half /\ packets > 0
        /\ packets' = packets - 1
        /\ \/ /\ half' = half \union {c}
              /\ inbox' = [inbox EXCEPT ![c] = Append(@, "head")]
           \/ /\ inbox' = [inbox EXCEPT ![c] = Append(@, "beat")]
              /\ UNCHANGED half
     \/ /\ c \in half /\ half' = half \ {c}
        /\ inbox' = [inbox EXCEPT ![c] = Append(@, "body")]
        /\ UNCHANGED packets
  /\ UNCHANGED <<backlog, peer, owner, member, up, fails, acceptor, sum,
                 threads, pending, history>>

Leave(c) ==
  /\ up /\ peer[c] = "open"
  /\ \E how \in {"left", "reset"} : peer' = [peer EXCEPT ![c] = how]
  /\ UNCHANGED <<backlog, half, inbox, owner, member, up, packets, fails,
                 acceptor, sum, threads, pending, history>>

-----------------------------------------------------------------------------
(* The acceptor.                                                           *)

FreeFds == {fd \in Fds : owner[fd] = NoClient}

(* accept(): a connection on the lowest free fd, or -1, which is not       *)
(* looked at.                                                              *)
Accept ==
  /\ up /\ apc = "accept" /\ backlog # {}
  /\ \/ \E c \in backlog, fd \in FreeFds :
          /\ \A g \in FreeFds : fd <= g
          /\ acid' = fd
          /\ owner' = [owner EXCEPT ![fd] = c]
          /\ backlog' = backlog \ {c}
          /\ UNCHANGED <<fails, failed>>
     \/ /\ fails > 0 /\ fails' = fails - 1
        /\ acid' = NoFd /\ failed' = TRUE
        /\ UNCHANGED <<owner, backlog>>
  /\ apc' = "scan"
  /\ UNCHANGED <<peer, half, inbox, member, up, packets, online, num, aload, sum,
                 threads, pending, closed, raced, orphaned, wrong>>

(* Faulty variants: the fullest is taken; the loop goes one too far, to a  *)
(* zero behind the array.                                                  *)
MaxOnlineUser(p) ==
  CHOOSE e \in Epolls : \A f \in Epolls : p[f] < p[e] \/ (p[f] = p[e] /\ e <= f)

MinOnlineUserPast(p) ==
  IF \A e \in Epolls : p[e] > 0 THEN NEpolls + 1
  ELSE CHOOSE e \in Epolls : \A f \in Epolls :
         p[e] < p[f] \/ (p[e] = p[f] /\ e <= f)

(* min_epid_onlineuser(): the first of the smallest numbers. *)
MinOnlineUser(p) ==
  CHOOSE e \in Epolls : \A f \in Epolls : p[e] < p[f] \/ (p[e] = p[f] /\ e <= f)

(* The counters are read one after the other, unlocked. *)
Scan ==
  /\ up /\ apc = "scan"
  /\ online' = [online EXCEPT ![num] = sum[num]]
  /\ \/ num < NEpolls /\ num' = num + 1 /\ UNCHANGED apc
     \/ num = NEpolls /\ num' = MinOnlineUser(online') /\ apc' = "add"
  /\ UNCHANGED <<kernel, acid, aload, sum, threads, pending, history>>

(* Faulty variant: the connection is counted but not added. *)
AddEventForgotten ==
  /\ up /\ apc = "add" /\ apc' = "load"
  /\ UNCHANGED <<kernel, acid, online, num, aload, sum, threads, pending,
                 history>>

(* AddEvent(): epoll_ctl refuses the fd -1, which is only printed.         *)
AddEvent ==
  /\ up /\ apc = "add" /\ apc' = "load"
  /\ member' = [member EXCEPT ![num] = @ \union ({acid} \ {NoFd})]
  /\ UNCHANGED <<backlog, peer, half, inbox, owner, up, packets, fails, acid,
                 online, num, aload, sum, threads, pending, history>>

(* add_list_fd_sum(): lis_fd_sum++, load and store. *)
AddLoad ==
  /\ up /\ apc = "load" /\ apc' = "store"
  /\ aload' = sum[num]
  /\ raced' = (raced \/ epc[num] = "store")
  /\ UNCHANGED <<kernel, acid, online, num, sum, threads, pending, failed,
                 closed, orphaned, wrong>>

(* The next accept() overwrites all of these before it reads them.         *)
ForgetConnection ==
  /\ apc' = "accept" /\ acid' = NoFd /\ num' = 1 /\ aload' = 0
  /\ online' = [e \in Epolls |-> 0]

(* Faulty variant: the connection is not counted. *)
AddStoreForgotten ==
  /\ up /\ apc = "store" /\ ForgetConnection
  /\ UNCHANGED <<kernel, sum, threads, pending, history>>

AddStore ==
  /\ up /\ apc = "store" /\ ForgetConnection
  /\ sum' = [sum EXCEPT ![num] = aload + 1]
  /\ UNCHANGED <<kernel, threads, pending, history>>

AcceptorStep == Accept \/ Scan \/ AddEvent \/ AddLoad \/ AddStore

-----------------------------------------------------------------------------
(* The epoll threads.                                                      *)

(* The events epoll_wait reports (20 at a time; the others come next).     *)
Ready(e) ==
  {fd \in member[e] : \/ inbox[owner[fd]] # <<>>
                      \/ peer[owner[fd]] \in {"left", "reset", "dead"}}

Wait(e) ==
  /\ up /\ epc[e] = "wait" /\ Ready(e) # {}
  /\ epc' = [epc EXCEPT ![e] = "event"]
  /\ todo' = [todo EXCEPT ![e] = Ready(e)]
  /\ UNCHANGED <<kernel, acceptor, sum, cur, eload, pending, history>>

(* The event is done: the next one, or epoll_wait again. *)
NextEvent(e, events) ==
  /\ epc' = [epc EXCEPT ![e] = IF events = {} THEN "wait" ELSE "event"]
  /\ cur' = [cur EXCEPT ![e] = NoFd]
  /\ eload' = [eload EXCEPT ![e] = 0]

(* The event needs more: its body, or its close(). *)
GoOn(e, fd, step) ==
  /\ epc' = [epc EXCEPT ![e] = step]
  /\ cur' = [cur EXCEPT ![e] = fd]
  /\ UNCHANGED eload

(* One turn of Run()'s loop: read() of the head.  A request goes on with   *)
(* its body; other packets are over; 0 (the client has left) is ignored;   *)
(* only an error closes the connection.                                    *)
ReadHead(e, fd) ==
  /\ up /\ epc[e] = "event" /\ fd \in todo[e]
  /\ todo' = [todo EXCEPT ![e] = @ \ {fd}]
  /\ LET c == owner[fd] IN
       \/ /\ inbox[c] # <<>>
          /\ inbox' = [inbox EXCEPT ![c] = Tail(@)]
          /\ IF Head(inbox[c]) = "head" THEN GoOn(e, fd, "body")
                                       ELSE NextEvent(e, todo'[e])
          /\ UNCHANGED peer
       \/ /\ inbox[c] = <<>> /\ peer[c] # "reset"
          /\ NextEvent(e, todo'[e])
          /\ UNCHANGED <<inbox, peer>>
       \/ /\ inbox[c] = <<>> /\ peer[c] = "reset"
          /\ peer' = [peer EXCEPT ![c] = "dead"]
          /\ GoOn(e, fd, "close")
          /\ UNCHANGED inbox
  /\ UNCHANGED <<backlog, half, owner, member, up, packets, fails, acceptor,
                 sum, pending, history>>

(* Faulty variant: the task gets the fd of another event. *)
ReadBodyWrongFd(e) ==
  /\ up /\ epc[e] = "body"
  /\ LET c == owner[cur[e]] IN
       \/ /\ inbox[c] # <<>>
          /\ inbox' = [inbox EXCEPT ![c] = Tail(@)]
          /\ \E fd \in member[e] :
               pending' = [pending EXCEPT ![fd][c] = @ + 1]
          /\ UNCHANGED peer
       \/ /\ inbox[c] = <<>> /\ peer[c] # "open"
          /\ peer' = [peer EXCEPT ![c] = IF @ = "reset" THEN "dead" ELSE @]
          /\ UNCHANGED <<inbox, pending>>
  /\ NextEvent(e, todo[e])
  /\ UNCHANGED <<backlog, half, owner, member, up, packets, fails, acceptor,
                 sum, todo, history>>

(* Faulty variant: the body is read again until it is there. *)
ReadBodyInsists(e) ==
  /\ up /\ epc[e] = "body" /\ inbox[owner[cur[e]]] # <<>>
  /\ inbox' = [inbox EXCEPT ![owner[cur[e]]] = Tail(@)]
  /\ pending' = [pending EXCEPT ![cur[e]][owner[cur[e]]] = @ + 1]
  /\ NextEvent(e, todo[e])
  /\ UNCHANGED <<backlog, peer, half, owner, member, up, packets, fails,
                 acceptor, sum, todo, history>>

(* read() of the body blocks the whole thread until something comes.  The  *)
(* request becomes a task with the fd; an error here closes nothing.       *)
ReadBody(e) ==
  /\ up /\ epc[e] = "body"
  /\ LET c == owner[cur[e]] IN
       \/ /\ inbox[c] # <<>>
          /\ inbox' = [inbox EXCEPT ![c] = Tail(@)]
          /\ pending' = [pending EXCEPT ![cur[e]][c] = @ + 1]
          /\ UNCHANGED peer
       \/ /\ inbox[c] = <<>> /\ peer[c] # "open"
          /\ peer' = [peer EXCEPT ![c] = IF @ = "reset" THEN "dead" ELSE @]
          /\ UNCHANGED <<inbox, pending>>
  /\ NextEvent(e, todo[e])
  /\ UNCHANGED <<backlog, half, owner, member, up, packets, fails, acceptor,
                 sum, todo, history>>

(* OnClientClose(): close(), which also takes the fd out of the epoll set. *)
Close(e) ==
  /\ up /\ epc[e] = "close"
  /\ epc' = [epc EXCEPT ![e] = "load"]
  /\ owner' = [owner EXCEPT ![cur[e]] = NoClient]
  /\ member' = [member EXCEPT ![e] = @ \ {cur[e]}]
  /\ closed' = TRUE
  /\ orphaned' = (orphaned \/ \E c \in Clients : pending[cur[e]][c] > 0)
  /\ UNCHANGED <<backlog, peer, half, inbox, up, packets, fails, acceptor,
                 sum, todo, cur, eload, pending, failed, raced, wrong>>

(* sub_list_fd_sum(): lis_fd_sum--, load and store. *)
SubLoad(e) ==
  /\ up /\ epc[e] = "load"
  /\ epc' = [epc EXCEPT ![e] = "store"]
  /\ eload' = [eload EXCEPT ![e] = sum[e]]
  /\ raced' = (raced \/ (apc = "store" /\ num = e))
  /\ UNCHANGED <<kernel, acceptor, sum, todo, cur, pending, failed, closed,
                 orphaned, wrong>>

SubStore(e) ==
  /\ up /\ epc[e] = "store"
  /\ sum' = [sum EXCEPT ![e] = eload[e] - 1]
  /\ NextEvent(e, todo[e])
  /\ UNCHANGED <<kernel, acceptor, todo, pending, history>>

EpollStep(e) ==
  \/ Wait(e) \/ ReadBody(e) \/ Close(e) \/ SubLoad(e) \/ SubStore(e)
  \/ \E fd \in Fds : ReadHead(e, fd)

-----------------------------------------------------------------------------
(* A request of client c, read from fd, is answered: write(fd).  A closed  *)
(* fd is an error nobody looks at; a client that has left answers a first  *)
(* write with a RST; a second write raises SIGPIPE, and the process dies.  *)
Answer(fd, c) ==
  /\ up /\ pending[fd][c] > 0
  /\ pending' = [pending EXCEPT ![fd][c] = @ - 1]
  /\ LET d == owner[fd] IN
       \/ /\ d = NoClient
          /\ UNCHANGED <<peer, up, wrong>>
       \/ /\ d # NoClient /\ peer[d] = "open"
          /\ wrong' = (wrong \/ d # c)
          /\ UNCHANGED <<peer, up>>
       \/ /\ d # NoClient /\ peer[d] = "left"
          /\ \E s \in {"left", "dead"} : peer' = [peer EXCEPT ![d] = s]
          /\ UNCHANGED <<up, wrong>>
       \/ /\ d # NoClient /\ peer[d] = "reset"
          /\ peer' = [peer EXCEPT ![d] = "dead"]
          /\ UNCHANGED <<up, wrong>>
       \/ /\ d # NoClient /\ peer[d] = "dead"
          /\ up' = FALSE
          /\ UNCHANGED <<peer, wrong>>
  /\ UNCHANGED <<backlog, half, inbox, owner, member, packets, fails,
                 acceptor, sum, threads, failed, closed, raced, orphaned>>

(* A full segment, or a race on one, loses the request or its reply. *)
Lose(fd, c) ==
  /\ up /\ pending[fd][c] > 0
  /\ pending' = [pending EXCEPT ![fd][c] = @ - 1]
  /\ UNCHANGED <<kernel, acceptor, sum, threads, history>>

Next ==
  \/ \E c \in Clients : Connect(c) \/ Send(c) \/ Leave(c)
  \/ AcceptorStep
  \/ \E e \in Epolls : EpollStep(e)
  \/ \E fd \in Fds, c \in Clients : Answer(fd, c) \/ Lose(fd, c)

Spec == Init /\ [][Next]_vars

(* The acceptor and the epoll threads run when they can; clients and the   *)
(* database promise nothing.                                               *)
FairSpec ==
  /\ Spec
  /\ WF_vars(AcceptorStep)
  /\ \A e \in Epolls : WF_vars(EpollStep(e))

-----------------------------------------------------------------------------
TypeOK ==
  /\ backlog \subseteq Clients /\ half \subseteq Clients
  /\ peer \in [Clients -> {"off", "open", "left", "reset", "dead"}]
  /\ inbox \in [Clients -> Seq(Items)]
  /\ owner \in [Fds -> Clients \union {NoClient}]
  /\ member \in [Epolls -> SUBSET Fds]
  /\ packets \in Nat /\ fails \in Nat
  /\ apc \in {"accept", "scan", "add", "load", "store"}
  /\ acid \in Fds \union {NoFd}
  /\ online \in [Epolls -> Int]
  /\ num \in Epolls /\ aload \in Int
  /\ sum \in [Epolls -> Int]
  /\ epc \in [Epolls -> {"wait", "event", "body", "close", "load", "store"}]
  /\ todo \in [Epolls -> SUBSET Fds]
  /\ cur \in [Epolls -> Fds \union {NoFd}]
  /\ eload \in [Epolls -> Int]
  /\ pending \in [Fds -> [Clients -> Nat]]
  /\ up \in BOOLEAN /\ failed \in BOOLEAN /\ closed \in BOOLEAN
  /\ raced \in BOOLEAN /\ orphaned \in BOOLEAN /\ wrong \in BOOLEAN

(* The acceptor holds a connection that no epoll thread watches yet. *)
InHand(fd) == apc \in {"scan", "add"} /\ acid = fd

(* Every open fd is a connection of its own, is watched by exactly one     *)
(* epoll thread (or about to be), and a thread works only on fds it        *)
(* watches: a number that is closed and given out again never stays in the *)
(* batch, or the set, of the thread that had it before.                    *)
WatchedByOne ==
  /\ \A fd, g \in Fds : owner[fd] = owner[g] /\ owner[fd] # NoClient => fd = g
  /\ \A fd \in Fds :
       owner[fd] # NoClient <=>
         InHand(fd) \/ \E e \in Epolls : fd \in member[e]
  /\ \A e \in Epolls :
       /\ \A fd \in member[e] : ~InHand(fd)
       /\ \A f \in Epolls : e # f => member[e] \intersect member[f] = {}
       /\ todo[e] \subseteq member[e]
       /\ epc[e] \in {"body", "close"} => cur[e] \in member[e] \ todo[e]

(* lis_fd_sum is the size of the epoll set, up to the increment and the    *)
(* decrement on their way, as long as they never overlapped and no         *)
(* accept() failed (EpollSecond.h:44).                                     *)
SumIsSize ==
  ~raced /\ ~failed =>
    \A e \in Epolls :
      sum[e] + (IF apc \in {"load", "store"} /\ num = e THEN 1 ELSE 0)
        = Cardinality(member[e]) + (IF epc[e] \in {"load", "store"} THEN 1 ELSE 0)

(* While nobody was closed, the acceptor spreads the connections evenly,   *)
(* although it looks at each counter only once (main.cpp:240-247).         *)
Balanced ==
  ~closed /\ ~failed =>
    \A e, f \in Epolls : Cardinality(member[e]) <= Cardinality(member[f]) + 1

(* A reply goes to the client who asked, unless some connection was closed *)
(* while requests of it were on their way.                                 *)
RepliesGoHome ==
  ~orphaned =>
    /\ ~wrong
    /\ \A fd \in Fds, c \in Clients : pending[fd][c] > 0 => owner[fd] = c

(* The thread that watches client c waits for the body of somebody else.   *)
Stuck(c) ==
  \E e \in Epolls : /\ \E fd \in member[e] : owner[fd] = c
                    /\ epc[e] = "body" /\ inbox[owner[cur[e]]] = <<>>
                    /\ peer[owner[cur[e]]] = "open"

Accepted(c) == \E e \in Epolls : \E fd \in member[e] : owner[fd] = c

(* What a watched client sends is read, however many clients have left and *)
(* make their events fire for ever, unless some client owes the thread a   *)
(* body for ever, or the process dies.                                     *)
SentIsRead ==
  \A c \in Clients :
    \/ []<>(inbox[c] = <<>> \/ ~Accepted(c) \/ ~up)
    \/ <>[]Stuck(c)
=============================================================================
