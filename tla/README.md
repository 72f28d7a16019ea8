# UnicomMini server: specifications and proofs

TLA+ models of the UnicomMini server (`src/project/`), TLC configurations that
check them on small instances, and TLAPS proofs of theorems that hold for every
value of the constants. The server sells recharge cards and credits them to
telephones: clients talk TCP to a *network process*, which passes each request
through shared memory to a *database process* with an SQLite file, and gets the
replies back the same way.

Contents:

1. [The system](#1-the-system)
2. [The modules](#2-the-modules)
3. [What the runs check](#3-what-the-runs-check)
4. [Fairness](#4-fairness)
5. [What is proved](#5-what-is-proved)
6. [What the code does against its comments](#6-what-the-code-does-against-its-comments)
7. [Abstractions, and what is not modelled](#7-abstractions-and-what-is-not-modelled)
8. [Plan](#8-plan)

## 1. The system

```
 clients ══TCP══▶ acceptor (main) ─▶ 30 CEpollSecond threads
    ▲                                      │ addTask(readbufftask)
    │                                 pool of 3-100 threads each
    │ write(fd)                            │ 74 blocks + semaphore 0
 handler() ◀── replies segment             ▼
    ▲           9 blocks + semaphore 1  requests segment
    │                    ▲                 │
 network process ────────┼─────────────────┼──── fork() ────
 database process        │                 ▼
             pool of 30-100 threads ◀─ dispatcher loop of main()
                 readshmtask::run       addTask(readshmtask)
                         │
                      SQLite: tbl_card, tbl_balance, ...
```

`main()` (`main.cpp:101-375`) creates both segments, binds the port, creates
the two semaphores and forks. The parent is the network process, the child the
database process. Everything from `main.cpp:405` on is commented out.

| Component | State | Operations | Talks to |
|---|---|---|---|
| Start-up (`main.cpp:101-172`) | segments, semaphores, listening socket | zero the counters, `Bind`, `sem_setval`, `fork` | everybody, by what it leaves behind |
| Acceptor (`main.cpp:187-252`) | `epid_onlineuser[30]`, `acid`, `num` | `accept`, `min_epid_onlineuser`, `AddEvent`, `add_list_fd_sum` | writes `lis_fd_sum` and the epoll sets of the threads |
| `CEpollSecond` (`EpollSecond.cpp`, `EpollBase.cpp`) | epoll set, `lis_fd_sum`, event batch | `Run` loop: read head, read body, `OnClientClose` | adds tasks to a pool of its own |
| `readbufftask` (`EpollSecond.cpp:20-66`) | fd and packet | post one request | requests segment, semaphore 0 |
| Segments (two of them) | counter in block 0, 74 or 9 blocks | load, copy, store, all unlocked | posting pool threads, one taker each |
| `CSem` (`sem.cpp`) | System V semaphores | `sem_p`, `sem_v`, `sem_setval` | posters and takers |
| Dispatcher (`main.cpp:255-375`) | local block, `used_sum` | take a request, `addTask` | requests segment, pool of 30 to 100 |
| `CThreadPool` (`ThreadPool.cpp`) | task list, `m_count`, `m_waitCount`, `m_bStop`, mutex, condition | `start`, `createThread`, `addTask`, `rontine`, `destroy` | runs the tasks |
| `readshmtask` (`OperationThread.cpp`) | request, result set, reply | login, balance, bill, list, buy (ask, confirm), recharge | database, replies segment, semaphore 1 |
| `CSingleton` (`singleton.cpp`) | the one SQLite handle | `get_data` | shared by the pool's threads |
| `handler()` (`main.cpp:57-93`) | local block, `write_used` | take a reply, `write(fd)` | replies segment, clients |
| Wire format (`public.h`, `EpollSecond.cpp:125-195`) | `m_buf`, `buff`, the stream | read a head, read a body, build a reply | clients, tasks |
| Conversions (`OperationThread.cpp:455-502`) | none | `char_to_float`, `char_to_int` | pure |
| Socket wrappers, `BaseThread` | one fd; none | used once at start; unused | |

### What makes it hard

* **Interleaving.** Neither segment is locked, though a comment says "when
  reading remember to lock" (`main.cpp:439`). Pool threads (each of 30
  pools starts 3 and may grow to 100, `ThreadPool.h:28`) and the dispatcher, which is
  in another process, load, use and store the same counter.
  `lis_fd_sum` is changed by two threads with `++` and `--`. The database has no
  transactions: buying and recharging read, compute and write in separate
  statements.
* **Order and staleness.** A taker stores back a counter it loaded before a
  call that may take long (`addTask`, `write`). A reply carries the number of an
  fd that may have been closed and given to somebody else since.
* **Wake-ups and time-outs.** Pool threads leave after a timed wait, and
  `addTask` decides from `m_waitCount` whether to signal or to create a thread.
* **Partial failure.** `sem_p`, `accept`, `pthread_create`, `write` and SQL
  statements fail and nobody looks. A client that leaves is seen only if it
  resets the connection. TCP cuts packets where it likes, and `read` is not
  repeated.
* **Crash and restart.** Segments and the database file outlive the processes.
  A second start zeroes the counters of the running server before `Bind` fails.
  Either process may die and leave the other one running, with the port.

### What correct means, by component

* Segment: whatever races, only blocks filled in this run are taken, never more
  than were announced; without a race it is a stack that loses, repeats and
  mixes nothing; the taker never sleeps on announced work.
* Pool: first in, first out, each task at most once; counters that match the
  threads; no thread sleeps while a task has nobody on the way to it.
* Store: no money without a card, but for what a float rounds; sold before credited before used; each credit
  answered once; without a race, a crash or a failed update, a ledger with indivisible steps.
* Server: never two servers on one pair of segments; a client that waits for
  its reply gets that reply, unless one of the named troubles happens; until one
  does, the whole way of a request is one exchange, in which nothing is lost,
  repeated or given to somebody else.
* Wire: until a read comes back short, the tasks are the requests sent; each
  packet fits the buffers it passes through; a reply says what follows its head.
* Conversions: a time that an int holds is read as what it says, an amount to
  within the roundings of a float.
* Connections: each fd watched by exactly one thread; `lis_fd_sum` is the size
  of that set; even load; replies to the client who asked; nobody starves.

`PROJECT.json` lists the hazards line by line with the properties that cover
them.

## 2. The modules

| Module | Models | Abstract specification |
|---|---|---|
| `ShmSegment` | a segment, its semaphore, its posting threads and its taker; one module for both segments | `LossyMailbox` (always), `LifoMailbox` (until the first overlap) |
| `ThreadPool` | `CThreadPool` and `CTask` | `TaskQueue` (always) |
| `CardStore` | `readshmtask::run` in all threads, `tbl_card`, `tbl_balance` | `CardLedger` (until the first overlap, torn request or failed update) |
| `Connections` | clients, kernel sockets and epoll, acceptor, epoll threads, reply writes | none |
| `Server` | several starts of `main()`, both processes, both segments, both pools, dispatcher, `handler()`, clients: the composition | `Exchange` (of each server, until its first trouble) |
| `Wire` | the bytes of one connection, `Run()`'s reads, the layout of the replies | none |
| `Conversions` | `char_to_float`, `char_to_int`; used by `Wire` | `Decimal` |
| `Floats` | what a float keeps of a number; used by `CardStore`, `CardLedger` and `Conversions` | none |
| `ShmSegmentProofs`, `ShmStackProofs`; `ThreadPoolProofs`; `CardStoreProofs`; `ConnectionsProofs`; `ServerProofs`, `ServerMatchProofs`; `WireProofs` | the theorems | |
| `MCShmSegment`, `MCThreadPool`, `MCCardStore`, `MCConnections`, `MCServer`, `MCWire` | symmetry and values for TLC | |

`Server` puts the parts together, each as coarse as its own module allows: a
pool is the queue that `ThreadPool` was shown to implement, a block is copied at
once because `ShmSegment` has the words. The other modules leave open what
`Server` closes: in `ShmSegment` a taken packet is only `handed`; in `ThreadPool`
a task's `run()` is one step; in `CardStore` a request comes from nowhere and
its reply finds room or does not; in `Connections` what lies between a request
and its reply is `Answer` or `Lose`.

Definitions called *faulty variant* are not part of a specification. They are
the same operator with a plausible mistake in it, and TLC finds that the
property they are paired with in `PROJECT.json` breaks with them.

### ShmSegment

| Code | Model |
|---|---|
| counter in block 0; the blocks; `CSem` number 0 or 1 | `count`, `block`, `sem` |
| `used_sum` of the poster, `used_sum` / `write_used` of the taker | `tused`, `cused` |
| `EpollSecond.cpp:46-52`, `OperationThread.cpp:65-70` | `Load`: full test, local increment, or the packet is dropped |
| the `memcpy` of the fd and of the packet | `WriteWord`, once per word; word 1 is the fd |
| `memcpy` of the counter, `sem_v` | `StoreCount`, `Post` |
| `sem_p`, with its ignored error | `Take`, `TakeFails` |
| `main.cpp:63-90`, `268-300` | `ConsumerLoad`, `CopyWord`, `HandOver`, `ConsumerStore` |
| `main.cpp:108-128`, `135-157`, `166-169` | `ResetSegment`, in `Restart`; `SecondStart` |

The two paths have the same shape and differ in the number of blocks and in the
work between load and store, which takes no step of its own here: any number of
other steps may come between two steps of an actor. The history variable
`overlapped` becomes true when an actor loads the counter while another is
between its load and its store, and when `SecondStart` zeroes the counter.

### ThreadPool

One action per part of `rontine()`, `addTask()` and `destroy()` that something
outside the mutex can separate. A worker is in one of eleven control states;
`"wait"`, `"woken"` and `"timedout"` tell apart the three phases of
`pthread_cond_timedwait`. A signal with nobody blocked is lost; a woken thread
still competes for the mutex. `destroy()` waits on the condition variable
without holding the mutex; POSIX leaves that undefined, and glibc releases a
normal mutex whoever holds it, which is what `DestroyWait` does. From then on two
threads may change `m_count` and `m_waitCount` at once, and an update may be lost;
`Disciplined` says that this has not happened yet. The server never
calls `destroy()`; the class offers it and the runs include it.

### CardStore

One SQL statement is one step, since SQLite serialises a connection and each
statement commits by itself. `pc[t]` is the statement a thread runs next:
`select`, then `sell` (one turn of the loop per card), or `balance`, `credit`,
`mark`, then `post`. `rows[t]` is the result set as it was read, so a card in it
may have been sold since. `SellOverrun` is the loop going on after the last row,
because it trusts `card_count` (`OperationThread.cpp:150`). `Restart` is a crash
between any two statements. The enquiries are one `select` and an answer.

Each statement may also fail. `get_data` prints the error and returns nothing
(`singleton.cpp:43`), and the tasks do not look, so every statement has its own
way to go on: a `select` that fails is answered like one without rows
(`SelectFails`, `BalanceFails`); an `update` that fails is answered like one that
worked (`SellFails`, `CreditFails`, `MarkFails`); and a confirmed purchase whose
`select` fails reads its first row through a NULL pointer, which ends the process
(`ConfirmFails`). `Booked(c)` counts the updates that credit card c whether they
worked or not, since that is all a task knows.

A balance is a text that `char_to_float` makes a float of; the card's value is
added in a float, and `%f` prints the sum (`OperationThread.cpp:218-220`). So 100.1
and a card of 30 are stored as 130.100006. `Near(x)` are the numbers a rounding
may make of x: off by at most one part in `Precision`, and one unit of the
smallest that the text shows. `RechargeBalance` and `RechargeCredit` choose any of
them. `rounding[tel]` adds up what the roundings of a telephone's recharges may
have come to at most; `NoMoneyFromNowhere` allows a balance this, and no more.

### Connections

A client connects, sends heads, bodies and packets without a body, and leaves
with a FIN or a RST, or is simply silent. The acceptor takes one step for
each counter it reads and two for `lis_fd_sum++`. An epoll thread takes one
step for each `read`, the `close` and each half of `lis_fd_sum--`; `todo` is its
batch of events. `read()` that returns 0 is ignored, as in the code
(`EpollSecond.cpp:138`), so a client that left with a FIN stays in the epoll set
and fires for ever. `write()` to a connection the kernel knows to be dead raises
SIGPIPE, which ends the network process (`up`). Sockets and epoll are the
kernel's and are modelled by what the code relies on: the lowest free fd is
given out, `close()` removes it from its epoll set, epoll is level-triggered.

### Server

| Code | Model |
|---|---|
| `main.cpp:108-157` | `Clear`, for one segment and then the other: the counters are zeroed whoever uses them |
| `main.cpp:161`, `Bind` in `BaseSocket.cpp` | `Bind`: goes on only when nobody has the port, else `exit` |
| `main.cpp:163-172` | `Serve`: `sem_setval`, `fork`; both processes have the listening socket, so either keeps the port (`PortFree`) |
| a process that ends (a signal, SIGPIPE, `epoll_wait` interrupted) | `Die`: its tasks and threads are gone, segments and semaphores stay |
| an epoll thread reads a request | `Ask`: a task for the pool of the network process |
| `run()` of both kinds of task | `Load` (or the packet is dropped), `Post` |
| `addTask` | `AddTask`, in `Ask` and in the dispatcher's `HandOver`: somebody comes for the task, or, if nobody is on the way, perhaps nobody does |
| a purchase whose `ask_buy` is neither 0 nor 1 (`OperationThread.cpp:109`, `135`) | `Load` of an operator that gives the packet up |
| dispatcher and `handler()` | `Take`, `HandOver` (`addTask`, or `write`), `Store` |
| `sem_p` that fails (`sem.cpp:56`) | `TakeFails`: the taker goes on without a token |

`asleep[q]` says that the list of queue q has been added to and that nobody comes:
the signal went to a thread whose wait had timed out (`ThreadPool.cpp:161-166`,
`222`, as in the run `PoolLostWakeup`), or `pthread_create` failed and there is no
thread (`111`). The next `addTask` that finds somebody ends it. A thread that is
between `Load` and `Post` looks at the list when it is done, so neither can
happen beside one.

The database work of a request is the time between `Load` and `Post` of an
operator, as in the code. A deaf client keeps its connection and does not read:
a `write` to it may never return, and since `handler()` is one thread, everybody
waits. Each server's history starts when it starts; a packet carries the server
that read it, so that `stale` can say when one of an older server is taken.

`OnTheWay(q)` are the places in queue q where a packet may be: a task in the
list, a pool thread that loaded it, a block that a token of the semaphore stands
for, the hand of the taker. `PacketsOf(c)` are those of one client, over both
queues. `Exchange` keeps of all this only which request a client waits for and
in which queue it is; `Where(c)` maps the one to the other.

### Wire and Conversions

A connection is a stream of bytes: `sent` has its packets, `arrived` and `taken`
count bytes. `ReadHead` and `ReadBody` take what is there up to the size they ask
for, and `Run()` never reads on. Bytes behind a short read have no known meaning,
so the next head may have any type. Sizes are computed from the structs of
`public.h` with C's alignment (`SizeOf`). When a connection falls quiet with
`Run()` waiting for a head, the stream starts anew, in step. `Answer` is the reply
to the last task, one per request type and number of rows, with an amount and a
time from the database that went through the conversions. Where the code sends
back the head it was given (`OperationThread.cpp:81`, `120`, `240`, `283`),
`head.number` is the one the client asked with. After a short read no task is
recorded in `tasks`, which is a history: what is made of the bytes then depends
on their values.

`Conversions` has both loops as recursive functions over character codes, and
`Decimal`, the sum of each digit times the weight of its place. `char_to_int`
computes in an int (`InInt` keeps what one of 2 `Half` values holds). Of
`char_to_float` the model computes an interval: what a rounding does depends on
bits of the float, so each moves the upper end up and the lower end down by the
most it may be off (`Error`), in the order of the loops: three roundings for each
digit before the point once the number exceeds `Exact`, the whole numbers a
float holds; one for each digit behind it, where the division is computed in
double and is rounded with the sum; one for `pre+next*0.1`. Amounts are counted in
units of 10^-length. Powers of ten are a recursive function
too (`Power10`), because the provers know nothing of exponentiation.

## 3. What the runs check

Every run is `tlc -config <cfg> <module>`. All set `CHECK_DEADLOCK FALSE`: the
packets, tasks and requests of a run are finite, threads with nothing to do
block for good, and the network process may be dead.

| Run | Properties | What it shows |
|---|---|---|
| `ShmSafety` | `TypeOK`, `NoUnfilledBlock`, `NeverMoreThanAnnounced`, `NoStrandedBlock`, `ImplementsLossyMailbox`, `LifoUntilOverlap` | what the unlocked segment keeps under every interleaving, a failed `sem_p`, a second start and a restart |
| `ShmLive` | `BegunIsHandedOver`, `TokensAreConsumed` | a posted packet is handed over unless actors overlap; the taker never stops with tokens left |
| `Pool` | `TypeOK`, `CountsAreExact`, `TakersFindTheirTask`, `NobodySleepsOnWork`, `ImplementsTaskQueue`, `TaskListDrains`, `ThreadsLeave` | counters, wake-ups and order of tasks, and that a thread that takes a task finds it, with failed `pthread_create`, time-outs, spurious wake-ups and `destroy()`; tasks in the list are taken, unless no thread is left; `destroy()` makes every thread leave, unless it returns too early, with the mutex they need |
| `StoreSafety` | `TypeOK`, `NoMoneyFromNowhere`, `SoldCreditedUsed`, `CreditsAreAnswered`, `NoCardVanishes`, `LedgerUntilOverlap` | what the tables keep under races, crashes, failing statements and the roundings of a float, and that these are all that separates them from a ledger |
| `Conn` | `TypeOK`, `WatchedByOne`, `SumIsSize`, `Balanced`, `RepliesGoHome`, `SentIsRead` | connections, epoll sets, unlocked counters and reused fds, with clients that leave and an `accept` that fails; what a client sends is read although dead connections fire for ever, unless a client owes a body for ever |
| `Server` | `TypeOK`, `OneServer`, `StaleNeedsRace`, `MatchUnlessRaced`, `NoneLostNoneTwice`, `ExchangeUntilTrouble`, `AnsweredUnlessTrouble` | starts that meet a running server or half of one; packets left by an older server; one packet on its way for each client that waits and none for the others, moved on by each step as `Exchange` says; each client that waits gets its own reply unless actors overlapped, a `sem_p` failed, a packet was given up (a full segment, an odd `ask_buy`), the database process died, `handler()` hangs in a `write`, or a list was added to and no thread ever came |
| `Wire` | `TypeOK`, `InStepUntilShort`, `EverythingFits`, `NumberTellsWhatFollows`, `TextsAreReadRight` | packets cut anywhere by TCP, the sizes of packets and replies against every buffer, the conversions in an int and a float of limited width |
| `ShmWhole`, `PoolLostWakeup`, `StoreSoldTwice`, `StoreCreditedTwice`, `ServerLone` | one each | violated: see section 6 |

Several properties hold *until the first overlap*. They are not weaker forms of
something the code was meant to promise: they say that the missing lock, or the
missing transaction, is the only thing that is wrong. Each has an unconditional
companion that says what is left when it is missing.

### Bounds, and why they are enough

* `ShmSafety`: 2 posting threads, the taker, 3 packets, 2 blocks of 2 words, one
  failed `sem_p`, one restart, one second start. A lost update needs two actors;
  a mixed block needs two words; a full segment needs more packets than blocks;
  a third packet comes after the race and sees what it left. More blocks only
  make the full segment rarer.
* `ShmLive`: the same without the failures, which are safety matters; a restart
  would excuse any loss.
* `Pool`: 3 worker identities, at most 2 threads of which 1 at the start, 3
  tasks, one failed `pthread_create`, `destroy()` at any time. As in the
  server, a pool starts below its limit and can grow to it. A third identity is
  there for a pool that would exceed its limit, which `CountsAreExact` rules out.
* `PoolLostWakeup`: 2 workers, of which 1 at the start, 3 tasks: one thread times
  out while the other runs, and a task comes in between.
* `StoreSafety`: 2 threads, 2 cards of value 1, 2 telephones, 4 requests, one
  crash, one failing statement. Four requests are the least with which both cards can be sold and
  recharged; the races are between pairs of requests, and the tables are all they
  share. Equal values make every purchase compete for the same cards. `Precision`
  is 10, so that a rounding changes the small balances of the run by one.
* `StoreSoldTwice`: 2 purchases. `StoreCreditedTwice`: one thread, so that no
  race helps; a purchase, a recharge that a crash interrupts, and its repetition.
* `Conn`: 2 clients, 2 epoll threads, 2 fds, 2 packets (each a head and a body,
  or neither), one failed `accept`. The second client can get the number of the
  first; with 2 threads there is a choice to balance; with 2 packets one client
  can leave, stay silent in the middle of a packet, or keep its event firing
  while the other sends.
* `Server`: a client that waits for its replies and a deaf one, 1 thread that
  posts requests and 1 that posts replies, 2 and 1 blocks, 2 starts, 2 deaths, one
  failure (a `sem_p`, a task nobody comes for, or a purchase that is not answered),
  3 requests. A thread and a taker overlap on each counter; two threads on one are
  in `ShmSafety`, and in the theorems. Two starts are an old server and a new one, or two at once; two
  deaths are those of both processes; one reply block is full when the deaf
  client has its reply in it. Two clients that wait have no run of their own:
  the theorems on `MatchUnlessRaced`, `NoneLostNoneTwice` and
  `ExchangeUntilTrouble` hold for any number of them.
* `ServerLone`: one client, one thread each, segments that never fill, nobody
  dies: as quiet as the server can be.
* `Wire`: one packet type for each way through `Run()` and each shape of reply
  (`buycard`, `bill`, `list`, and `beat` without a body), 2 packets, cut at every
  byte; 0 to 99 rows, one more than `buff` holds of the shortest struct; a client
  that says 1 in its head and one that says 2; the texts of up to four characters
  over 0, 9 and the point: one digit and several before it, none and several
  behind it, and carries of nines. An int holds 949 (`Half`), so that 999 and
  all of four digits wrap, and so that 909 and 900 pass it on the way, by '0';
  a float holds whole numbers up to 150 (`Exact`) and one part in 100
  (`Precision`): every text with a part behind the point is rounded.

The bounds on failures (`MaxIntr`, `MaxRestarts`, `MaxSeconds`, `MaxFails`,
`MaxFailures`, `MaxStarts`, `MaxDeaths`, `MaxRequests`, `MaxPackets`) are guards
of the actions they count, and every theorem holds for all their values.

## 4. Fairness

Safety runs assume none. The liveness runs assume weak fairness of:

* in `ShmSegment`, each posting thread and the taker, the steps of which are
  enabled until they are taken: the taker is the only waiter of its semaphore, and
  nobody takes its token away. For the replies this includes that `write()`
  returns, that is, that the client reads; see the hazard at `main.cpp:83`;
* in `ThreadPool`, each worker, the adder between `push_back` and unlock, and
  `destroy()` once called. A worker's step needs the mutex, which is released
  again and again but may always be somebody else's when it is free; weak fairness
  asks for no more than that it gets the mutex once it stays free, and
  `TaskListDrains` holds with that. Time-outs, spurious wake-ups, failures, new
  tasks and calls of `destroy()` are not fair;
* in `Connections`, the acceptor and each epoll thread. Clients, the database and
  the replies are not fair: a client may be silent for ever, and a request may
  stay unanswered for ever. Within an epoll thread no event is preferred, as
  `ReadHead` takes any event of the batch; what keeps an event from being
  overlooked is that a batch is worked off before the next `epoll_wait`;
* in `Server`, the pool of each queue and its taker, which run while their
  process lives. A pool takes a task only while somebody is on the way to its
  list: a list that was added to while the signal was lost or no thread could be
  created stays as it is (`asleep`), and fairness asks nothing of it until the
  next `addTask`. That a pool does take its tasks otherwise is
  `NobodySleepsOnWork` and `TaskListDrains` of `ThreadPool`. A `write` to a deaf
  client is not fair. Nobody has to start the server, to ask, to die or to fail.

## 5. What is proved

The theorems assume only the named assumptions on the constants
(`SegmentAssumption`, `PoolAssumption`, `StoreAssumption`, `ConnAssumption`,
`ServerAssumption`, `WireAssumption`, `FloatAssumption`, `WidthAssumption`), which
are as weak as stating that bounds
are naturals, sets of threads finite, model values distinct, the client's
packets those of `public.h`, the texts digits with at most one point, and a float
exact to one part in ten or better. They hold for any number of threads, packets,
blocks, words, cards, telephones, tasks, clients, connections, rows, starts,
deaths and failures, for texts of any length, and for ints and floats of any
width. Every safety property of the
passing runs has its theorem.

| Module | Theorem | States |
|---|---|---|
| `ShmSegmentProofs` | `TypeCorrect` | every block touched is one of the segment's |
| | `NoUnfilledBlockCorrect` | `Spec => []NoUnfilledBlock` |
| | `AnnouncedCorrect` | `Spec => []NeverMoreThanAnnounced` |
| | `LossyRefinement` | `Spec => ImplementsLossyMailbox` |
| `ShmStackProofs` | `StrandedCorrect` | `Spec => []NoStrandedBlock` |
| | `LifoCorrect` | `Spec => LifoUntilOverlap` |
| `ThreadPoolProofs` | `TypeCorrect` | `Spec => []TypeOK`: no counter falls below zero, also when `destroy()` lets threads race on them |
| | `TakersCorrect` | `Spec => []TakersFindTheirTask`, also after the wait of `destroy()` |
| | `QueueRefinement` | `Spec => ImplementsTaskQueue` |
| | `CountsCorrect` | `Spec => []CountsAreExact` |
| | `SleepersCorrect` | `Spec => []NobodySleepsOnWork` |
| `CardStoreProofs` | `TypeCorrect`, `OrderCorrect`, `StockCorrect` | the parts of `IInv` |
| | `MoneyCorrect` | `Spec => []NoMoneyFromNowhere`: no money but what was credited and what roundings may add, however coarse the float |
| | `AnsweredCorrect` | `Spec => []CreditsAreAnswered` |
| | `LedgerCorrect` | `Spec => LedgerUntilOverlap` |
| `ConnectionsProofs` | `TypeCorrect` | `Spec => []TypeOK`: `min_epid_onlineuser` always finds a thread |
| | `WatchedByOneCorrect`, `SumIsSizeCorrect` | epoll sets and their counters |
| | `BalancedCorrect` | `Spec => []Balanced`, for any number of epoll threads |
| | `RepliesGoHomeCorrect` | `Spec => []RepliesGoHome` |
| `ServerProofs` | `TypeCorrect` | `Spec => []TypeOK`: every counter stays within its segment |
| | `OneServerCorrect` | `Spec => []OneServer` |
| | `StaleCorrect` | `Spec => []StaleNeedsRace` |
| `ServerMatchProofs` | `MatchCorrect` | `Spec => []MatchUnlessRaced` |
| | `NoneLostCorrect` | `Spec => []NoneLostNoneTwice` |
| | `ExchangeCorrect` | `Spec => ExchangeUntilTrouble`: the server implements `Exchange` until trouble |
| `WireProofs` | `TypeCorrect` | `Spec => []TypeOK` |
| | `InStepCorrect` | `Spec => []InStepUntilShort` |
| | `FitsCorrect` | `Spec => []EverythingFits` |
| | `NumberCorrect` | `Spec => []NumberTellsWhatFollows` |
| | `TextsCorrect` | `Spec => []TextsAreReadRight`: to the last digit for an int, to within the roundings for a float |

### The arguments

* **Segment.** `NoUnfilledBlock` is not inductive: a thread may store a counter
  that is arbitrarily old and larger than the current one. `IInv` adds, for each
  thread and for the taker, that the blocks below the local `used_sum` were filled
  and so were the words of its own that it has copied (`ThreadInv`,
  `ConsumerInv`). Filled blocks stay filled, since every write puts in a packet of
  this run; so a stale store is harmless to this property. A restart empties the
  counter and resets every actor, which is why old contents of the segment never
  count. The refinement follows: a block handed over has only words of packets
  begun in this run, and uses up the token the taker holds.
* **The segment as a stack.** `LifoUntilOverlap` and `NoStrandedBlock` need, on
  top of `IInv`, that until the first overlap whoever is between load and store
  is alone there: its `used_sum` is about the block the shared counter is about,
  and what it has copied so far is of one packet (`AloneInv`). `NoStrandedBlock`
  counts the tokens against the blocks; the threads about to post are counted
  with `Cardinality`, so they must be finitely many (`GivenInv`). With `AloneInv`
  each step is a push of the packet a thread copied, a pop of the top block, a
  restart, or a stutter of `LifoMailbox`.
* **Pool.** Until `destroy()` waits, the mutex says who may touch the list
  (`MutexGuards`, a part of the invariant and no result: it ends with that wait).
  `TakingInv` says what a thread that takes a task finds; `PlacesInv` that a task
  is in one place; and `ClearedInv` why the wait without the mutex spoils neither:
  it comes after the list was cleared, nothing enters a stopped pool, and a thread
  that gets the mutex then leaves. The counters are the ones it may spoil: two
  threads that leave may both store what they loaded of `m_count` less one, which
  loses one decrement and never makes one too many. `CountsAreExact`
  and `NobodySleepsOnWork` are about the cardinalities of sets of workers by
  control state: each action moves one worker from one set to another, and the
  lemmas say what that does to the sizes. The counters also need that what a
  leaving thread loaded of `m_count` is still its value (`LoadedInv`) and that
  nothing runs before `start()` (`StartedInv`).
* **Store.** `IInv` has what a recharge may rely on although the tables change
  under it (`RechargeInv`: its card was sold, the balance it read is covered by
  credits and roundings), what is in a reply (`ReplyInv`) and that only a sale takes a card off
  the shelf (`MarkedInv`). `CreditsAreAnswered` counts threads, and its proof is
  about the cardinality of `Owing`. `LedgerCorrect` needs a second invariant,
  `SoloInv`: until an overlap, a torn request or a failed update at most one
  thread is inside its statements, and what it has read is still so (`Fresh`).
  Failing statements weaken none of these: `Booked` takes the place of `credits`
  wherever a thread, rather than the table, is the witness.
* **Connections.** An fd is in the acceptor's hand, in one epoll set, or free, and
  a batch has only fds of its thread (`WatchedByOne` is inductive with `HandInv`
  and `ClientInv`). `SumIsSize` needs that what was loaded of a counter is still
  what it holds while the two sides have not overlapped (`LoadInv`). `Balanced`
  rests on the scan: `min_epid_onlineuser` takes the first smallest of the numbers
  copied so far, and `ScanInv` says there is one among any first few (the `CHOOSE`
  is well defined), and `SpreadInv` that without closes what was copied is
  what the counters hold.
* **Server.** `OneServer` is not inductive alone: nothing in it keeps two starts
  from holding the port together, which `PortInv` adds. `TypeOK` needs that the
  blocks below any counter, those that actors hold included, were filled by some
  server (`CountInv`). `StaleNeedsRace` has two halves, with an invariant for
  each. While no start was crowded, starts come one at a time, find nobody, and
  zero both counters (`AloneInv`), so that all there is below a counter is of the
  server that runs (`OursInv`). And while actors have not overlapped, at most one
  is inside, with the counter as it is, and each token of the semaphore stands
  for a block of this server at the top of the stack (`RaceInv`): what an older
  server left lies below and is never reached. Both begin anew with a server,
  because one that died left no tasks and no actor in the middle of something
  (`DeadInv`).
* **A reply for the one who waits.** `MatchUnlessRaced` says nothing of the
  packets on their way. `On(q, k, x)` is a *place*: a task in a list, a thread
  with a packet loaded, a block a token stands for, the taker's hand, of either
  queue; `At(q, k, x)` is the packet there. `WaitedInv` says that each such packet
  is the one its client waits for, `OnceInv` that a client has packets at no two
  places, and both hold of the two segments and the two pools together. Each
  action takes a packet from one place to the next, and the only new packets are
  those of clients that wait for nothing. What an older server left in the blocks
  is in no place.
* **None lost, none twice.** `MatchInv` is the half that says *at most one packet,
  and the right one*. The other half is `SomewhereInv`: what a client waits for is
  at some place. It is not enough to look at the clients: each action is shown
  to keep every packet in its queue (`NothingMoves`, with one lemma for each of
  `Load`, `Post`, `Take` and `Store`, since a packet changes its place within the
  queue), but for the one a taker hands over. The end of a connection is part of
  it, since the clients of a network process that died wait for nothing.
* **The exchange.** From both halves, `WhereInv`: the queue of a client that waits
  is the one that has its packet, and a client that does not wait is in none. The
  steps that move nothing (`Quiet`) then change nothing of `Exchange`; `Ask`, the
  dispatcher's hand-over and that of `handler()` are its three actions, for the
  client whose packet it is, and change nothing for every other (`UnmovedFor`). A
  number is used once since the numbers that clients wait for are at most `asked`
  (`AskedInv`). A new server starts with nobody waiting.
* **Wire.** The inductive invariant says where `Run()` stands: behind the k-th
  packet, or between the head and the body of the one that follows (`PlaceInv`),
  and that the tasks so far are the requests read. The ends of packets, the
  offsets of fields and the requests read are recursive functions, and what is
  said of them holds for every argument. The library's induction theorems take
  an operator as a parameter and cannot be used; the lemmas take the *least*
  number their claim is false of instead (`LeastNat`, which follows from the
  well-foundedness of the naturals). `Recursion` says by it that a recursive
  definition has a function, `OneFunction` that it has only one, and `Agreeing`
  that two functions that agree at 0 and go on agreeing agree up to the end.
  `SizesAre` computes the structs of `public.h` field by field; `FitsCorrect`
  follows from the numbers.
* **Texts.** In whole numbers: `char_to_float` reads the fraction from its last digit back, dividing
  by ten at each turn, and `Decimal` adds up digits from the first. The lemmas
  meet in the middle: what the loop should have at character i is 10^(i-p) times
  what the digits from i on add to the sum, p being the index of the point; what
  the other loop has of the digits before the point is the sum so far, in the unit
  of the last of them (`BeforePoint`). Both are inductions over the text, upward
  or downward (`Upward`, `Downward`), and rest on 10^a times 10^b being 10^(a+b)
  (`Power10Sum`). With roundings: each turn divides what the turns before were off
  by, and adds one rounding of its own, so that all together stay within two of
  them and the result within one (`BehindPoint`). Before the point nothing is
  rounded while a float holds every whole number on the way (`PreIs`), and that is
  so when it holds the whole part, since digits only make it grow
  (`SpelledGrows`). The same is said of the int (`IntIs`). The sum is rounded once
  more, by no more than the larger of the two may be (`ErrorWithin`).

### What is only model-checked

* **Liveness**: `BegunIsHandedOver`, `TokensAreConsumed`, `TaskListDrains`,
  `ThreadsLeave`, `SentIsRead` and `AnsweredUnlessTrouble`. Fairness, that is,
  `ENABLED`, is out of the prover's reach.

## 6. What the code does against its comments

| Run | The comment | What happens |
|---|---|---|
| `ShmWhole` | `main.cpp:77`, `81`: find the client's fd; find the data to write back to that client | two posters that loaded the same counter copy into the same block; the block handed over has the fd of one packet and the data of the other |
| `PoolLostWakeup` | `ThreadPool.cpp:221`: a waiting thread is woken to process the task | a thread that timed out counts as waiting until it has the mutex; `addTask` signals nobody and creates nobody, the thread leaves without looking at the list |
| `StoreSoldTwice` | `UnicomMini.sql:17`: 0 not bought, 1 bought | two purchases list the same card before either marks it |
| `StoreCreditedTwice` | `public.h:72`: 3, already recharged | a crash between the update of the balance (`OperationThread.cpp:221`) and that of the card (`225`): the card is credited again |
| `ServerLone` | `public.h:42`: the client asks and is answered, then confirms and is answered | a taker stores the counter it loaded before `addTask` (`main.cpp:295-297`) or `write` (`83-87`); a block posted in between is forgotten, and a lone client that sends its second request as soon as it has the first answer waits for ever |

`TaskListDrains` and `NobodySleepsOnWork`, in `Pool`, bound the damage of the lost
wake-up: it happens only when every thread is gone, and the next `addTask` repairs
it.

`ThreadsLeave` says what can be said of `destroy()`, which a comment says stops
the pool (`ThreadPool.h:31`): all threads leave, or it returned before. That it
returns cannot be promised. It waits once, for a signal that only the last thread
gives on its way out (`ThreadPool.cpp:196-199`), so that of a pool whose threads
have left on time-out, or before it waits, it never hears. The program calls it
nowhere.

A further comment, `main.cpp:108`, says that a segment that exists is cleared
away first; `shmctl` gets the key instead of the id (`main.cpp:111`), removes
nothing, and the blocks of the earlier run stay. `NoUnfilledBlock` and
`StaleNeedsRace` show that the zeroed counter hides them, but for overlaps.

## 7. Abstractions, and what is not modelled

* **Data.** A packet is a model value that fills each word of its block; in
  `Wire`, bytes are counted and have no values.
* **Money** is a natural number in `CardStore`, in the smallest unit that the
  text of a balance shows; the database keeps text, and `Conversions` has what the
  code reads in it. A float is modelled by how far a rounding may be off, one part
  in `Precision` and one unit (`Floats`), never by its bits: the models allow every
  result the hardware may give, and more. An amount so large that a float no
  longer holds its whole part, or a time that an int does not hold, is read as
  `Conversions` says, and nothing is claimed of it.
* **Rows behind a result** (`SellOverrun`) and a row read through NULL
  (`ConfirmFails`) are undefined behaviour; the model has the outcomes of the
  build: a text that is the number of no card, or the end of the process.
* **A reply longer than `buff`** is in `Wire`, which says which replies these are
  and not what becomes of the memory behind it.
* **Unknown packet types** in `Connections` are packets without a body, as in
  `Run()`; in `ShmSegment` they do not occur.
* **Memory order.** Each word written is seen by the next step of any actor. The
  code uses plain `memcpy`. On x86 stores become visible in order; `overlapped`
  marks the cases in which the order of two actors' accesses matters, and the
  semaphore orders the rest.
* **epoll_wait** reports at most 20 events; `Wait` reports all that are ready. The
  kernel rotates its ready list, so the others come next.
* **Replies in `Connections`** are one for each request, or none. Two replies for
  one request, which the races of the segments can produce, are not in it.
* **Connections that end** are in `Connections` and not in `Server`, where a
  connection lasts as long as the network process. Both would need the states of
  each at once, and the reuse of an fd does not depend on the segments.
* **Start-up failures** (`shmget`, `shmat`, `fork`) end the program before it
  changes anything that others see, but for the counters that `Clear` zeroes.
* **Not modelled:** the tables `tbl_user`, `tbl_bill` and `tbl_detail`, which are
  only read (an enquiry is answered one way or the other); opening and closing the
  database, where a failed `sqlite3_open` makes every statement fail; `BaseThread`
  (nobody uses it) and `CBaseStream` (it is given an fd and never asked to read or write); the socket wrappers but
  for `Bind` (one call each, at start); `sem_getval`, `sem_setall`, `sem_getall`,
  `sem_close` (no caller); the prebuilt objects and IDE files; the code commented
  out after `main.cpp:405`.

## 8. Plan

What is left, in the order of importance to the system:

1. **The safety half of the liveness properties**: for each of them, the
   invariant its argument rests on, such as the number of tokens and blocks that
   a fair taker counts down, so that only the appeal to fairness is left to TLC.
   For `Server` it is there: with `ExchangeCorrect` each client's request is
   in one queue, and what is left is that each of the eight places is left again.
2. **Connections that end in `Server`**: the reuse of an fd, which `Connections`
   has, beside the segments, as one composition with an invariant for both.
3. **The bits of a float**: which amounts `char_to_float` and `%f` keep exactly,
   and how far a balance drifts that is recharged again and again.
