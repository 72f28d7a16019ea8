----------------------------- MODULE ThreadPool -----------------------------
(***************************************************************************)
(* CThreadPool (ThreadPool.cpp): a list of tasks behind one mutex and one  *)
(* condition variable, worker threads that are created on demand and leave *)
(* after waiting m_waittime seconds for nothing, and destroy().            *)
(*                                                                         *)
(* A worker's part under the mutex is cut where something outside it can   *)
(* interfere: m_bStop is written without the mutex, and destroy() waits on *)
(* the condition variable without holding the mutex.  POSIX leaves that    *)
(* wait undefined; glibc's normal mutex is simply released, whoever holds  *)
(* it, and that is the outcome modelled (DestroyWait).                     *)
(*                                                                         *)
(* One thread adds tasks to each pool of the server (the epoll thread, the *)
(* dispatcher).  The server itself never calls destroy(): MayDestroy.      *)
(***************************************************************************)
EXTENDS Integers, Sequences, FiniteSets

CONSTANTS
  Workers,     \* identities of worker threads, reused after an exit
  Tasks,       \* the tasks that may be added, each once
  NoTask, Free, Adder, Destroyer,
  MaxCount,    \* m_maxCount
  StartCount,  \* the argument of start()
  MaxFails,    \* bound: pthread_create calls that fail
  MayDestroy   \* whether somebody calls destroy(), once

ASSUME PoolAssumption ==
  /\ MaxCount \in Nat \ {0} /\ StartCount \in Nat \ {0} /\ MaxFails \in Nat
  /\ NoTask \notin Tasks
  /\ {Free, Adder, Destroyer} \intersect Workers = {}
  /\ Free # Adder /\ Free # Destroyer /\ Adder # Destroyer
  /\ IsFiniteSet(Workers) /\ Cardinality(Workers) >= MaxCount
  /\ MayDestroy \in BOOLEAN

VARIABLES
  taskList,   \* m_taskList
  holder,     \* who holds m_mutex
  stop,       \* m_bStop
  waitCount,  \* m_waitCount
  mcount,     \* m_count
  started,    \* start() was called
  wpc,        \* control state of each worker
  wtask,      \* its task
  wcount,     \* the value of m_count it is decrementing
  apc,        \* the adder is between push_back and unlock
  dpc,        \* control state of the thread in destroy()
  fresh, done, dropped,   \* history: where the tasks are
  fails

pool    == <<taskList, holder, stop, waitCount, mcount, started>>
history == <<fresh, done, dropped>>
vars == <<pool, wpc, wtask, wcount, apc, dpc, history, fails>>

(* "none": no thread.  "start": about to lock at the top of the loop.      *)
(* "wait": blocked on the condition variable.  "woken", "timedout": off    *)
(* it, not holding the mutex yet.  "front", "pop": taking a task.          *)
(* "exit", "count", "last": leaving, around m_count--.                     *)
WorkerStates == {"none", "start", "wait", "woken", "timedout", "front", "pop",
                 "run", "exit", "count", "last"}

DestroyStates == {"idle", "stop", "cleared", "broadcast", "waiting", "woken",
                  "done"}

Init ==
  /\ taskList = <<>> /\ holder = Free /\ stop = FALSE
  /\ waitCount = 0 /\ mcount = 0 /\ started = FALSE
  /\ wpc = [w \in Workers |-> "none"]
  /\ wtask = [w \in Workers |-> NoTask]
  /\ wcount = [w \in Workers |-> 0]
  /\ apc = FALSE /\ dpc = "idle"
  /\ fresh = Tasks /\ done = {} /\ dropped = {}
  /\ fails = MaxFails

-----------------------------------------------------------------------------
Sleepers(states) == {w \in Workers : states[w] = "wait"}

(* pthread_cond_signal, the workers being in the given states: one blocked *)
(* thread wakes up; with nobody blocked, the signal is lost.               *)
Signal(states) ==
  \/ /\ \E w \in Sleepers(states) : wpc' = [states EXCEPT ![w] = "woken"]
     /\ UNCHANGED dpc
  \/ dpc = "waiting" /\ dpc' = "woken" /\ wpc' = states
  \/ Sleepers(states) = {} /\ dpc # "waiting" /\ wpc' = states /\ UNCHANGED dpc

(* Faulty variant: the limit is tested after the fact. *)
MayCreateOneMore == mcount <= MaxCount /\ ~stop

(* createThread()'s test. *)
MayCreate == mcount < MaxCount /\ ~stop

(* createThread(): a new worker, or a pthread_create that fails. *)
CreateThread ==
  \/ /\ MayCreate
     /\ \E w \in Workers :
          wpc[w] = "none" /\ wpc' = [wpc EXCEPT ![w] = "start"]
     /\ mcount' = mcount + 1 /\ UNCHANGED fails
  \/ MayCreate /\ fails > 0 /\ fails' = fails - 1 /\ UNCHANGED <<wpc, mcount>>
  \/ ~MayCreate /\ UNCHANGED <<wpc, mcount, fails>>

(* start(n): min(n, m_maxCount) calls of createThread under the mutex, of  *)
(* which some may fail.                                                    *)
Start ==
  /\ ~started /\ holder = Free
  /\ started' = TRUE
  /\ \E new \in SUBSET {w \in Workers : wpc[w] = "none"}, failed \in 0 .. fails :
       /\ Cardinality(new) + failed
            = (IF StartCount > MaxCount THEN MaxCount ELSE StartCount)
       /\ wpc' = [w \in Workers |-> IF w \in new THEN "start" ELSE wpc[w]]
       /\ mcount' = mcount + Cardinality(new)
       /\ fails' = fails - failed
  /\ UNCHANGED <<taskList, holder, stop, waitCount, wtask, wcount, apc, dpc,
                 history>>

(* addTask(), first half: lock, and push_back unless the pool is stopped;  *)
(* a refused task is the caller's to delete, and no caller does.           *)
AddTask(t) ==
  /\ started /\ ~apc /\ holder = Free /\ t \in fresh
  /\ fresh' = fresh \ {t}
  /\ \/ /\ ~stop
        /\ taskList' = Append(taskList, t)
        /\ holder' = Adder /\ apc' = TRUE
        /\ UNCHANGED dropped
     \/ /\ stop
        /\ dropped' = dropped \union {t}
        /\ UNCHANGED <<taskList, holder, apc>>
  /\ UNCHANGED <<stop, waitCount, mcount, started, wpc, wtask, wcount, dpc,
                 done, fails>>

(* Faulty variant: a thread is created or nobody is told. *)
AddTaskNotifyNoSignal ==
  /\ apc
  /\ \/ waitCount > 0 /\ UNCHANGED <<wpc, dpc, mcount, fails>>
     \/ waitCount = 0 /\ CreateThread /\ UNCHANGED dpc
  /\ holder' = Free /\ apc' = FALSE
  /\ UNCHANGED <<taskList, stop, waitCount, started, wtask, wcount, history>>

(* addTask(), second half: signal if somebody counts as waiting, else      *)
(* create a thread; unlock.                                                *)
AddTaskNotify ==
  /\ apc
  /\ \/ waitCount > 0 /\ Signal(wpc) /\ UNCHANGED <<mcount, fails>>
     \/ waitCount = 0 /\ CreateThread /\ UNCHANGED dpc
  /\ holder' = Free /\ apc' = FALSE
  /\ UNCHANGED <<taskList, stop, waitCount, started, wtask, wcount, history>>

-----------------------------------------------------------------------------
(* Nobody has waited on the condition variable without the mutex yet.      *)
Disciplined == dpc \notin {"waiting", "woken", "done"}

Goto(w, from, to) == wpc[w] = from /\ wpc' = [wpc EXCEPT ![w] = to]

(* Top of rontine()'s loop: lock; leave if stopped; wait if the list is    *)
(* empty (which unlocks); else keep the mutex and take a task.             *)
Top(w) ==
  /\ holder = Free
  /\ \/ stop /\ Goto(w, "start", "exit") /\ holder' = w /\ UNCHANGED waitCount
     \/ /\ ~stop /\ taskList = <<>>
        /\ Goto(w, "start", "wait")
        /\ waitCount' = waitCount + 1
        /\ UNCHANGED holder
     \/ /\ ~stop /\ taskList # <<>>
        /\ Goto(w, "start", "front")
        /\ holder' = w /\ UNCHANGED waitCount
  /\ UNCHANGED <<taskList, stop, mcount, started, wtask, wcount, apc, dpc,
                 history, fails>>

(* m_waittime seconds passed. *)
Timeout(w) ==
  /\ Goto(w, "wait", "timedout")
  /\ UNCHANGED <<pool, wtask, wcount, apc, dpc, history, fails>>

(* A condition variable may wake a thread without a signal. *)
SpuriousWakeup(w) ==
  /\ Goto(w, "wait", "woken")
  /\ UNCHANGED <<pool, wtask, wcount, apc, dpc, history, fails>>

(* pthread_cond_timedwait returns with the mutex: a thread that timed out  *)
(* leaves at once, without another look at the list; a woken one takes a   *)
(* task if there still is one.  (m_waitCount-- can be lost to a thread     *)
(* that destroy()'s wait let in.)                                          *)
Reacquire(w) ==
  /\ holder = Free
  /\ \/ waitCount' = waitCount - 1
     \/ ~Disciplined /\ UNCHANGED waitCount
  /\ \/ Goto(w, "timedout", "exit") /\ holder' = w
     \/ taskList # <<>> /\ Goto(w, "woken", "front") /\ holder' = w
     \/ taskList = <<>> /\ Goto(w, "woken", "start") /\ UNCHANGED holder
  /\ UNCHANGED <<taskList, stop, mcount, started, wtask, wcount, apc, dpc,
                 history, fails>>

(* Faulty variant: the thread goes on with the task it does not have. *)
FrontForgotten(w) ==
  /\ Goto(w, "front", "pop")
  /\ UNCHANGED <<pool, wtask, wcount, apc, dpc, history, fails>>

(* m_taskList.front() *)
Front(w) ==
  /\ Goto(w, "front", "pop")
  /\ wtask' = [wtask EXCEPT ![w] = Head(taskList)]
  /\ UNCHANGED <<pool, wcount, apc, dpc, history, fails>>

(* Faulty variant: the task stays in the list. *)
PopForgotten(w) ==
  /\ Goto(w, "pop", "run")
  /\ holder' = Free
  /\ UNCHANGED <<taskList, stop, waitCount, mcount, started, wtask, wcount,
                 apc, dpc, history, fails>>

(* pop_front(); unlock *)
Pop(w) ==
  /\ Goto(w, "pop", "run")
  /\ taskList' = Tail(taskList)
  /\ holder' = Free
  /\ UNCHANGED <<stop, waitCount, mcount, started, wtask, wcount, apc, dpc,
                 history, fails>>

(* task->run(); delete task *)
RunTask(w) ==
  /\ Goto(w, "run", "start")
  /\ done' = done \union {wtask[w]}
  /\ wtask' = [wtask EXCEPT ![w] = NoTask]
  /\ UNCHANGED <<pool, wcount, apc, dpc, fresh, dropped, fails>>

(* m_count--, load and store. *)
ExitLoad(w) ==
  /\ Goto(w, "exit", "count")
  /\ wcount' = [wcount EXCEPT ![w] = mcount]
  /\ UNCHANGED <<pool, wtask, apc, dpc, history, fails>>

ExitStore(w) ==
  /\ Goto(w, "count", "last")
  /\ mcount' = wcount[w] - 1
  /\ UNCHANGED <<taskList, holder, stop, waitCount, started, wtask, wcount,
                 apc, dpc, history, fails>>

(* The last thread of a stopped pool signals destroy(); unlock; exit. *)
Exit(w) ==
  /\ wpc[w] = "last"
  /\ LET left == [wpc EXCEPT ![w] = "none"]
     IN  IF mcount <= 0 /\ stop THEN Signal(left)
                                ELSE wpc' = left /\ UNCHANGED dpc
  /\ holder' = Free
  /\ UNCHANGED <<taskList, stop, waitCount, mcount, started, wtask, wcount,
                 apc, history, fails>>

WorkerStep(w) ==
  \/ Top(w) \/ Reacquire(w) \/ Front(w) \/ Pop(w) \/ RunTask(w)
  \/ ExitLoad(w) \/ ExitStore(w) \/ Exit(w)

-----------------------------------------------------------------------------
(* destroy(): m_bStop is set before the mutex is taken. *)
DestroyStop ==
  /\ MayDestroy /\ started /\ dpc = "idle"
  /\ dpc' = "stop" /\ stop' = TRUE
  /\ UNCHANGED <<taskList, holder, waitCount, mcount, started, wpc, wtask,
                 wcount, apc, history, fails>>

(* Faulty variant: the list is cleared before the mutex is taken. *)
DestroyClearUnlocked ==
  /\ dpc = "stop" /\ dpc' = "cleared"
  /\ dropped' = dropped \union {taskList[i] : i \in 1 .. Len(taskList)}
  /\ taskList' = <<>>
  /\ UNCHANGED <<holder, stop, waitCount, mcount, started, wpc, wtask, wcount,
                 apc, fresh, done, fails>>

(* Under the mutex, the tasks of the list are deleted. *)
DestroyClear ==
  /\ dpc = "stop" /\ holder = Free
  /\ dpc' = "cleared"
  /\ dropped' = dropped \union {taskList[i] : i \in 1 .. Len(taskList)}
  /\ taskList' = <<>>
  /\ UNCHANGED <<holder, stop, waitCount, mcount, started, wpc, wtask, wcount,
                 apc, fresh, done, fails>>

(* Faulty variant: one thread is told that the pool stops. *)
DestroySignal ==
  /\ dpc = "cleared" /\ dpc' = "broadcast"
  /\ \/ \E w \in Sleepers(wpc) : wpc' = [wpc EXCEPT ![w] = "woken"]
     \/ Sleepers(wpc) = {} /\ UNCHANGED wpc
  /\ UNCHANGED <<pool, wtask, wcount, apc, history, fails>>

DestroyBroadcast ==
  /\ dpc = "cleared" /\ dpc' = "broadcast"
  /\ wpc' = [w \in Workers |-> IF wpc[w] = "wait" THEN "woken" ELSE wpc[w]]
  /\ UNCHANGED <<pool, wtask, wcount, apc, history, fails>>

(* wait() without the mutex: it is released, whoever holds it. *)
DestroyWait ==
  /\ dpc = "broadcast" /\ dpc' = "waiting"
  /\ holder' = Free
  /\ UNCHANGED <<taskList, stop, waitCount, mcount, started, wpc, wtask,
                 wcount, apc, history, fails>>

DestroySpuriousWakeup ==
  /\ dpc = "waiting" /\ dpc' = "woken"
  /\ UNCHANGED <<pool, wpc, wtask, wcount, apc, history, fails>>

(* The wait ends by taking the mutex; destroy() returns and keeps it. *)
DestroyReturn ==
  /\ dpc = "woken" /\ dpc' = "done"
  /\ holder = Free /\ holder' = Destroyer
  /\ UNCHANGED <<taskList, stop, waitCount, mcount, started, wpc, wtask,
                 wcount, apc, history, fails>>

DestroyStep ==
  DestroyClear \/ DestroyBroadcast \/ DestroyWait \/ DestroyReturn

Next ==
  \/ Start \/ AddTaskNotify
  \/ \E t \in Tasks : AddTask(t)
  \/ \E w \in Workers : WorkerStep(w) \/ Timeout(w) \/ SpuriousWakeup(w)
  \/ DestroyStop \/ DestroyStep \/ DestroySpuriousWakeup

Spec == Init /\ [][Next]_vars

(* Threads run when they can, a task's run() returns, and a signal is not  *)
(* delayed for ever.  Timeouts, failures and calls of destroy() are not    *)
(* bound to happen.                                                        *)
FairSpec ==
  /\ Spec
  /\ WF_vars(AddTaskNotify) /\ WF_vars(DestroyStep)
  /\ \A w \in Workers : WF_vars(WorkerStep(w))

-----------------------------------------------------------------------------
(* The variables keep their types; above all, a thread only ever runs a    *)
(* task that was added, and no counter falls below zero, even when         *)
(* destroy() has broken the mutex under which m_count-- was to be done.    *)
TypeOK ==
  /\ taskList \in Seq(Tasks)
  /\ holder \in Workers \union {Free, Adder, Destroyer}
  /\ stop \in BOOLEAN /\ started \in BOOLEAN /\ apc \in BOOLEAN
  /\ waitCount \in Nat /\ mcount \in Nat
  /\ wpc \in [Workers -> WorkerStates]
  /\ wtask \in [Workers -> Tasks \union {NoTask}]
  /\ wcount \in [Workers -> Nat]
  /\ dpc \in DestroyStates
  /\ fresh \subseteq Tasks /\ done \subseteq Tasks /\ dropped \subseteq Tasks
  /\ fails \in Nat

Counted == {w \in Workers : wpc[w] \notin {"none", "last"}}
Waiting == {w \in Workers : wpc[w] \in {"wait", "woken", "timedout"}}

(* m_count and m_waitCount say how many threads there are and how many     *)
(* wait, although a thread that died on timeout, one just created and one  *)
(* in the middle of m_count-- are all told apart by the mutex only; so the *)
(* pool never exceeds its limit.  When destroy() has broken the mutex,     *)
(* decrements are lost, but m_count never says fewer threads than there    *)
(* are: a thread that sees it at zero and signals destroy()                *)
(* (ThreadPool.cpp:196) knows that no other has yet to leave the loop.     *)
CountsAreExact ==
  /\ mcount >= Cardinality(Counted)
  /\ Disciplined =>
       /\ mcount = Cardinality(Counted) /\ mcount <= MaxCount
       /\ waitCount = Cardinality(Waiting)

Taking == {w \in Workers : wpc[w] \in {"front", "pop"}}

(* front() and pop_front() (ThreadPool.cpp:175-176) of a list that         *)
(* somebody emptied, or took from, since the thread looked at its size     *)
(* would be undefined or drop another thread's task.  It never happens,    *)
(* although destroy() clears the list, and then lets go of a mutex that    *)
(* some other thread may hold: one thread at a time takes a task, and the  *)
(* task it copied is still the first when it pops.                         *)
TakersFindTheirTask ==
  /\ \A w, u \in Taking : w = u
  /\ \A w \in Taking :
       /\ taskList # <<>>
       /\ wpc[w] = "pop" => wtask[w] = Head(taskList)

(* While some thread sleeps on the condition variable, every task in the   *)
(* list has a thread of its own that is awake and on its way to the list,  *)
(* or addTask() is about to wake one: no signal is lost between the test   *)
(* of the list and the wait, and no thread that was woken for a task       *)
(* leaves without looking at the list, though running threads come back    *)
(* and take tasks ahead of it.                                             *)
NobodySleepsOnWork ==
  Sleepers(wpc) # {} =>
    Len(taskList) <= (IF apc THEN 1 ELSE 0)
                       + Cardinality({w \in Workers :
                                        wpc[w] \in {"woken", "front", "pop"}})

Running == {wtask[w] : w \in {u \in Workers : wpc[u] = "run"}}

Queue == INSTANCE TaskQueue WITH pending <- taskList, running <- Running

(* The pool is a first-in first-out queue of tasks run at most once, even  *)
(* when destroy() breaks the mutex.                                        *)
ImplementsTaskQueue == Queue!Spec

NoThread == \A w \in Workers : wpc[w] = "none"

(* destroy() stops the pool (ThreadPool.h:31): its broadcast reaches every *)
(* thread that sleeps, and each thread leaves, although the wait without   *)
(* the mutex may let two of them leave at once and spoil m_count; unless   *)
(* destroy() returned before, with the mutex that they need.  (It returns  *)
(* only if a last thread signals it while it waits, so of a pool without   *)
(* threads never.)                                                         *)
ThreadsLeave == dpc = "stop" ~> (NoThread \/ dpc = "done")

(* Every task in the list is taken in the end, unless all threads are gone *)
(* (the last one having timed out just as the task was added).             *)
TaskListDrains == taskList # <<>> ~> (taskList = <<>> \/ NoThread)

-----------------------------------------------------------------------------
(* What comments of the code say, and the code does not do.                *)

(* ThreadPool.cpp:221: if a thread is waiting, a signal wakes it up to     *)
(* process the task.                                                       *)
AddedTaskIsProcessed == taskList # <<>> ~> taskList = <<>>
=============================================================================
