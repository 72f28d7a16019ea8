-------------------------- MODULE ThreadPoolProofs --------------------------
(***************************************************************************)
(* Proofs about ThreadPool, for every number of workers and tasks, whether *)
(* or not destroy() is called.                                             *)
(***************************************************************************)
EXTENDS ThreadPool, FiniteSetTheorems, TLAPS

(* Until destroy() waits without the mutex, at most one thread is in the   *)
(* part of rontine() under it, and it is the holder.                       *)
MutexGuards ==
  Disciplined =>
    /\ \A w \in Workers :
         wpc[w] \in {"front", "pop", "exit", "count", "last"} => holder = w
    /\ apc => holder = Adder

InList(t) == \E i \in 1 .. Len(taskList) : taskList[i] = t

(* A thread that takes a task has the mutex and finds the list as it was.  *)
TakingInv(w) ==
  /\ wpc[w] \in {"front", "pop"} => holder = w /\ taskList # <<>>
  /\ wpc[w] = "pop" => wtask[w] = Head(taskList)
  /\ wpc[w] = "run" => wtask[w] \in Tasks

(* destroy() clears the list under the mutex, and nothing enters it after  *)
(* that: what DestroyWait breaks comes too late to reach a task.           *)
ClearedInv ==
  /\ stop <=> dpc # "idle"
  /\ apc => holder = Adder
  /\ dpc \notin {"idle", "stop"} =>
       /\ taskList = <<>> /\ ~apc
       /\ \A w \in Workers : wpc[w] \notin {"front", "pop"}

(* A task is in one place at a time, and one thread runs it. *)
PlacesInv ==
  /\ \A i, j \in 1 .. Len(taskList) : taskList[i] = taskList[j] => i = j
  /\ \A i \in 1 .. Len(taskList) : taskList[i] \notin fresh \union done \union dropped
  /\ \A w \in Workers : wpc[w] = "run" =>
       /\ wtask[w] \notin fresh \union done \union dropped
       /\ ~InList(wtask[w])
       /\ \A u \in Workers : wpc[u] = "run" /\ wtask[u] = wtask[w] => u = w
  /\ fresh \intersect (done \union dropped) = {}

(* Before start() there is nobody to count. *)
StartedInv ==
  ~started => /\ mcount = 0 /\ ~apc
              /\ \A w \in Workers : wpc[w] = "none"

(* What a leaving thread loaded of m_count is still its value. *)
LoadedInv ==
  Disciplined => \A w \in Workers : wpc[w] = "count" => wcount[w] = mcount

(* The counts until then. *)
ExactInv ==
  Disciplined =>
    /\ mcount = Cardinality(Counted) /\ mcount <= MaxCount
    /\ waitCount = Cardinality(Waiting)

(* The counts ever: a decrement may be lost, never made twice, so there    *)
(* are no more threads than any leaving thread has loaded, or will load.   *)
AtLeastInv ==
  /\ mcount >= Cardinality(Counted) /\ waitCount >= Cardinality(Waiting)
  /\ \A w \in Workers :
       wpc[w] = "count" => wcount[w] >= Cardinality(Counted)

(* Threads that are awake and on their way to the list. *)
Heading == {w \in Workers : wpc[w] \in {"woken", "front", "pop"}}

(* The inductive invariant: MutexGuards says who may change the list and   *)
(* the counters, the rest what it then finds.                              *)
IInv ==
  /\ TypeOK
  /\ MutexGuards
  /\ ClearedInv
  /\ \A w \in Workers : TakingInv(w)
  /\ PlacesInv
  /\ StartedInv
  /\ LoadedInv
  /\ ExactInv
  /\ AtLeastInv
  /\ NobodySleepsOnWork
-----------------------------------------------------------------------------
(* Workers are finitely many, so that sets of them can be counted. *)
LEMMA WorkersCount ==
  ASSUME NEW S \in SUBSET Workers
  PROVE  /\ IsFiniteSet(S) /\ Cardinality(S) \in Nat
         /\ \A w \in Workers :
              /\ Cardinality(S \union {w})
                   = Cardinality(S) + (IF w \in S THEN 0 ELSE 1)
              /\ Cardinality(S \ {w})
                   = Cardinality(S) - (IF w \in S THEN 1 ELSE 0)
<1>1. IsFiniteSet(S) /\ Cardinality(S) \in Nat
  BY PoolAssumption, FS_Subset, FS_CardinalityType DEF PoolAssumption
<1>2. ASSUME NEW w \in Workers
      PROVE  Cardinality(S \union {w})
               = Cardinality(S) + (IF w \in S THEN 0 ELSE 1)
  BY <1>1, FS_AddElement
<1>3. ASSUME NEW w \in Workers
      PROVE  Cardinality(S \ {w})
               = Cardinality(S) - (IF w \in S THEN 1 ELSE 0)
  <2>1. Cardinality(S \ {w})
          = IF w \in S THEN Cardinality(S) - 1 ELSE Cardinality(S)
    BY <1>1, FS_RemoveElement, Zenon
  <2> QED
    BY <1>1, <2>1
<1> QED
  BY <1>1, <1>2, <1>3

LEMMA NotNobody ==
  ASSUME NEW S \in SUBSET Workers, NEW w \in S
  PROVE  Cardinality(S) \in Nat /\ Cardinality(S) >= 1
<1>1. w \in Workers /\ S \ {w} \in SUBSET Workers
  OBVIOUS
<1>2. /\ Cardinality(S) \in Nat /\ Cardinality(S \ {w}) \in Nat
      /\ Cardinality(S \ {w}) = Cardinality(S) - 1
  BY <1>1, WorkersCount
<1> QED
  BY <1>2

(* What a signal and a createThread() may change. *)
LEMMA SignalStates ==
  ASSUME NEW states \in [Workers -> WorkerStates], Signal(states),
         dpc \in DestroyStates
  PROVE  /\ wpc' \in [Workers -> WorkerStates]
         /\ \A w \in Workers : \/ wpc'[w] = states[w]
                               \/ states[w] = "wait" /\ wpc'[w] = "woken"
         /\ dpc' = dpc \/ (dpc = "waiting" /\ dpc' = "woken")
BY DEF Signal, Sleepers, WorkerStates, DestroyStates

LEMMA CreateStates ==
  ASSUME TypeOK, CreateThread
  PROVE  /\ wpc' \in [Workers -> WorkerStates]
         /\ \A w \in Workers : \/ wpc'[w] = wpc[w]
                               \/ wpc[w] = "none" /\ wpc'[w] = "start"
         /\ mcount' \in Nat /\ fails' \in Nat
<1> USE DEF TypeOK, WorkerStates
<1>1. CASE MayCreate /\ mcount' = mcount + 1 /\ fails' = fails
  BY <1>1 DEF CreateThread
<1>2. CASE UNCHANGED <<wpc, mcount>> /\ fails > 0 /\ fails' = fails - 1
  BY <1>2
<1>3. CASE UNCHANGED <<wpc, mcount, fails>>
  BY <1>3
<1> QED
  BY <1>1, <1>2, <1>3 DEF CreateThread

LEMMA TypeInit == Init => TypeOK
<1> SUFFICES ASSUME Init PROVE TypeOK
  OBVIOUS
<1> USE DEF Init
<1>1. stop \in BOOLEAN /\ started \in BOOLEAN /\ apc \in BOOLEAN
  OBVIOUS
<1>2. /\ taskList \in Seq(Tasks) /\ waitCount \in Nat /\ mcount \in Nat
      /\ wpc \in [Workers -> WorkerStates] /\ wcount \in [Workers -> Nat]
      /\ wtask \in [Workers -> Tasks \union {NoTask}] /\ dpc \in DestroyStates
  BY DEF WorkerStates, DestroyStates
<1>3. holder \in Workers \union {Free, Adder, Destroyer} /\ fails \in Nat
  BY PoolAssumption DEF PoolAssumption
<1> QED
  BY <1>1, <1>2, <1>3 DEF TypeOK

LEMMA TypeNext ==
  ASSUME TypeOK, ClearedInv, AtLeastInv, \A w \in Workers : TakingInv(w),
         [Next]_vars
  PROVE  TypeOK'
<1> USE PoolAssumption DEF PoolAssumption, TypeOK, pool, history
<1>1. CASE Start
  <2>1. PICK new \in SUBSET {w \in Workers : wpc[w] = "none"}, failed \in 0 .. fails :
          /\ wpc' = [w \in Workers |-> IF w \in new THEN "start" ELSE wpc[w]]
          /\ mcount' = mcount + Cardinality(new)
          /\ fails' = fails - failed
    BY <1>1 DEF Start
  <2>2. Cardinality(new) \in Nat
    BY FS_CardinalityType, FS_Subset
  <2>3. mcount' \in Nat /\ fails' \in Nat
    BY <2>1, <2>2
  <2>4. wpc' \in [Workers -> WorkerStates]
    BY <2>1 DEF WorkerStates
  <2> QED
    BY <1>1, <2>3, <2>4 DEF Start
<1>2. ASSUME NEW t \in Tasks, AddTask(t) PROVE TypeOK'
  <2>1. apc' \in BOOLEAN
    BY <1>2 DEF AddTask
  <2>2. /\ fresh' = fresh \ {t}
        /\ taskList' = Append(taskList, t) \/ taskList' = taskList
        /\ dropped' = dropped \union {t} \/ dropped' = dropped
        /\ holder' = Adder \/ holder' = holder
    BY <1>2, Zenon DEF AddTask
  <2>3. /\ fresh' \subseteq Tasks /\ dropped' \subseteq Tasks
        /\ taskList' \in Seq(Tasks)
        /\ holder' \in Workers \union {Free, Adder, Destroyer}
    <3>1. Append(taskList, t) \in Seq(Tasks)
      OBVIOUS
    <3>2. fresh' \subseteq Tasks /\ dropped' \subseteq Tasks
      BY <2>2
    <3> QED
      BY <2>2, <3>1, <3>2
  <2>4. UNCHANGED <<stop, waitCount, mcount, started, wpc, wtask, wcount, dpc,
                    done, fails>>
    BY <1>2, Zenon DEF AddTask
  <2> QED
    BY <2>1, <2>3, <2>4
<1>3. CASE AddTaskNotify
  <2>1. /\ wpc' \in [Workers -> WorkerStates] /\ dpc' \in DestroyStates
        /\ mcount' \in Nat /\ fails' \in Nat
    <3>1. CASE waitCount > 0 /\ Signal(wpc) /\ UNCHANGED <<mcount, fails>>
      BY <3>1, SignalStates DEF DestroyStates
    <3>2. CASE CreateThread /\ UNCHANGED dpc
      BY <3>2, CreateStates
    <3> QED
      BY <1>3, <3>1, <3>2 DEF AddTaskNotify
  <2> QED
    BY <1>3, <2>1 DEF AddTaskNotify
<1>4. ASSUME NEW w \in Workers, Top(w) \/ Timeout(w) \/ SpuriousWakeup(w) \/ Reacquire(w)
      PROVE  TypeOK'
  <2>1. \E s \in WorkerStates : wpc' = [wpc EXCEPT ![w] = s]
    BY <1>4, Zenon
    DEF Top, Timeout, SpuriousWakeup, Reacquire, Goto, WorkerStates
  <2>2. wpc' \in [Workers -> WorkerStates]
    BY <2>1
  <2>3. holder' = w \/ holder' = holder
    BY <1>4, Zenon DEF Top, Timeout, SpuriousWakeup, Reacquire
  <2>4. waitCount' \in Nat
    <3>1. CASE waitCount' \in {waitCount, waitCount + 1}
      BY <3>1
    <3>2. CASE Reacquire(w) /\ waitCount' = waitCount - 1
      <4>1. w \in Waiting /\ Waiting \in SUBSET Workers
        BY <3>2, Zenon DEF Reacquire, Goto, Waiting
      <4> QED
        BY <3>2, <4>1, NotNobody DEF AtLeastInv
    <3> QED
      BY <1>4, <3>1, <3>2, Zenon DEF Top, Timeout, SpuriousWakeup, Reacquire
  <2>5. UNCHANGED <<taskList, stop, mcount, started, wtask, wcount, apc, dpc,
                    history, fails>>
    BY <1>4, Zenon DEF Top, Timeout, SpuriousWakeup, Reacquire
  <2> QED
    BY <2>2, <2>3, <2>4, <2>5
<1>5. ASSUME NEW w \in Workers, Front(w) PROVE TypeOK'
  <2>1. Head(taskList) \in Tasks
    BY <1>5 DEF Front, Goto, TakingInv
  <2> QED
    BY <1>5, <2>1 DEF Front, Goto, WorkerStates
<1>6. ASSUME NEW w \in Workers, Pop(w) PROVE TypeOK'
  <2>1. Tail(taskList) \in Seq(Tasks)
    BY <1>6 DEF Pop, Goto, TakingInv
  <2> QED
    BY <1>6, <2>1 DEF Pop, Goto, WorkerStates
<1>7. ASSUME NEW w \in Workers, RunTask(w) PROVE TypeOK'
  <2>1. wtask[w] \in Tasks
    BY <1>7 DEF RunTask, Goto, TakingInv
  <2>2. /\ done' \subseteq Tasks
        /\ wtask' \in [Workers -> Tasks \union {NoTask}]
        /\ wpc' \in [Workers -> WorkerStates]
    BY <1>7, <2>1 DEF RunTask, Goto, WorkerStates
  <2>3. UNCHANGED <<pool, wcount, apc, dpc, fresh, dropped, fails>>
    BY <1>7, Zenon DEF RunTask
  <2> QED
    BY <2>2, <2>3
<1>8. ASSUME NEW w \in Workers, ExitLoad(w) \/ ExitStore(w) PROVE TypeOK'
  <2>1. CASE ExitLoad(w)
    BY <2>1 DEF ExitLoad, Goto, WorkerStates
  <2>2. CASE ExitStore(w)
    <3>1. wpc[w] = "count" /\ mcount' = wcount[w] - 1
      BY <2>2, Zenon DEF ExitStore, Goto
    <3>2. w \in Counted /\ Counted \in SUBSET Workers
      BY <3>1 DEF Counted
    <3>3. mcount' \in Nat
      BY <3>1, <3>2, NotNobody DEF AtLeastInv
    <3> QED
      BY <2>2, <3>3 DEF ExitStore, Goto, WorkerStates
  <2> QED
    BY <1>8, <2>1, <2>2
<1>9. ASSUME NEW w \in Workers, Exit(w) PROVE TypeOK'
  <2> DEFINE left == [wpc EXCEPT ![w] = "none"]
  <2>1. left \in [Workers -> WorkerStates]
    BY DEF WorkerStates
  <2>2. wpc' \in [Workers -> WorkerStates] /\ dpc' \in DestroyStates
    <3>1. CASE Signal(left)
      BY <2>1, <3>1, SignalStates DEF DestroyStates
    <3>2. CASE wpc' = left /\ UNCHANGED dpc
      BY <2>1, <3>2
    <3> QED
      BY <1>9, <3>1, <3>2 DEF Exit
  <2> QED
    BY <1>9, <2>2 DEF Exit
<1>10. CASE DestroyStop
  BY <1>10 DEF DestroyStop, DestroyStates
<1>11. CASE DestroyClear
  <2>1. {taskList[i] : i \in 1 .. Len(taskList)} \subseteq Tasks
    OBVIOUS
  <2> QED
    BY <1>11, <2>1 DEF DestroyClear, DestroyStates
<1>12. CASE DestroyBroadcast
  BY <1>12 DEF DestroyBroadcast, DestroyStates, WorkerStates
<1>13. CASE DestroyWait \/ DestroyReturn \/ DestroySpuriousWakeup
  BY <1>13 DEF DestroyWait, DestroyReturn, DestroySpuriousWakeup, DestroyStates
<1>14. CASE UNCHANGED vars
  BY <1>14 DEF vars
<1> QED
  BY <1>1, <1>2, <1>3, <1>4, <1>5, <1>6, <1>7, <1>8, <1>9, <1>10, <1>11,
     <1>12, <1>13, <1>14 DEF Next, WorkerStep, DestroyStep

-----------------------------------------------------------------------------
Critical == {"front", "pop", "exit", "count", "last"}

(* A step of the threads outside destroy() keeps the mutex exclusive; a    *)
(* step of destroy() does until it waits.                                  *)
LEMMA MutexNext ==
  ASSUME TypeOK, ClearedInv, MutexGuards, [Next]_vars
  PROVE  MutexGuards'
<1> SUFFICES ASSUME Disciplined'
             PROVE  /\ \A w \in Workers : wpc'[w] \in Critical => holder' = w
                    /\ apc' => holder' = Adder
  BY DEF MutexGuards, Critical
<1> USE PoolAssumption DEF PoolAssumption, TypeOK, Critical, pool, history
<1>0. Disciplined
  BY DEF Next, WorkerStep, DestroyStep, Disciplined, Start, AddTask, AddTaskNotify,
         Top, Timeout, SpuriousWakeup, Reacquire, Front, Pop, RunTask, ExitLoad,
         ExitStore, Exit, Signal, DestroyStop, DestroyClear, DestroyBroadcast,
         DestroyWait, DestroyReturn, DestroySpuriousWakeup, vars
<1>m. /\ \A w \in Workers : wpc[w] \in Critical => holder = w
      /\ apc => holder = Adder
  BY <1>0 DEF MutexGuards
<1>1. CASE Start
  <2>1. \A w \in Workers : wpc'[w] = wpc[w] \/ wpc'[w] = "start"
    BY <1>1 DEF Start
  <2>2. UNCHANGED <<holder, apc>>
    BY <1>1, Zenon DEF Start
  <2> QED
    BY <1>m, <2>1, <2>2
<1>2. ASSUME NEW t \in Tasks, AddTask(t) PROVE MutexGuards'
  <2>1. holder = Free /\ wpc' = wpc
    BY <1>2, Zenon DEF AddTask
  <2>2. (holder' = Adder /\ apc') \/ (holder' = holder /\ apc' = apc)
    BY <1>2, Zenon DEF AddTask
  <2> QED
    BY <1>m, <2>1, <2>2 DEF MutexGuards
<1>3. CASE AddTaskNotify
  <2>1. \A w \in Workers : \/ wpc'[w] = wpc[w]
                           \/ wpc'[w] \in {"woken", "start"}
    BY <1>3, SignalStates, CreateStates DEF AddTaskNotify
  <2>2. apc /\ ~apc'
    BY <1>3, Zenon DEF AddTaskNotify
  <2> QED
    BY <1>m, <2>1, <2>2
<1>4. ASSUME NEW w \in Workers, WorkerStep(w) PROVE MutexGuards'
  <2>1. CASE Top(w) \/ Reacquire(w)
    <3>1. holder = Free /\ apc' = apc
      BY <2>1, Zenon DEF Top, Reacquire
    <3>2. \/ holder' = w /\ \E s \in WorkerStates : wpc' = [wpc EXCEPT ![w] = s]
          \/ holder' = holder /\ \E s \in {"wait", "start"} : wpc' = [wpc EXCEPT ![w] = s]
      BY <2>1, Zenon DEF Top, Reacquire, Goto, WorkerStates
    <3> QED
      BY <1>m, <3>1, <3>2 DEF MutexGuards
  <2>2. CASE Front(w) \/ ExitLoad(w) \/ ExitStore(w)
    <3>1. wpc[w] \in Critical /\ holder' = holder /\ apc' = apc
      BY <2>2 DEF Front, ExitLoad, ExitStore, Goto
    <3>2. \E s \in WorkerStates : wpc' = [wpc EXCEPT ![w] = s]
      BY <2>2, Zenon DEF Front, ExitLoad, ExitStore, Goto, WorkerStates
    <3> QED
      BY <1>m, <3>1, <3>2 DEF MutexGuards
  <2>3. CASE Pop(w) \/ RunTask(w)
    <3>1. /\ \/ wpc[w] = "pop" /\ holder' = Free
             \/ wpc[w] = "run" /\ holder' = holder
          /\ apc' = apc
      BY <2>3, Zenon DEF Pop, RunTask, Goto
    <3>2. \E s \in {"run", "start"} : wpc' = [wpc EXCEPT ![w] = s]
      BY <2>3, Zenon DEF Pop, RunTask, Goto
    <3> QED
      BY <1>m, <3>1, <3>2 DEF MutexGuards
  <2>4. CASE Exit(w)
    <3> DEFINE left == [wpc EXCEPT ![w] = "none"]
    <3>1. left \in [Workers -> WorkerStates]
      BY DEF WorkerStates
    <3>2. wpc[w] = "last" /\ (Signal(left) \/ wpc' = left) /\ apc' = apc
      BY <2>4, Zenon DEF Exit
    <3>3. \A u \in Workers : wpc'[u] = left[u] \/ wpc'[u] = "woken"
      BY <3>1, <3>2, SignalStates
    <3> QED
      BY <1>m, <3>2, <3>3 DEF MutexGuards
  <2> QED
    BY <1>4, <2>1, <2>2, <2>3, <2>4 DEF WorkerStep
<1>5. ASSUME NEW w \in Workers, Timeout(w) \/ SpuriousWakeup(w) PROVE MutexGuards'
  <2>1. holder' = holder /\ apc' = apc
    BY <1>5, Zenon DEF Timeout, SpuriousWakeup
  <2>2. \E s \in {"timedout", "woken"} : wpc' = [wpc EXCEPT ![w] = s]
    BY <1>5, Zenon DEF Timeout, SpuriousWakeup, Goto
  <2> QED
    BY <1>m, <2>1, <2>2 DEF MutexGuards
<1>6. CASE DestroyStop \/ DestroyClear \/ UNCHANGED vars
  <2>1. UNCHANGED <<holder, apc, wpc>>
    BY <1>6, Zenon DEF DestroyStop, DestroyClear, vars
  <2> QED
    BY <1>m, <2>1
<1>7. CASE DestroyBroadcast
  <2>1. \A w \in Workers : wpc'[w] = wpc[w] \/ wpc'[w] = "woken"
    BY <1>7 DEF DestroyBroadcast
  <2>2. UNCHANGED <<holder, apc>>
    BY <1>7, Zenon DEF DestroyBroadcast
  <2> QED
    BY <1>m, <2>1, <2>2
<1>8. CASE DestroyWait \/ DestroyReturn \/ DestroySpuriousWakeup
  BY <1>8 DEF DestroyWait, DestroyReturn, DestroySpuriousWakeup, Disciplined
<1>9. ASSUME MutexGuards'
      PROVE  /\ \A w \in Workers : wpc'[w] \in Critical => holder' = w
             /\ apc' => holder' = Adder
  BY <1>9 DEF MutexGuards
<1> QED
  BY <1>1, <1>2, <1>3, <1>4, <1>5, <1>6, <1>7, <1>8, <1>9 DEF Next, DestroyStep

(* The list is empty for good once destroy() has cleared it. *)
LEMMA ClearedNext ==
  ASSUME TypeOK, MutexGuards, ClearedInv,
         \A w \in Workers : TakingInv(w), [Next]_vars
  PROVE  ClearedInv'
<1> USE PoolAssumption DEF PoolAssumption, TypeOK, ClearedInv, pool, history
<1>1. CASE Start
  <2>1. \A w \in Workers : wpc'[w] = wpc[w] \/ wpc'[w] = "start"
    BY <1>1 DEF Start
  <2>2. UNCHANGED <<taskList, holder, stop, apc, dpc>>
    BY <1>1, Zenon DEF Start
  <2> QED
    BY <2>1, <2>2
<1>2. ASSUME NEW t \in Tasks, AddTask(t) PROVE ClearedInv'
  <2>1. UNCHANGED <<stop, wpc, dpc>>
    BY <1>2, Zenon DEF AddTask
  <2>2. \/ ~stop /\ holder' = Adder /\ apc'
        \/ UNCHANGED <<taskList, holder, apc>>
    BY <1>2, Zenon DEF AddTask
  <2> QED
    BY <2>1, <2>2
<1>3. CASE AddTaskNotify
  <2>1. apc /\ ~apc' /\ UNCHANGED <<taskList, stop>>
    BY <1>3, Zenon DEF AddTaskNotify
  <2>2. dpc' = dpc
    BY <1>3, <2>1, SignalStates DEF AddTaskNotify
  <2> QED
    BY <2>1, <2>2
<1>4. ASSUME NEW w \in Workers, WorkerStep(w) PROVE ClearedInv'
  <2>1. CASE Top(w) \/ Reacquire(w)
    <3>1. holder = Free /\ UNCHANGED <<apc, stop, dpc, taskList>>
      BY <2>1, Zenon DEF Top, Reacquire
    <3>2. \E s \in WorkerStates :
            /\ wpc' = [wpc EXCEPT ![w] = s]
            /\ s \in {"front", "pop"} => taskList # <<>>
      BY <2>1 DEF Top, Reacquire, Goto, WorkerStates
    <3> QED
      BY <3>1, <3>2
  <2>2. CASE Front(w) \/ ExitLoad(w) \/ ExitStore(w) \/ RunTask(w)
    <3>1. UNCHANGED <<holder, apc, stop, dpc, taskList>>
      BY <2>2, Zenon DEF Front, ExitLoad, ExitStore, RunTask
    <3>2. \/ wpc[w] = "front"
          \/ \E s \in {"count", "last", "start"} : wpc' = [wpc EXCEPT ![w] = s]
      BY <2>2, Zenon DEF Front, ExitLoad, ExitStore, RunTask, Goto
    <3>3. CASE wpc[w] = "front"
      BY <3>1, <3>3
    <3>4. CASE \E s \in {"count", "last", "start"} : wpc' = [wpc EXCEPT ![w] = s]
      <4>1. \A u \in Workers : wpc'[u] \in {"front", "pop"} => wpc'[u] = wpc[u]
        BY <3>4
      <4> QED
        BY <3>1, <4>1
    <3> QED
      BY <3>2, <3>3, <3>4
  <2>3. CASE Pop(w)
    <3>1. UNCHANGED <<apc, stop, dpc>> /\ wpc[w] = "pop"
      BY <2>3, Zenon DEF Pop, Goto
    <3>2. holder = w
      BY <3>1 DEF TakingInv
    <3> QED
      BY <3>1, <3>2
  <2>4. CASE Exit(w)
    <3> DEFINE left == [wpc EXCEPT ![w] = "none"]
    <3>1. left \in [Workers -> WorkerStates]
      BY DEF WorkerStates
    <3>2. /\ wpc[w] = "last"
          /\ Signal(left) \/ (wpc' = left /\ dpc' = dpc)
          /\ UNCHANGED <<apc, stop, taskList>>
      BY <2>4, Zenon DEF Exit
    <3>3. /\ \A u \in Workers : wpc'[u] = left[u] \/ wpc'[u] = "woken"
          /\ dpc' = dpc \/ (dpc = "waiting" /\ dpc' = "woken")
      BY <3>1, <3>2, SignalStates
    <3>4. ~apc
      BY <3>2 DEF MutexGuards, Disciplined
    <3> QED
      BY <3>2, <3>3, <3>4
  <2> QED
    BY <1>4, <2>1, <2>2, <2>3, <2>4 DEF WorkerStep
<1>5. ASSUME NEW w \in Workers, Timeout(w) \/ SpuriousWakeup(w) PROVE ClearedInv'
  <2>1. UNCHANGED <<holder, apc, stop, dpc, taskList>>
    BY <1>5, Zenon DEF Timeout, SpuriousWakeup
  <2>2. \E s \in {"timedout", "woken"} : wpc' = [wpc EXCEPT ![w] = s]
    BY <1>5, Zenon DEF Timeout, SpuriousWakeup, Goto
  <2> QED
    BY <2>1, <2>2
<1>6. CASE DestroyStop
  <2>1. dpc = "idle" /\ dpc' = "stop" /\ stop' /\ UNCHANGED <<holder, apc>>
    BY <1>6, Zenon DEF DestroyStop
  <2> QED
    BY <2>1
<1>7. CASE DestroyClear
  <2>1. /\ dpc = "stop" /\ dpc' = "cleared" /\ holder = Free /\ taskList' = <<>>
        /\ UNCHANGED <<holder, stop, apc, wpc>>
    BY <1>7, Zenon DEF DestroyClear
  <2>2. \A w \in Workers : wpc[w] \notin {"front", "pop"}
    BY <2>1 DEF TakingInv
  <2> QED
    BY <2>1, <2>2
<1>8. CASE DestroyBroadcast
  <2>1. \A w \in Workers : wpc'[w] = wpc[w] \/ wpc'[w] = "woken"
    BY <1>8 DEF DestroyBroadcast
  <2>2. dpc = "cleared" /\ dpc' = "broadcast" /\ UNCHANGED <<taskList, holder, stop, apc>>
    BY <1>8, Zenon DEF DestroyBroadcast
  <2> QED
    BY <2>1, <2>2
<1>9. CASE DestroyWait \/ DestroyReturn \/ DestroySpuriousWakeup
  <2>1. /\ dpc \in {"broadcast", "woken", "waiting"}
        /\ dpc' \in {"waiting", "done", "woken"}
        /\ UNCHANGED <<taskList, stop, apc, wpc>>
    BY <1>9, Zenon DEF DestroyWait, DestroyReturn, DestroySpuriousWakeup
  <2> QED
    BY <2>1
<1>10. CASE UNCHANGED vars
  BY <1>10 DEF vars
<1> QED
  BY <1>1, <1>2, <1>3, <1>4, <1>5, <1>6, <1>7, <1>8, <1>9, <1>10
  DEF Next, DestroyStep

-----------------------------------------------------------------------------
(* A thread that is not part of the step keeps its invariant if nobody     *)
(* touches the mutex and the list while it needs them.                     *)
LEMMA TakingStays ==
  ASSUME NEW u \in Workers, TakingInv(u),
         wpc'[u] \in {"front", "pop", "run"} => wpc'[u] = wpc[u] /\ wtask'[u] = wtask[u],
         wpc[u] \in {"front", "pop"} => holder' = holder /\ taskList' = taskList
  PROVE  TakingInv(u)'
BY DEF TakingInv

LEMMA TakingNext ==
  ASSUME TypeOK, MutexGuards, ClearedInv, \A w \in Workers : TakingInv(w),
         [Next]_vars, NEW u \in Workers
  PROVE  TakingInv(u)'
<1> USE PoolAssumption DEF PoolAssumption, TypeOK, pool, history
<1>0. wpc[u] \in {"front", "pop"} =>
        holder = u /\ dpc \in {"idle", "stop"} /\ ~apc
  BY DEF TakingInv, ClearedInv
<1>1. CASE Start
  <2>1. wpc'[u] = wpc[u] \/ wpc'[u] = "start"
    BY <1>1 DEF Start
  <2>2. UNCHANGED <<taskList, holder, wtask>>
    BY <1>1, Zenon DEF Start
  <2> QED
    BY <2>1, <2>2, TakingStays
<1>2. ASSUME NEW t \in Tasks, AddTask(t) PROVE TakingInv(u)'
  <2>1. holder = Free /\ UNCHANGED <<wpc, wtask>>
    BY <1>2, Zenon DEF AddTask
  <2> QED
    BY <1>0, <2>1, TakingStays
<1>3. CASE AddTaskNotify
  <2>1. apc /\ UNCHANGED wtask
    BY <1>3, Zenon DEF AddTaskNotify
  <2>2. wpc'[u] = wpc[u] \/ wpc'[u] \in {"woken", "start"}
    BY <1>3, SignalStates, CreateStates DEF AddTaskNotify
  <2> QED
    BY <1>0, <2>1, <2>2, TakingStays
<1>4. ASSUME NEW w \in Workers, Top(w) \/ Reacquire(w) PROVE TakingInv(u)'
  <2>1. holder = Free /\ UNCHANGED <<taskList, wtask>>
    BY <1>4, Zenon DEF Top, Reacquire
  <2>2. CASE u # w
    <3>1. \E s \in WorkerStates : wpc' = [wpc EXCEPT ![w] = s]
      BY <1>4, Zenon DEF Top, Reacquire, Goto, WorkerStates
    <3> QED
      BY <1>0, <2>1, <2>2, <3>1, TakingStays
  <2>3. CASE u = w
    <3>1. \/ \E s \in {"exit", "wait", "start"} : wpc' = [wpc EXCEPT ![w] = s]
          \/ wpc' = [wpc EXCEPT ![w] = "front"] /\ holder' = w /\ taskList # <<>>
      BY <1>4, Zenon DEF Top, Reacquire, Goto
    <3> QED
      BY <2>1, <2>3, <3>1 DEF TakingInv
  <2> QED
    BY <2>2, <2>3
<1>5. ASSUME NEW w \in Workers, Front(w) PROVE TakingInv(u)'
  <2>1. /\ wpc[w] = "front" /\ wpc' = [wpc EXCEPT ![w] = "pop"]
        /\ wtask' = [wtask EXCEPT ![w] = Head(taskList)]
        /\ UNCHANGED <<taskList, holder>>
    BY <1>5, Zenon DEF Front, Goto
  <2>2. CASE u # w
    BY <2>1, <2>2, TakingStays
  <2>3. CASE u = w
    BY <2>1, <2>3 DEF TakingInv
  <2> QED
    BY <2>2, <2>3
<1>6. ASSUME NEW w \in Workers, Pop(w) PROVE TakingInv(u)'
  <2>1. /\ wpc[w] = "pop" /\ wpc' = [wpc EXCEPT ![w] = "run"]
        /\ UNCHANGED wtask
    BY <1>6, Zenon DEF Pop, Goto
  <2>2. holder = w /\ wtask[w] = Head(taskList) /\ taskList # <<>>
    BY <2>1 DEF TakingInv
  <2>3. CASE u # w
    BY <1>0, <2>1, <2>2, <2>3, TakingStays
  <2>4. CASE u = w
    <3>1. Head(taskList) \in Tasks
      BY <2>2
    <3> QED
      BY <2>1, <2>2, <2>4, <3>1 DEF TakingInv
  <2> QED
    BY <2>3, <2>4
<1>7. ASSUME NEW w \in Workers, RunTask(w) PROVE TakingInv(u)'
  <2>1. /\ wpc' = [wpc EXCEPT ![w] = "start"]
        /\ wtask' = [wtask EXCEPT ![w] = NoTask]
        /\ UNCHANGED <<taskList, holder>>
    BY <1>7, Zenon DEF RunTask, Goto
  <2> QED
    BY <2>1, TakingStays
<1>8. ASSUME NEW w \in Workers,
             ExitLoad(w) \/ ExitStore(w) \/ Timeout(w) \/ SpuriousWakeup(w)
      PROVE  TakingInv(u)'
  <2>1. \E s \in {"count", "last", "timedout", "woken"} : wpc' = [wpc EXCEPT ![w] = s]
    BY <1>8, Zenon DEF ExitLoad, ExitStore, Timeout, SpuriousWakeup, Goto
  <2>2. UNCHANGED <<taskList, holder, wtask>>
    BY <1>8, Zenon DEF ExitLoad, ExitStore, Timeout, SpuriousWakeup
  <2> QED
    BY <2>1, <2>2, TakingStays
<1>9. ASSUME NEW w \in Workers, Exit(w) PROVE TakingInv(u)'
  <2> DEFINE left == [wpc EXCEPT ![w] = "none"]
  <2>1. left \in [Workers -> WorkerStates]
    BY DEF WorkerStates
  <2>2. wpc[w] = "last" /\ (Signal(left) \/ wpc' = left) /\ UNCHANGED <<taskList, wtask>>
    BY <1>9, Zenon DEF Exit
  <2>3. wpc'[u] = left[u] \/ wpc'[u] = "woken"
    BY <2>1, <2>2, SignalStates
  <2>4. wpc[u] \notin {"front", "pop"}
    BY <1>0, <2>2 DEF MutexGuards, Disciplined
  <2> QED
    BY <2>2, <2>3, <2>4, TakingStays
<1>10. CASE DestroyStop \/ UNCHANGED vars
  <2>1. UNCHANGED <<taskList, holder, wpc, wtask>>
    BY <1>10, Zenon DEF DestroyStop, vars
  <2> QED
    BY <2>1, TakingStays
<1>11. CASE DestroyClear
  <2>1. holder = Free /\ UNCHANGED <<wpc, wtask>>
    BY <1>11, Zenon DEF DestroyClear
  <2> QED
    BY <1>0, <2>1, TakingStays
<1>12. CASE DestroyBroadcast
  <2>1. wpc'[u] = wpc[u] \/ wpc'[u] = "woken"
    BY <1>12 DEF DestroyBroadcast
  <2>2. UNCHANGED <<taskList, holder, wtask>>
    BY <1>12, Zenon DEF DestroyBroadcast
  <2> QED
    BY <2>1, <2>2, TakingStays
<1>13. CASE DestroyWait \/ DestroyReturn \/ DestroySpuriousWakeup
  <2>1. dpc \notin {"idle", "stop"} /\ UNCHANGED <<wpc, wtask>>
    BY <1>13, Zenon DEF DestroyWait, DestroyReturn, DestroySpuriousWakeup
  <2> QED
    BY <1>0, <2>1, TakingStays
<1> QED
  BY <1>1, <1>2, <1>3, <1>4, <1>5, <1>6, <1>7, <1>8, <1>9, <1>10, <1>11,
     <1>12, <1>13 DEF Next, WorkerStep, DestroyStep

-----------------------------------------------------------------------------
(* Steps that move no task. *)
LEMMA PlacesStay ==
  ASSUME PlacesInv, UNCHANGED <<taskList, fresh, done, dropped>>,
         \A u \in Workers : wpc'[u] = "run" => wpc[u] = "run" /\ wtask'[u] = wtask[u]
  PROVE  PlacesInv'
BY DEF PlacesInv, InList

LEMMA PlacesNext ==
  ASSUME TypeOK, ClearedInv, \A w \in Workers : TakingInv(w), PlacesInv, [Next]_vars
  PROVE  PlacesInv'
<1> USE PoolAssumption DEF PoolAssumption, TypeOK, pool, history
<1>1. CASE Start
  <2>1. \A u \in Workers : wpc'[u] = wpc[u] \/ wpc'[u] = "start"
    BY <1>1 DEF Start
  <2>2. UNCHANGED <<taskList, fresh, done, dropped, wtask>>
    BY <1>1, Zenon DEF Start
  <2> QED
    BY <2>1, <2>2, PlacesStay
<1>2. ASSUME NEW t \in Tasks, AddTask(t) PROVE PlacesInv'
  <2>1. /\ t \in fresh /\ fresh' = fresh \ {t}
        /\ UNCHANGED <<wpc, wtask, done>>
        /\ \/ taskList' = Append(taskList, t) /\ UNCHANGED dropped
           \/ dropped' = dropped \union {t} /\ UNCHANGED taskList
    BY <1>2, Zenon DEF AddTask
  <2>2. CASE taskList' = Append(taskList, t) /\ UNCHANGED dropped
    <3>1. /\ Len(taskList') = Len(taskList) + 1
          /\ taskList'[Len(taskList) + 1] = t
          /\ \A i \in 1 .. Len(taskList) : taskList'[i] = taskList[i]
      BY <2>2
    <3>2. \A i \in 1 .. Len(taskList) : taskList[i] # t
      BY <2>1 DEF PlacesInv
    <3>3. \A i, j \in 1 .. Len(taskList') : taskList'[i] = taskList'[j] => i = j
      <4> SUFFICES ASSUME NEW i \in 1 .. Len(taskList'), NEW j \in 1 .. Len(taskList'),
                          taskList'[i] = taskList'[j]
                   PROVE  i = j
        OBVIOUS
      <4>1. i = Len(taskList) + 1 \/ i \in 1 .. Len(taskList)
        BY <3>1
      <4>2. j = Len(taskList) + 1 \/ j \in 1 .. Len(taskList)
        BY <3>1
      <4> QED
        BY <3>1, <3>2, <4>1, <4>2 DEF PlacesInv
    <3>4. \A i \in 1 .. Len(taskList') : taskList'[i] \notin fresh' \union done' \union dropped'
      BY <2>1, <2>2, <3>1 DEF PlacesInv
    <3>5. ASSUME NEW w \in Workers, wpc'[w] = "run"
          PROVE  /\ wtask'[w] \notin fresh' \union done' \union dropped'
                 /\ ~InList(wtask[w])'
                 /\ \A u \in Workers : wpc'[u] = "run" /\ wtask'[u] = wtask'[w] => u = w
      BY <2>1, <2>2, <3>1, <3>5 DEF PlacesInv, InList
    <3> QED
      BY <2>1, <2>2, <3>3, <3>4, <3>5 DEF PlacesInv
  <2>3. CASE dropped' = dropped \union {t} /\ UNCHANGED taskList
    BY <2>1, <2>3 DEF PlacesInv, InList
  <2> QED
    BY <2>1, <2>2, <2>3
<1>3. CASE AddTaskNotify
  <2>1. UNCHANGED <<taskList, fresh, done, dropped, wtask>>
    BY <1>3, Zenon DEF AddTaskNotify
  <2>2. \A u \in Workers : wpc'[u] = wpc[u] \/ wpc'[u] \in {"woken", "start"}
    BY <1>3, SignalStates, CreateStates DEF AddTaskNotify
  <2> QED
    BY <2>1, <2>2, PlacesStay
<1>4. ASSUME NEW w \in Workers,
             \/ Top(w) \/ Reacquire(w) \/ Timeout(w) \/ SpuriousWakeup(w)
             \/ ExitLoad(w) \/ ExitStore(w)
      PROVE  PlacesInv'
  <2>1. UNCHANGED <<taskList, fresh, done, dropped, wtask>>
    BY <1>4, Zenon
    DEF Top, Reacquire, Timeout, SpuriousWakeup, ExitLoad, ExitStore
  <2>2. \E s \in WorkerStates \ {"run"} : wpc' = [wpc EXCEPT ![w] = s]
    BY <1>4
    DEF Top, Reacquire, Timeout, SpuriousWakeup, ExitLoad, ExitStore, Goto,
        WorkerStates
  <2> QED
    BY <2>1, <2>2, PlacesStay
<1>5. ASSUME NEW w \in Workers, Front(w) PROVE PlacesInv'
  <2>1. /\ wpc' = [wpc EXCEPT ![w] = "pop"]
        /\ wtask' = [wtask EXCEPT ![w] = Head(taskList)]
        /\ UNCHANGED <<taskList, fresh, done, dropped>>
    BY <1>5, Zenon DEF Front, Goto
  <2> QED
    BY <2>1, PlacesStay
<1>6. ASSUME NEW w \in Workers, Pop(w) PROVE PlacesInv'
  <2>1. /\ wpc[w] = "pop" /\ wpc' = [wpc EXCEPT ![w] = "run"]
        /\ taskList' = Tail(taskList)
        /\ UNCHANGED <<wtask, fresh, done, dropped>>
    BY <1>6, Zenon DEF Pop, Goto
  <2>2. wtask[w] = Head(taskList) /\ taskList # <<>>
    BY <2>1 DEF TakingInv
  <2>3. /\ Len(taskList) > 0 /\ wtask[w] = taskList[1]
        /\ Len(taskList') = Len(taskList) - 1
        /\ \A i \in 1 .. Len(taskList') : taskList'[i] = taskList[i + 1]
    BY <2>1, <2>2
  <2>n. \A i \in 1 .. Len(taskList') : i + 1 \in 1 .. Len(taskList) /\ i \in Nat
    BY <2>3
  <2>4. \A i, j \in 1 .. Len(taskList') : taskList'[i] = taskList'[j] => i = j
    <3> SUFFICES ASSUME NEW i \in 1 .. Len(taskList'), NEW j \in 1 .. Len(taskList'),
                        taskList'[i] = taskList'[j]
                 PROVE  i = j
      OBVIOUS
    <3>1. i + 1 = j + 1
      BY <2>3, <2>n DEF PlacesInv
    <3> QED
      BY <2>n, <3>1
  <2>5. \A i \in 1 .. Len(taskList') :
          taskList'[i] \notin fresh \union done \union dropped
    BY <2>3, <2>n DEF PlacesInv
  <2>6. ASSUME NEW x, InList(x)' PROVE InList(x) /\ x # wtask[w]
    <3>1. PICK i \in 1 .. Len(taskList') : taskList'[i] = x
      BY <2>6 DEF InList
    <3>2. i + 1 \in 1 .. Len(taskList) /\ 1 \in 1 .. Len(taskList)
          /\ i \in Nat /\ taskList[i + 1] = x
      BY <2>3, <3>1
    <3> QED
      BY <2>3, <3>2 DEF PlacesInv, InList
  <2>7. InList(wtask[w]) /\ wtask[w] \notin fresh \union done \union dropped
    BY <2>3 DEF PlacesInv, InList
  <2>8. ASSUME NEW v \in Workers, wpc'[v] = "run"
        PROVE  /\ wtask[v] \notin fresh \union done \union dropped
               /\ ~InList(wtask[v])'
               /\ \A u \in Workers : wpc'[u] = "run" /\ wtask[u] = wtask[v] => u = v
    BY <2>1, <2>6, <2>7, <2>8 DEF PlacesInv
  <2> QED
    BY <2>1, <2>4, <2>5, <2>8 DEF PlacesInv, InList
<1>7. ASSUME NEW w \in Workers, RunTask(w) PROVE PlacesInv'
  <2>1. /\ wpc[w] = "run" /\ wpc' = [wpc EXCEPT ![w] = "start"]
        /\ wtask' = [wtask EXCEPT ![w] = NoTask]
        /\ done' = done \union {wtask[w]}
        /\ UNCHANGED <<taskList, fresh, dropped>>
    BY <1>7, Zenon DEF RunTask, Goto
  <2>2. \A i \in 1 .. Len(taskList) : taskList[i] # wtask[w]
    BY <2>1 DEF PlacesInv, InList
  <2>3. ASSUME NEW v \in Workers, wpc'[v] = "run"
        PROVE  /\ wpc[v] = "run" /\ wtask'[v] = wtask[v] /\ wtask[v] # wtask[w]
    BY <2>1, <2>3 DEF PlacesInv
  <2> QED
    BY <2>1, <2>2, <2>3 DEF PlacesInv, InList
<1>8. ASSUME NEW w \in Workers, Exit(w) PROVE PlacesInv'
  <2> DEFINE left == [wpc EXCEPT ![w] = "none"]
  <2>1. left \in [Workers -> WorkerStates]
    BY DEF WorkerStates
  <2>2. (Signal(left) \/ wpc' = left)
        /\ UNCHANGED <<taskList, wtask, fresh, done, dropped>>
    BY <1>8, Zenon DEF Exit
  <2>3. \A u \in Workers : wpc'[u] = left[u] \/ wpc'[u] = "woken"
    BY <2>1, <2>2, SignalStates
  <2> QED
    BY <2>2, <2>3, PlacesStay
<1>9. CASE DestroyClear
  <2>1. /\ taskList' = <<>>
        /\ dropped' = dropped \union {taskList[i] : i \in 1 .. Len(taskList)}
        /\ UNCHANGED <<wpc, wtask, fresh, done>>
    BY <1>9, Zenon DEF DestroyClear
  <2> QED
    BY <2>1 DEF PlacesInv, InList
<1>10. CASE DestroyBroadcast
  <2>1. \A u \in Workers : wpc'[u] = wpc[u] \/ wpc'[u] = "woken"
    BY <1>10 DEF DestroyBroadcast
  <2>2. UNCHANGED <<taskList, fresh, done, dropped, wtask>>
    BY <1>10, Zenon DEF DestroyBroadcast
  <2> QED
    BY <2>1, <2>2, PlacesStay
<1>11. CASE \/ DestroyStop \/ DestroyWait \/ DestroyReturn
            \/ DestroySpuriousWakeup \/ UNCHANGED vars
  <2>1. UNCHANGED <<taskList, fresh, done, dropped, wpc, wtask>>
    BY <1>11, Zenon
    DEF DestroyStop, DestroyWait, DestroyReturn, DestroySpuriousWakeup, vars
  <2> QED
    BY <2>1, PlacesStay
<1> QED
  BY <1>1, <1>2, <1>3, <1>4, <1>5, <1>6, <1>7, <1>8, <1>9, <1>10, <1>11
  DEF Next, WorkerStep, DestroyStep

-----------------------------------------------------------------------------
(* Before start() nothing moves. *)
LEMMA StartedNext ==
  ASSUME TypeOK, StartedInv, [Next]_vars
  PROVE  StartedInv'
<1> SUFFICES ASSUME ~started'
             PROVE  /\ mcount' = 0 /\ ~apc'
                    /\ \A w \in Workers : wpc'[w] = "none"
  BY DEF StartedInv
<1> USE DEF pool, history
<1>1. CASE Start
  BY <1>1, Zenon DEF Start
<1>2. CASE ~Start
  <2>1. ~started
    BY <1>2 DEF Next, WorkerStep, DestroyStep, AddTask, AddTaskNotify, Top,
           Timeout, SpuriousWakeup, Reacquire, Front, Pop, RunTask, ExitLoad,
           ExitStore, Exit, DestroyStop, DestroyClear, DestroyBroadcast,
           DestroyWait, DestroyReturn, DestroySpuriousWakeup, vars
  <2>2. /\ mcount = 0 /\ ~apc
        /\ \A w \in Workers : wpc[w] = "none"
    BY <2>1 DEF StartedInv
  <2>3. ASSUME NEW w \in Workers,
               WorkerStep(w) \/ Timeout(w) \/ SpuriousWakeup(w)
        PROVE  FALSE
    BY <2>2, <2>3 DEF WorkerStep, Top, Timeout, SpuriousWakeup, Reacquire,
           Front, Pop, RunTask, ExitLoad, ExitStore, Exit, Goto
  <2>4. ASSUME NEW t \in Tasks, AddTask(t) PROVE FALSE
    BY <2>1, <2>4, Zenon DEF AddTask
  <2>5. ~AddTaskNotify
    BY <2>2, Zenon DEF AddTaskNotify
  <2>6. CASE DestroyBroadcast
    BY <2>2, <2>6 DEF DestroyBroadcast
  <2>7. CASE \/ DestroyStop \/ DestroyClear \/ DestroyWait \/ DestroyReturn
             \/ DestroySpuriousWakeup \/ UNCHANGED vars
    <3>1. UNCHANGED <<mcount, apc, wpc>>
      BY <2>7, Zenon DEF DestroyStop, DestroyClear, DestroyWait, DestroyReturn,
             DestroySpuriousWakeup, vars
    <3> QED
      BY <2>2, <3>1
  <2> QED
    BY <1>2, <2>3, <2>4, <2>5, <2>6, <2>7 DEF Next, DestroyStep
<1> QED
  BY <1>1, <1>2

-----------------------------------------------------------------------------
(* What one thread's move does to the set that is counted. *)
LEMMA MoveCounted ==
  ASSUME TypeOK, NEW w \in Workers, NEW s \in WorkerStates,
         wpc' = [wpc EXCEPT ![w] = s]
  PROVE  Counted' = IF s \in {"none", "last"} THEN Counted \ {w}
                                              ELSE Counted \union {w}
BY DEF TypeOK, Counted

(* A signal changes nobody's being counted. *)
LEMMA SignalCounts ==
  ASSUME TypeOK, NEW states \in [Workers -> WorkerStates], Signal(states),
         \A u \in Workers : \/ states[u] = wpc[u]
                            \/ wpc[u] = "last" /\ states[u] = "none"
  PROVE  Counted' = Counted /\ Waiting' = Waiting
<1>1. \A u \in Workers : \/ wpc'[u] = states[u]
                         \/ states[u] = "wait" /\ wpc'[u] = "woken"
  BY SignalStates DEF TypeOK
<1> QED
  BY <1>1 DEF Counted, Waiting

(* Until destroy() waits, the steps before were under the mutex too. *)
LEMMA StillDisciplined ==
  ASSUME TypeOK, [Next]_vars, Disciplined'
  PROVE  Disciplined
BY DEF TypeOK, Next, WorkerStep, DestroyStep, Disciplined, Start, AddTask,
       AddTaskNotify, Top, Timeout, SpuriousWakeup, Reacquire, Front, Pop,
       RunTask, ExitLoad, ExitStore, Exit, Signal, DestroyStop, DestroyClear,
       DestroyBroadcast, DestroyWait, DestroyReturn, DestroySpuriousWakeup,
       vars, pool, history

CountInv == LoadedInv /\ ExactInv

(* A step that moves nobody in or out, and leaves both counters alone. *)
LEMMA CountStays ==
  ASSUME CountInv, Disciplined, UNCHANGED <<mcount, waitCount, wcount>>,
         Counted' = Counted, Waiting' = Waiting,
         \A u \in Workers : wpc'[u] = "count" => wpc[u] = "count"
  PROVE  CountInv'
BY DEF CountInv, LoadedInv, ExactInv

LEMMA CountNext ==
  ASSUME TypeOK, MutexGuards, ClearedInv, StartedInv, CountInv, [Next]_vars
  PROVE  CountInv'
<1> SUFFICES ASSUME Disciplined'
             PROVE  CountInv'
  BY DEF CountInv, LoadedInv, ExactInv
<1> USE DEF pool, history
<1>0. Disciplined
  BY StillDisciplined
<1>t. /\ wpc \in [Workers -> WorkerStates] /\ mcount \in Nat
      /\ waitCount \in Nat /\ wcount \in [Workers -> Nat]
      /\ dpc \in DestroyStates
  BY DEF TypeOK
<1>c. /\ mcount = Cardinality(Counted) /\ mcount <= MaxCount
      /\ waitCount = Cardinality(Waiting)
      /\ \A w \in Workers : wpc[w] = "count" => wcount[w] = mcount
  BY <1>0 DEF CountInv, LoadedInv, ExactInv
<1>f. /\ Counted \in SUBSET Workers /\ Waiting \in SUBSET Workers
      /\ Cardinality(Counted) \in Nat /\ Cardinality(Waiting) \in Nat
      /\ MaxCount \in Nat
  BY WorkersCount, PoolAssumption DEF Counted, Waiting, PoolAssumption
<1>m. /\ \A w \in Workers : wpc[w] \in Critical => holder = w
      /\ apc => holder = Adder
  BY <1>0 DEF MutexGuards, Critical
<1>h. Adder \notin Workers /\ Free \notin Workers /\ Free # Adder
  BY PoolAssumption DEF PoolAssumption
<1>1. CASE Start
  <2>1. PICK new \in SUBSET {w \in Workers : wpc[w] = "none"}, failed \in 0 .. fails :
          /\ Cardinality(new) + failed
               = (IF StartCount > MaxCount THEN MaxCount ELSE StartCount)
          /\ wpc' = [w \in Workers |-> IF w \in new THEN "start" ELSE wpc[w]]
          /\ mcount' = mcount + Cardinality(new)
    BY <1>1, Zenon DEF Start
  <2>2. mcount = 0 /\ \A w \in Workers : wpc[w] = "none"
    BY <1>1, Zenon DEF Start, StartedInv
  <2>3. Counted' = new /\ Waiting' = {} /\ Waiting = {}
    BY <2>1, <2>2 DEF Counted, Waiting
  <2>4. Cardinality(new) \in Nat /\ Cardinality(new) <= MaxCount
    <3>1. new \in SUBSET Workers /\ failed \in Nat
      BY DEF TypeOK
    <3>2. Cardinality(new) \in Nat
      BY <3>1, WorkersCount
    <3> QED
      BY <2>1, <3>1, <3>2, PoolAssumption DEF PoolAssumption
  <2>5. waitCount' = waitCount
    BY <1>1, Zenon DEF Start
  <2>6. \A w \in Workers : wpc'[w] # "count"
    BY <2>1, <2>2
  <2>7. mcount' = Cardinality(new)
    BY <2>1, <2>2, <2>4
  <2>8. waitCount' = Cardinality(Waiting')
    BY <1>c, <2>3, <2>5
  <2> QED
    BY <2>3, <2>4, <2>6, <2>7, <2>8 DEF CountInv, LoadedInv, ExactInv
<1>2. ASSUME NEW t \in Tasks, AddTask(t) PROVE CountInv'
  <2>1. UNCHANGED <<wpc, mcount, waitCount, wcount>>
    BY <1>2, Zenon DEF AddTask
  <2> QED
    BY <1>0, <2>1, CountStays DEF Counted, Waiting
<1>3. CASE AddTaskNotify
  <2>1. CASE Signal(wpc) /\ UNCHANGED <<mcount, fails>>
    <3>1. Counted' = Counted /\ Waiting' = Waiting
      BY <1>t, <2>1, SignalCounts
    <3>2. \A u \in Workers : wpc'[u] = "count" => wpc[u] = "count"
      BY <1>t, <2>1, SignalStates
    <3>3. UNCHANGED <<waitCount, wcount>>
      BY <1>3, Zenon DEF AddTaskNotify
    <3> QED
      BY <1>0, <2>1, <3>1, <3>2, <3>3, CountStays
  <2>2. CASE CreateThread
    <3>1. UNCHANGED <<waitCount, wcount>> /\ apc
      BY <1>3, Zenon DEF AddTaskNotify
    <3>2. CASE UNCHANGED <<wpc, mcount>>
      BY <1>0, <3>1, <3>2, CountStays DEF Counted, Waiting
    <3>3. ASSUME MayCreate, mcount' = mcount + 1, NEW w \in Workers,
                 wpc[w] = "none", wpc' = [wpc EXCEPT ![w] = "start"]
          PROVE  CountInv'
      <4>1. Counted' = Counted \union {w} /\ w \notin Counted
        BY <3>3, MoveCounted DEF Counted, WorkerStates
      <4>2. Waiting' = Waiting
        BY <1>t, <3>3 DEF Waiting
      <4>3. Cardinality(Counted') = Cardinality(Counted) + 1
        BY <1>f, <4>1, WorkersCount
      <4>4. mcount' = Cardinality(Counted') /\ mcount' <= MaxCount
        BY <1>c, <1>f, <1>t, <3>3, <4>3 DEF MayCreate
      <4>5. \A u \in Workers : wpc'[u] # "count"
        BY <1>t, <1>m, <1>h, <3>1, <3>3 DEF Critical
      <4> QED
        BY <1>c, <3>1, <4>2, <4>4, <4>5
        DEF CountInv, LoadedInv, ExactInv
    <3> QED
      BY <2>2, <3>2, <3>3 DEF CreateThread
  <2> QED
    BY <1>3, <2>1, <2>2 DEF AddTaskNotify
<1>4. ASSUME NEW w \in Workers, Top(w) PROVE CountInv'
  <2>1. UNCHANGED <<mcount, wcount>> /\ wpc[w] = "start"
    BY <1>4, Zenon DEF Top, Goto
  <2>2. w \in Counted /\ w \notin Waiting
    BY <2>1 DEF Counted, Waiting
  <2>3. CASE wpc' = [wpc EXCEPT ![w] = "wait"] /\ waitCount' = waitCount + 1
    <3>1. Counted' = Counted /\ Waiting' = Waiting \union {w}
      BY <1>t, <2>2, <2>3 DEF Counted, Waiting
    <3>2. Cardinality(Waiting') = Cardinality(Waiting) + 1
      BY <1>f, <2>2, <3>1, WorkersCount
    <3>3. \A u \in Workers : wpc'[u] = "count" => wpc[u] = "count"
      BY <1>t, <2>3
    <3> QED
      BY <1>c, <2>1, <2>3, <3>1, <3>2, <3>3
      DEF CountInv, LoadedInv, ExactInv
  <2>4. CASE /\ \E s \in {"exit", "front"} : wpc' = [wpc EXCEPT ![w] = s]
             /\ waitCount' = waitCount
    <3>1. Counted' = Counted /\ Waiting' = Waiting
      BY <1>t, <2>1, <2>4 DEF Counted, Waiting
    <3>2. \A u \in Workers : wpc'[u] = "count" => wpc[u] = "count"
      BY <1>t, <2>4
    <3> QED
      BY <1>0, <2>1, <2>4, <3>1, <3>2, CountStays
  <2> QED
    BY <1>4, <2>3, <2>4 DEF Top, Goto
<1>5. ASSUME NEW w \in Workers, Reacquire(w) PROVE CountInv'
  <2>1. /\ UNCHANGED <<mcount, wcount>> /\ waitCount' = waitCount - 1
        /\ wpc[w] \in {"woken", "timedout"}
        /\ \E s \in {"exit", "front", "start"} : wpc' = [wpc EXCEPT ![w] = s]
    BY <1>0, <1>5 DEF Reacquire, Goto
  <2>2. w \in Counted /\ w \in Waiting
    BY <2>1 DEF Counted, Waiting
  <2>3. Counted' = Counted /\ Waiting' = Waiting \ {w}
    BY <1>t, <2>1 DEF Counted, Waiting
  <2>4. Cardinality(Waiting') = Cardinality(Waiting) - 1
    BY <1>f, <2>2, <2>3, WorkersCount
  <2>5. \A u \in Workers : wpc'[u] = "count" => wpc[u] = "count"
    BY <1>t, <2>1
  <2> QED
    BY <1>c, <1>f, <2>1, <2>3, <2>4, <2>5
    DEF CountInv, LoadedInv, ExactInv
<1>6. ASSUME NEW w \in Workers,
             \/ Front(w) \/ Pop(w) \/ RunTask(w)
             \/ Timeout(w) \/ SpuriousWakeup(w)
      PROVE  CountInv'
  <2>1. UNCHANGED <<mcount, waitCount, wcount>>
    BY <1>6, Zenon DEF Front, Pop, RunTask, Timeout, SpuriousWakeup
  <2>2. \/ /\ wpc[w] \in {"front", "pop", "run"}
           /\ \E s \in {"pop", "run", "start"} : wpc' = [wpc EXCEPT ![w] = s]
        \/ /\ wpc[w] = "wait"
           /\ \E s \in {"timedout", "woken"} : wpc' = [wpc EXCEPT ![w] = s]
    BY <1>6 DEF Front, Pop, RunTask, Timeout, SpuriousWakeup, Goto
  <2>3. Counted' = Counted /\ Waiting' = Waiting
    BY <1>t, <2>2 DEF Counted, Waiting
  <2>4. \A u \in Workers : wpc'[u] = "count" => wpc[u] = "count"
    BY <1>t, <2>2
  <2> QED
    BY <1>0, <2>1, <2>3, <2>4, CountStays
<1>7. ASSUME NEW w \in Workers, ExitLoad(w) PROVE CountInv'
  <2>1. /\ wpc[w] = "exit" /\ wpc' = [wpc EXCEPT ![w] = "count"]
        /\ wcount' = [wcount EXCEPT ![w] = mcount]
        /\ UNCHANGED <<mcount, waitCount>>
    BY <1>7, Zenon DEF ExitLoad, Goto
  <2>2. Counted' = Counted /\ Waiting' = Waiting
    BY <1>t, <2>1 DEF Counted, Waiting
  <2>3. \A u \in Workers : wpc'[u] = "count" => wcount'[u] = mcount
    BY <1>c, <1>t, <2>1
  <2> QED
    BY <1>c, <2>1, <2>2, <2>3 DEF CountInv, LoadedInv, ExactInv
<1>8. ASSUME NEW w \in Workers, ExitStore(w) PROVE CountInv'
  <2>1. /\ wpc[w] = "count" /\ wpc' = [wpc EXCEPT ![w] = "last"]
        /\ mcount' = wcount[w] - 1 /\ UNCHANGED <<waitCount, wcount>>
    BY <1>8, Zenon DEF ExitStore, Goto
  <2>2. w \in Counted /\ Counted' = Counted \ {w} /\ Waiting' = Waiting
    BY <1>t, <2>1 DEF Counted, Waiting
  <2>3. Cardinality(Counted') = Cardinality(Counted) - 1
    BY <1>f, <2>2, WorkersCount
  <2>4. mcount' = Cardinality(Counted') /\ mcount' <= MaxCount
    BY <1>c, <1>f, <2>1, <2>3
  <2>5. \A u \in Workers : wpc'[u] # "count"
    BY <1>t, <1>m, <2>1 DEF Critical
  <2> QED
    BY <1>c, <2>1, <2>2, <2>4, <2>5 DEF CountInv, LoadedInv, ExactInv
<1>9. ASSUME NEW w \in Workers, Exit(w) PROVE CountInv'
  <2> DEFINE left == [wpc EXCEPT ![w] = "none"]
  <2>1. /\ left \in [Workers -> WorkerStates]
        /\ \A u \in Workers : left[u] = IF u = w THEN "none" ELSE wpc[u]
    BY <1>t DEF WorkerStates
  <2>2. /\ wpc[w] = "last" /\ (Signal(left) \/ wpc' = left)
        /\ UNCHANGED <<mcount, waitCount, wcount>>
    BY <1>9, Zenon DEF Exit
  <2>3. Counted' = Counted /\ Waiting' = Waiting
    <3>1. CASE Signal(left)
      BY <2>1, <2>2, <3>1, SignalCounts
    <3>2. CASE wpc' = left
      BY <2>1, <2>2, <3>2 DEF Counted, Waiting
    <3> QED
      BY <2>2, <3>1, <3>2
  <2>4. \A u \in Workers : wpc'[u] = "count" => wpc[u] = "count"
    BY <1>t, <2>1, <2>2, SignalStates
  <2> QED
    BY <1>0, <2>2, <2>3, <2>4, CountStays
<1>10. CASE DestroyBroadcast
  <2>1. UNCHANGED <<mcount, waitCount, wcount>>
    BY <1>10, Zenon DEF DestroyBroadcast
  <2>2. \A u \in Workers : \/ wpc'[u] = wpc[u]
                           \/ wpc[u] = "wait" /\ wpc'[u] = "woken"
    BY <1>10 DEF DestroyBroadcast
  <2>3. Counted' = Counted /\ Waiting' = Waiting
    BY <2>2 DEF Counted, Waiting
  <2> QED
    BY <1>0, <2>1, <2>2, <2>3, CountStays
<1>11. CASE \/ DestroyStop \/ DestroyClear \/ DestroyWait \/ DestroyReturn
            \/ DestroySpuriousWakeup \/ UNCHANGED vars
  <2>1. UNCHANGED <<wpc, mcount, waitCount, wcount>>
    BY <1>11, Zenon DEF DestroyStop, DestroyClear, DestroyWait, DestroyReturn,
           DestroySpuriousWakeup, vars
  <2> QED
    BY <1>0, <2>1, CountStays DEF Counted, Waiting
<1> QED
  BY <1>1, <1>2, <1>3, <1>4, <1>5, <1>6, <1>7, <1>8, <1>9, <1>10, <1>11
  DEF Next, WorkerStep, DestroyStep

-----------------------------------------------------------------------------
(* The counts ever.                                                        *)

(* A step that counts nobody new, takes no place, and leaves alone what    *)
(* was counted or loaded.                                                  *)
LEMMA AtLeastStays ==
  ASSUME TypeOK, AtLeastInv, UNCHANGED <<mcount, waitCount, wcount>>,
         Counted' = Counted, Waiting' = Waiting,
         \A u \in Workers : wpc'[u] = "count" => wpc[u] = "count"
  PROVE  AtLeastInv'
BY DEF AtLeastInv

LEMMA AtLeastNext ==
  ASSUME TypeOK, MutexGuards, ClearedInv, StartedInv, AtLeastInv, [Next]_vars
  PROVE  AtLeastInv'
<1> USE DEF pool, history
<1>t. /\ wpc \in [Workers -> WorkerStates] /\ mcount \in Nat
      /\ waitCount \in Nat /\ wcount \in [Workers -> Nat]
      /\ dpc \in DestroyStates
  BY DEF TypeOK
<1>c. /\ mcount >= Cardinality(Counted) /\ waitCount >= Cardinality(Waiting)
      /\ \A w \in Workers : wpc[w] = "count" => wcount[w] >= Cardinality(Counted)
  BY DEF AtLeastInv
<1>f. /\ Counted \in SUBSET Workers /\ Waiting \in SUBSET Workers
      /\ Cardinality(Counted) \in Nat /\ Cardinality(Waiting) \in Nat
  BY WorkersCount DEF Counted, Waiting
<1>1. CASE Start
  <2>1. PICK new \in SUBSET {w \in Workers : wpc[w] = "none"} :
          /\ wpc' = [w \in Workers |-> IF w \in new THEN "start" ELSE wpc[w]]
          /\ mcount' = mcount + Cardinality(new)
    BY <1>1, Zenon DEF Start
  <2>2. mcount = 0 /\ \A w \in Workers : wpc[w] = "none"
    BY <1>1, Zenon DEF Start, StartedInv
  <2>3. Counted' = new /\ Waiting' = {} /\ Waiting = {}
    BY <2>1, <2>2 DEF Counted, Waiting
  <2>4. Cardinality(new) \in Nat
    BY WorkersCount
  <2>5. UNCHANGED waitCount
    BY <1>1, Zenon DEF Start
  <2>6. \A w \in Workers : wpc'[w] # "count"
    BY <2>1, <2>2
  <2>7. mcount' >= Cardinality(Counted')
    BY <2>1, <2>2, <2>3, <2>4
  <2>8. waitCount' >= Cardinality(Waiting')
    BY <1>c, <2>3, <2>5
  <2> QED
    BY <2>6, <2>7, <2>8 DEF AtLeastInv
<1>2. ASSUME NEW t \in Tasks, AddTask(t) PROVE AtLeastInv'
  <2>1. UNCHANGED <<wpc, mcount, waitCount, wcount>>
    BY <1>2, Zenon DEF AddTask
  <2> QED
    BY <2>1, AtLeastStays DEF Counted, Waiting
<1>3. CASE AddTaskNotify
  <2>1. CASE Signal(wpc) /\ UNCHANGED <<mcount, fails>>
    <3>1. Counted' = Counted /\ Waiting' = Waiting
      BY <1>t, <2>1, SignalCounts
    <3>2. \A u \in Workers : wpc'[u] = "count" => wpc[u] = "count"
      BY <1>t, <2>1, SignalStates
    <3>3. UNCHANGED <<waitCount, wcount>>
      BY <1>3, Zenon DEF AddTaskNotify
    <3> QED
      BY <2>1, <3>1, <3>2, <3>3, AtLeastStays
  <2>2. CASE CreateThread
    <3>1. UNCHANGED <<waitCount, wcount>> /\ apc
      BY <1>3, Zenon DEF AddTaskNotify
    <3>2. CASE UNCHANGED <<wpc, mcount>>
      BY <3>1, <3>2, AtLeastStays DEF Counted, Waiting
    <3>3. ASSUME MayCreate, mcount' = mcount + 1, NEW w \in Workers,
                 wpc[w] = "none", wpc' = [wpc EXCEPT ![w] = "start"]
          PROVE  AtLeastInv'
      <4>1. Counted' = Counted \union {w} /\ w \notin Counted
        BY <3>3, MoveCounted DEF Counted, WorkerStates
      <4>2. Waiting' = Waiting
        BY <1>t, <3>3 DEF Waiting
      <4>3. Cardinality(Counted') = Cardinality(Counted) + 1
        BY <1>f, <4>1, WorkersCount
      <4>4. mcount' >= Cardinality(Counted')
        BY <1>c, <1>f, <1>t, <3>3, <4>3
      <4>5. Disciplined
        BY <1>t, <3>1 DEF ClearedInv, Disciplined, DestroyStates
      <4>6. \A u \in Workers : wpc[u] # "count"
        BY <3>1, <4>5, PoolAssumption DEF MutexGuards, PoolAssumption
      <4>7. \A u \in Workers : wpc'[u] # "count"
        BY <1>t, <3>3, <4>6
      <4> QED
        BY <1>c, <3>1, <4>2, <4>4, <4>7 DEF AtLeastInv
    <3> QED
      BY <2>2, <3>2, <3>3 DEF CreateThread
  <2> QED
    BY <1>3, <2>1, <2>2 DEF AddTaskNotify
<1>4. ASSUME NEW w \in Workers, Top(w) PROVE AtLeastInv'
  <2>1. UNCHANGED <<mcount, wcount>> /\ wpc[w] = "start"
    BY <1>4, Zenon DEF Top, Goto
  <2>2. w \in Counted /\ w \notin Waiting
    BY <2>1 DEF Counted, Waiting
  <2>3. CASE wpc' = [wpc EXCEPT ![w] = "wait"] /\ waitCount' = waitCount + 1
    <3>1. Counted' = Counted /\ Waiting' = Waiting \union {w}
      BY <1>t, <2>2, <2>3 DEF Counted, Waiting
    <3>2. Cardinality(Waiting') = Cardinality(Waiting) + 1
      BY <1>f, <2>2, <3>1, WorkersCount
    <3>3. \A u \in Workers : wpc'[u] = "count" => wpc[u] = "count"
      BY <1>t, <2>3
    <3>4. waitCount' >= Cardinality(Waiting')
      BY <1>c, <1>f, <1>t, <2>3, <3>2
    <3> QED
      BY <1>c, <2>1, <3>1, <3>3, <3>4 DEF AtLeastInv
  <2>4. CASE /\ \E s \in {"exit", "front"} : wpc' = [wpc EXCEPT ![w] = s]
             /\ waitCount' = waitCount
    <3>1. Counted' = Counted /\ Waiting' = Waiting
      BY <1>t, <2>1, <2>4 DEF Counted, Waiting
    <3>2. \A u \in Workers : wpc'[u] = "count" => wpc[u] = "count"
      BY <1>t, <2>4
    <3> QED
      BY <2>1, <2>4, <3>1, <3>2, AtLeastStays
  <2> QED
    BY <1>4, <2>3, <2>4 DEF Top, Goto
<1>5. ASSUME NEW w \in Workers, Reacquire(w) PROVE AtLeastInv'
  <2>1. /\ UNCHANGED <<mcount, wcount>>
        /\ waitCount' \in {waitCount - 1, waitCount}
        /\ wpc[w] \in {"woken", "timedout"}
        /\ \E s \in {"exit", "front", "start"} : wpc' = [wpc EXCEPT ![w] = s]
    BY <1>5 DEF Reacquire, Goto
  <2>2. w \in Counted /\ w \in Waiting
    BY <2>1 DEF Counted, Waiting
  <2>3. Counted' = Counted /\ Waiting' = Waiting \ {w}
    BY <1>t, <2>1 DEF Counted, Waiting
  <2>4. Cardinality(Waiting') = Cardinality(Waiting) - 1
    BY <1>f, <2>2, <2>3, WorkersCount
  <2>5. \A u \in Workers : wpc'[u] = "count" => wpc[u] = "count"
    BY <1>t, <2>1
  <2>6. waitCount' >= Cardinality(Waiting')
    BY <1>c, <1>f, <1>t, <2>1, <2>4
  <2> QED
    BY <1>c, <2>1, <2>3, <2>5, <2>6 DEF AtLeastInv
<1>6. ASSUME NEW w \in Workers,
             \/ Front(w) \/ Pop(w) \/ RunTask(w)
             \/ Timeout(w) \/ SpuriousWakeup(w)
      PROVE  AtLeastInv'
  <2>1. UNCHANGED <<mcount, waitCount, wcount>>
    BY <1>6, Zenon DEF Front, Pop, RunTask, Timeout, SpuriousWakeup
  <2>2. \/ /\ wpc[w] \in {"front", "pop", "run"}
           /\ \E s \in {"pop", "run", "start"} : wpc' = [wpc EXCEPT ![w] = s]
        \/ /\ wpc[w] = "wait"
           /\ \E s \in {"timedout", "woken"} : wpc' = [wpc EXCEPT ![w] = s]
    BY <1>6 DEF Front, Pop, RunTask, Timeout, SpuriousWakeup, Goto
  <2>3. Counted' = Counted /\ Waiting' = Waiting
    BY <1>t, <2>2 DEF Counted, Waiting
  <2>4. \A u \in Workers : wpc'[u] = "count" => wpc[u] = "count"
    BY <1>t, <2>2
  <2> QED
    BY <2>1, <2>3, <2>4, AtLeastStays
<1>7. ASSUME NEW w \in Workers, ExitLoad(w) PROVE AtLeastInv'
  <2>1. /\ wpc[w] = "exit" /\ wpc' = [wpc EXCEPT ![w] = "count"]
        /\ wcount' = [wcount EXCEPT ![w] = mcount]
        /\ UNCHANGED <<mcount, waitCount>>
    BY <1>7, Zenon DEF ExitLoad, Goto
  <2>2. Counted' = Counted /\ Waiting' = Waiting
    BY <1>t, <2>1 DEF Counted, Waiting
  <2>3. \A u \in Workers : wpc'[u] = "count" =>
          \/ u = w /\ wcount'[u] = mcount
          \/ wpc[u] = "count" /\ wcount'[u] = wcount[u]
    BY <1>t, <2>1
  <2> QED
    BY <1>c, <2>1, <2>2, <2>3 DEF AtLeastInv
<1>8. ASSUME NEW w \in Workers, ExitStore(w) PROVE AtLeastInv'
  <2>1. /\ wpc[w] = "count" /\ wpc' = [wpc EXCEPT ![w] = "last"]
        /\ mcount' = wcount[w] - 1 /\ UNCHANGED <<waitCount, wcount>>
    BY <1>8, Zenon DEF ExitStore, Goto
  <2>2. w \in Counted /\ Counted' = Counted \ {w} /\ Waiting' = Waiting
    BY <1>t, <2>1 DEF Counted, Waiting
  <2>3. Cardinality(Counted') = Cardinality(Counted) - 1
    BY <1>f, <2>2, WorkersCount
  <2>4. wcount[w] \in Nat /\ wcount[w] >= Cardinality(Counted)
    BY <1>c, <1>t, <2>1
  <2>5. mcount' >= Cardinality(Counted')
    BY <1>f, <2>1, <2>3, <2>4
  <2>6. ASSUME NEW u \in Workers, wpc'[u] = "count"
        PROVE  wcount[u] >= Cardinality(Counted')
    <3>1. wcount[u] \in Nat /\ wcount[u] >= Cardinality(Counted)
      BY <1>c, <1>t, <2>1, <2>6
    <3> QED
      BY <1>f, <2>3, <3>1
  <2> QED
    BY <1>c, <2>1, <2>2, <2>5, <2>6 DEF AtLeastInv
<1>9. ASSUME NEW w \in Workers, Exit(w) PROVE AtLeastInv'
  <2> DEFINE left == [wpc EXCEPT ![w] = "none"]
  <2>1. /\ left \in [Workers -> WorkerStates]
        /\ \A u \in Workers : left[u] = IF u = w THEN "none" ELSE wpc[u]
    BY <1>t DEF WorkerStates
  <2>2. /\ wpc[w] = "last" /\ (Signal(left) \/ wpc' = left)
        /\ UNCHANGED <<mcount, waitCount, wcount>>
    BY <1>9, Zenon DEF Exit
  <2>3. Counted' = Counted /\ Waiting' = Waiting
    <3>1. CASE Signal(left)
      BY <2>1, <2>2, <3>1, SignalCounts
    <3>2. CASE wpc' = left
      BY <2>1, <2>2, <3>2 DEF Counted, Waiting
    <3> QED
      BY <2>2, <3>1, <3>2
  <2>4. \A u \in Workers : wpc'[u] = "count" => wpc[u] = "count"
    BY <1>t, <2>1, <2>2, SignalStates
  <2> QED
    BY <2>2, <2>3, <2>4, AtLeastStays
<1>10. CASE DestroyBroadcast
  <2>1. UNCHANGED <<mcount, waitCount, wcount>>
    BY <1>10, Zenon DEF DestroyBroadcast
  <2>2. \A u \in Workers : \/ wpc'[u] = wpc[u]
                           \/ wpc[u] = "wait" /\ wpc'[u] = "woken"
    BY <1>10 DEF DestroyBroadcast
  <2>3. Counted' = Counted /\ Waiting' = Waiting
    BY <2>2 DEF Counted, Waiting
  <2> QED
    BY <2>1, <2>2, <2>3, AtLeastStays
<1>11. CASE \/ DestroyStop \/ DestroyClear \/ DestroyWait \/ DestroyReturn
            \/ DestroySpuriousWakeup \/ UNCHANGED vars
  <2>1. UNCHANGED <<wpc, mcount, waitCount, wcount>>
    BY <1>11, Zenon DEF DestroyStop, DestroyClear, DestroyWait, DestroyReturn,
           DestroySpuriousWakeup, vars
  <2> QED
    BY <2>1, AtLeastStays DEF Counted, Waiting
<1> QED
  BY <1>1, <1>2, <1>3, <1>4, <1>5, <1>6, <1>7, <1>8, <1>9, <1>10, <1>11
  DEF Next, WorkerStep, DestroyStep

-----------------------------------------------------------------------------
(* Nobody sleeps on work.                                                  *)

(* No more tasks than before, nobody new asleep, and nobody less on the    *)
(* way to the list.                                                        *)
LEMMA SleepStays ==
  ASSUME TypeOK, NobodySleepsOnWork, taskList' = taskList, apc' = apc,
         \A u \in Workers : wpc'[u] = "wait" => wpc[u] = "wait",
         \A u \in Heading : u \in Heading'
  PROVE  NobodySleepsOnWork'
<1>1. Cardinality(Heading) <= Cardinality(Heading')
  <2>1. Heading' \in SUBSET Workers /\ Heading \in SUBSET Heading'
    BY DEF Heading
  <2> QED
    BY <2>1, WorkersCount, FS_Subset
<1>2. Cardinality(Heading) \in Nat /\ Cardinality(Heading') \in Nat
  BY WorkersCount DEF Heading
<1>3. Sleepers(wpc)' # {} => Sleepers(wpc) # {}
  BY DEF Sleepers
<1>4. Len(taskList) \in Nat
  BY DEF TypeOK
<1> QED
  BY <1>1, <1>2, <1>3, <1>4 DEF NobodySleepsOnWork, Heading

LEMMA SleepNext ==
  ASSUME TypeOK, MutexGuards, ClearedInv, StartedInv, CountInv,
         \A w \in Workers : TakingInv(w), NobodySleepsOnWork, [Next]_vars
  PROVE  NobodySleepsOnWork'
<1> USE DEF pool, history
<1>t. /\ wpc \in [Workers -> WorkerStates] /\ taskList \in Seq(Tasks)
      /\ Len(taskList) \in Nat /\ apc \in BOOLEAN /\ dpc \in DestroyStates
  BY DEF TypeOK
<1>f. Heading \in SUBSET Workers /\ Cardinality(Heading) \in Nat
  BY WorkersCount DEF Heading
<1>e. taskList' = <<>> => NobodySleepsOnWork'
  <2>1. Cardinality(Heading') \in Nat
    BY WorkersCount DEF Heading
  <2> QED
    BY <2>1 DEF NobodySleepsOnWork, Heading
<1>s. (\A u \in Workers : wpc'[u] # "wait") => NobodySleepsOnWork'
  BY DEF NobodySleepsOnWork, Sleepers
<1>1. CASE Start
  <2>1. \A u \in Workers : wpc[u] = "none"
    BY <1>1, Zenon DEF Start, StartedInv
  <2>2. \A u \in Workers : wpc'[u] = wpc[u] \/ wpc'[u] = "start"
    BY <1>1 DEF Start
  <2> QED
    BY <1>s, <2>1, <2>2
<1>2. ASSUME NEW t \in Tasks, AddTask(t) PROVE NobodySleepsOnWork'
  <2>1. CASE taskList' = Append(taskList, t) /\ apc' = TRUE
    <3>1. Len(taskList') = Len(taskList) + 1 /\ ~apc /\ wpc' = wpc
      BY <1>2, <1>t, <2>1 DEF AddTask
    <3> QED
      BY <1>f, <1>t, <2>1, <3>1 DEF NobodySleepsOnWork, Sleepers, Heading
  <2>2. CASE UNCHANGED <<taskList, apc>>
    <3>1. wpc' = wpc
      BY <1>2, Zenon DEF AddTask
    <3> QED
      BY <2>2, <3>1, SleepStays DEF Heading
  <2> QED
    BY <1>2, <2>1, <2>2 DEF AddTask
<1>3. CASE AddTaskNotify
  <2>1. apc /\ ~apc' /\ taskList' = taskList
    BY <1>3, Zenon DEF AddTaskNotify
  <2>2. dpc \in {"idle", "stop"} /\ Disciplined
    BY <2>1 DEF ClearedInv, Disciplined
  <2>3. CASE waitCount > 0 /\ Signal(wpc)
    <3>1. ASSUME NEW w \in Workers, wpc[w] = "wait",
                 wpc' = [wpc EXCEPT ![w] = "woken"]
          PROVE  NobodySleepsOnWork'
      <4>1. Heading' = Heading \union {w} /\ w \notin Heading
        BY <1>t, <3>1 DEF Heading
      <4>2. Cardinality(Heading') = Cardinality(Heading) + 1
        BY <1>f, <4>1, WorkersCount
      <4>3. Sleepers(wpc) # {}
        BY <3>1 DEF Sleepers
      <4> QED
        BY <1>f, <1>t, <2>1, <4>2, <4>3 DEF NobodySleepsOnWork, Heading
    <3>2. CASE Sleepers(wpc) = {} /\ wpc' = wpc
      BY <1>s, <3>2 DEF Sleepers
    <3> QED
      BY <2>2, <2>3, <3>1, <3>2 DEF Signal, Sleepers
  <2>4. CASE waitCount = 0 /\ CreateThread
    <3>1. Waiting = {}
      <4>1. Cardinality(Waiting) = 0 /\ IsFiniteSet(Waiting)
        BY <2>2, <2>4, WorkersCount DEF CountInv, ExactInv, Waiting
      <4> QED
        BY <4>1, FS_EmptySet
    <3>2. \A u \in Workers : \/ wpc'[u] = wpc[u]
                             \/ wpc[u] = "none" /\ wpc'[u] = "start"
      BY <2>4, CreateStates
    <3> QED
      BY <1>s, <3>1, <3>2 DEF Waiting
  <2> QED
    BY <1>3, <2>3, <2>4 DEF AddTaskNotify
<1>4. ASSUME NEW w \in Workers, Top(w) PROVE NobodySleepsOnWork'
  <2>1. UNCHANGED <<taskList, apc>> /\ wpc[w] = "start"
    BY <1>4, Zenon DEF Top, Goto
  <2>2. CASE taskList = <<>>
    BY <1>e, <2>1, <2>2
  <2>3. CASE \E s \in {"exit", "front"} : wpc' = [wpc EXCEPT ![w] = s]
    <3>1. /\ \A u \in Workers : wpc'[u] = "wait" => wpc[u] = "wait"
          /\ \A u \in Heading : u \in Heading'
      BY <1>t, <2>1, <2>3 DEF Heading
    <3> QED
      BY <2>1, <3>1, SleepStays
  <2> QED
    BY <1>4, <2>2, <2>3 DEF Top, Goto
<1>5. ASSUME NEW w \in Workers, Reacquire(w) PROVE NobodySleepsOnWork'
  <2>1. UNCHANGED <<taskList, apc>>
    BY <1>5, Zenon DEF Reacquire
  <2>2. CASE taskList = <<>>
    BY <1>e, <2>1, <2>2
  <2>3. CASE \/ wpc[w] = "timedout" /\ wpc' = [wpc EXCEPT ![w] = "exit"]
             \/ wpc[w] = "woken" /\ wpc' = [wpc EXCEPT ![w] = "front"]
    <3>1. /\ \A u \in Workers : wpc'[u] = "wait" => wpc[u] = "wait"
          /\ \A u \in Heading : u \in Heading'
      BY <1>t, <2>3 DEF Heading
    <3> QED
      BY <2>1, <3>1, SleepStays
  <2> QED
    BY <1>5, <2>2, <2>3 DEF Reacquire, Goto
<1>6. ASSUME NEW w \in Workers,
             \/ Front(w) \/ RunTask(w) \/ ExitLoad(w) \/ ExitStore(w)
             \/ Timeout(w) \/ SpuriousWakeup(w)
      PROVE  NobodySleepsOnWork'
  <2>1. UNCHANGED <<taskList, apc>>
    BY <1>6, Zenon
    DEF Front, RunTask, ExitLoad, ExitStore, Timeout, SpuriousWakeup
  <2>2. \/ wpc[w] = "front" /\ wpc' = [wpc EXCEPT ![w] = "pop"]
        \/ /\ wpc[w] \in {"run", "exit", "count", "wait"}
           /\ \E s \in WorkerStates \ {"wait"} : wpc' = [wpc EXCEPT ![w] = s]
    BY <1>6 DEF Front, RunTask, ExitLoad, ExitStore, Timeout, SpuriousWakeup,
                Goto, WorkerStates
  <2>3. /\ \A u \in Workers : wpc'[u] = "wait" => wpc[u] = "wait"
        /\ \A u \in Heading : u \in Heading'
    BY <1>t, <2>2 DEF Heading
  <2> QED
    BY <2>1, <2>3, SleepStays
<1>7. ASSUME NEW w \in Workers, Pop(w) PROVE NobodySleepsOnWork'
  <2>1. /\ wpc[w] = "pop" /\ wpc' = [wpc EXCEPT ![w] = "run"]
        /\ taskList' = Tail(taskList) /\ apc' = apc
    BY <1>7, Zenon DEF Pop, Goto
  <2>2. taskList # <<>>
    BY <2>1 DEF TakingInv
  <2>3. Len(taskList') = Len(taskList) - 1
    BY <1>t, <2>1, <2>2
  <2>4. Heading' = Heading \ {w} /\ w \in Heading
    BY <1>t, <2>1 DEF Heading
  <2>5. Cardinality(Heading') = Cardinality(Heading) - 1
    BY <1>f, <2>4, WorkersCount
  <2>6. Sleepers(wpc)' # {} => Sleepers(wpc) # {}
    BY <1>t, <2>1 DEF Sleepers
  <2> SUFFICES ASSUME Sleepers(wpc) # {}
               PROVE  Len(taskList') <= (IF apc THEN 1 ELSE 0)
                                          + Cardinality(Heading')
    BY <2>1, <2>6 DEF NobodySleepsOnWork, Heading
  <2>7. Len(taskList) <= (IF apc THEN 1 ELSE 0) + Cardinality(Heading)
    BY DEF NobodySleepsOnWork, Heading
  <2> QED
    BY <1>f, <1>t, <2>3, <2>5, <2>7
<1>8. ASSUME NEW w \in Workers, Exit(w) PROVE NobodySleepsOnWork'
  <2> DEFINE left == [wpc EXCEPT ![w] = "none"]
  <2>1. /\ left \in [Workers -> WorkerStates]
        /\ \A u \in Workers : left[u] = IF u = w THEN "none" ELSE wpc[u]
    BY <1>t DEF WorkerStates
  <2>2. /\ wpc[w] = "last" /\ (Signal(left) \/ wpc' = left)
        /\ UNCHANGED <<taskList, apc>>
    BY <1>8, Zenon DEF Exit
  <2>3. \A u \in Workers : \/ wpc'[u] = left[u]
                           \/ left[u] = "wait" /\ wpc'[u] = "woken"
    BY <1>t, <2>1, <2>2, SignalStates
  <2>4. /\ \A u \in Workers : wpc'[u] = "wait" => wpc[u] = "wait"
        /\ \A u \in Heading : u \in Heading'
    BY <2>1, <2>2, <2>3 DEF Heading
  <2> QED
    BY <2>2, <2>4, SleepStays
<1>9. CASE DestroyClear
  BY <1>9, <1>e, Zenon DEF DestroyClear
<1>10. CASE DestroyBroadcast
  <2>1. \A u \in Workers : wpc'[u] # "wait"
    BY <1>10 DEF DestroyBroadcast
  <2> QED
    BY <1>s, <2>1
<1>11. CASE \/ DestroyStop \/ DestroyWait \/ DestroyReturn
            \/ DestroySpuriousWakeup \/ UNCHANGED vars
  <2>1. UNCHANGED <<taskList, wpc, apc>>
    BY <1>11, Zenon
    DEF DestroyStop, DestroyWait, DestroyReturn, DestroySpuriousWakeup, vars
  <2> QED
    BY <2>1, SleepStays DEF Heading
<1> QED
  BY <1>1, <1>2, <1>3, <1>4, <1>5, <1>6, <1>7, <1>8, <1>9, <1>10, <1>11
  DEF Next, WorkerStep, DestroyStep

-----------------------------------------------------------------------------
LEMMA InvInit == Init => IInv
<1> SUFFICES ASSUME Init PROVE IInv
  OBVIOUS
<1> USE DEF Init
<1>1. TypeOK
  BY TypeInit
<1>2. MutexGuards
  BY DEF MutexGuards
<1>3. ClearedInv
  BY DEF ClearedInv
<1>4. ASSUME NEW w \in Workers PROVE TakingInv(w)
  BY DEF TakingInv
<1>5. PlacesInv
  BY DEF PlacesInv
<1>6. StartedInv /\ LoadedInv
  BY DEF StartedInv, LoadedInv
<1>7. ExactInv /\ AtLeastInv
  <2>1. Counted = {} /\ Waiting = {}
    BY DEF Counted, Waiting
  <2> QED
    BY <2>1, FS_EmptySet, PoolAssumption
    DEF PoolAssumption, ExactInv, AtLeastInv
<1>8. NobodySleepsOnWork
  BY DEF NobodySleepsOnWork, Sleepers
<1> QED
  BY <1>1, <1>2, <1>3, <1>4, <1>5, <1>6, <1>7, <1>8 DEF IInv

LEMMA InvCorrect == Spec => []IInv
<1>1. IInv /\ [Next]_vars => IInv'
  BY TypeNext, MutexNext, ClearedNext, TakingNext, PlacesNext, StartedNext,
     CountNext, AtLeastNext, SleepNext
  DEF IInv, CountInv
<1> QED
  BY InvInit, <1>1, PTL DEF Spec

(* A thread runs only tasks that were added, and m_count, m_waitCount and  *)
(* what a leaving thread loaded of m_count never fall below zero, although *)
(* destroy() breaks the mutex that guards them.                            *)
THEOREM TypeCorrect == Spec => []TypeOK
<1>1. IInv => TypeOK
  BY DEF IInv
<1> QED
  BY <1>1, InvCorrect, PTL

(* Whoever calls front() and pop_front() finds the task, and the same one, *)
(* for any number of workers: nobody clears the list or takes from it in   *)
(* between, also after destroy() has let go of a mutex it does not own.    *)
THEOREM TakersCorrect == Spec => []TakersFindTheirTask
<1>1. IInv => TakersFindTheirTask
  <2> SUFFICES ASSUME IInv PROVE TakersFindTheirTask
    OBVIOUS
  <2>1. ASSUME NEW w \in Taking
        PROVE  /\ w \in Workers /\ holder = w /\ taskList # <<>>
               /\ wpc[w] = "pop" => wtask[w] = Head(taskList)
    BY DEF Taking, IInv, TakingInv
  <2> QED
    BY <2>1 DEF TakersFindTheirTask
<1> QED
  BY <1>1, InvCorrect, PTL

(* m_count and m_waitCount are the numbers of threads and of waiting ones, *)
(* and the limit holds, for any number of workers (createThread, rontine), *)
(* until destroy() waits without the mutex; and ever, m_count is not less  *)
(* than the threads that have yet to leave the loop.                       *)
THEOREM CountsCorrect == Spec => []CountsAreExact
<1>1. IInv => CountsAreExact
  BY DEF IInv, ExactInv, AtLeastInv, CountsAreExact
<1> QED
  BY <1>1, InvCorrect, PTL

(* While a thread sleeps, every task in the list has an awake thread on    *)
(* its way to the list, or addTask() is about to wake one.                 *)
THEOREM SleepersCorrect == Spec => []NobodySleepsOnWork
<1>1. IInv => NobodySleepsOnWork
  BY DEF IInv
<1> QED
  BY <1>1, InvCorrect, PTL

-----------------------------------------------------------------------------
(* Steps that the queue does not see. *)
LEMMA QueueStays ==
  ASSUME UNCHANGED <<taskList, fresh, done, dropped>>,
         \A u \in Workers : wpc[u] = "run" <=> wpc'[u] = "run",
         \A u \in Workers : wpc[u] = "run" => wtask'[u] = wtask[u]
  PROVE  UNCHANGED Queue!vars
<1>1. Running' = Running
  BY DEF Running
<1> QED
  BY <1>1 DEF Queue!vars

LEMMA QueueNext == IInv /\ [Next]_vars => [Queue!Next]_(Queue!vars)
<1> SUFFICES ASSUME IInv, [Next]_vars PROVE [Queue!Next]_(Queue!vars)
  OBVIOUS
<1> USE DEF pool, history
<1>0. /\ TypeOK /\ PlacesInv /\ \A w \in Workers : TakingInv(w)
      /\ wpc \in [Workers -> WorkerStates]
      /\ wtask \in [Workers -> Tasks \union {NoTask}]
      /\ taskList \in Seq(Tasks) /\ dpc \in DestroyStates
  BY DEF IInv, TypeOK
<1>1. ASSUME Start PROVE UNCHANGED Queue!vars
  <2>1. \A u \in Workers : \/ wpc'[u] = wpc[u]
                           \/ wpc[u] = "none" /\ wpc'[u] = "start"
    <3>1. PICK new \in SUBSET {w \in Workers : wpc[w] = "none"} :
            wpc' = [w \in Workers |-> IF w \in new THEN "start" ELSE wpc[w]]
      BY <1>1, Zenon DEF Start
    <3> QED
      BY <3>1
  <2>2. UNCHANGED <<taskList, fresh, done, dropped, wtask>>
    BY <1>1, Zenon DEF Start
  <2> QED
    BY <2>1, <2>2, QueueStays
<1>2. ASSUME NEW t \in Tasks, AddTask(t) PROVE Queue!Add(t) \/ Queue!Refuse(t)
  <2>1. UNCHANGED <<wpc, wtask, done>> /\ t \in fresh /\ fresh' = fresh \ {t}
    BY <1>2, Zenon DEF AddTask
  <2>2. Running' = Running
    BY <2>1 DEF Running
  <2>3. \/ taskList' = Append(taskList, t) /\ UNCHANGED dropped
        \/ dropped' = dropped \union {t} /\ UNCHANGED taskList
    BY <1>2, Zenon DEF AddTask
  <2> QED
    BY <2>1, <2>2, <2>3 DEF Queue!Add, Queue!Refuse
<1>3. ASSUME AddTaskNotify PROVE UNCHANGED Queue!vars
  <2>1. UNCHANGED <<taskList, fresh, done, dropped, wtask>>
    BY <1>3, Zenon DEF AddTaskNotify
  <2>2. \A u \in Workers : \/ wpc'[u] = wpc[u]
                           \/ wpc[u] \in {"wait", "none"} /\ wpc'[u] \in {"woken", "start"}
    BY <1>0, <1>3, SignalStates, CreateStates DEF AddTaskNotify
  <2> QED
    BY <2>1, <2>2, QueueStays
<1>4. ASSUME NEW w \in Workers,
             \/ Top(w) \/ Reacquire(w) \/ Timeout(w) \/ SpuriousWakeup(w)
             \/ ExitLoad(w) \/ ExitStore(w)
      PROVE  UNCHANGED Queue!vars
  <2>1. UNCHANGED <<taskList, fresh, done, dropped, wtask>>
    BY <1>4, Zenon
    DEF Top, Reacquire, Timeout, SpuriousWakeup, ExitLoad, ExitStore
  <2>2. wpc[w] # "run" /\ \E s \in WorkerStates \ {"run"} : wpc' = [wpc EXCEPT ![w] = s]
    BY <1>4
    DEF Top, Reacquire, Timeout, SpuriousWakeup, ExitLoad, ExitStore, Goto,
        WorkerStates
  <2> QED
    BY <1>0, <2>1, <2>2, QueueStays
<1>5. ASSUME NEW w \in Workers, Front(w) PROVE UNCHANGED Queue!vars
  <2>1. /\ wpc[w] = "front" /\ wpc' = [wpc EXCEPT ![w] = "pop"]
        /\ wtask' = [wtask EXCEPT ![w] = Head(taskList)]
        /\ UNCHANGED <<taskList, fresh, done, dropped>>
    BY <1>5, Zenon DEF Front, Goto
  <2> QED
    BY <1>0, <2>1, QueueStays
<1>6. ASSUME NEW w \in Workers, Pop(w) PROVE Queue!Start
  <2>1. /\ wpc[w] = "pop" /\ wpc' = [wpc EXCEPT ![w] = "run"]
        /\ taskList' = Tail(taskList)
        /\ UNCHANGED <<wtask, fresh, done, dropped>>
    BY <1>6, Zenon DEF Pop, Goto
  <2>2. wtask[w] = Head(taskList) /\ taskList # <<>>
    BY <1>0, <2>1 DEF TakingInv
  <2>3. 1 \in 1 .. Len(taskList) /\ taskList[1] = wtask[w]
    BY <1>0, <2>2
  <2>4. wtask[w] \notin Running \union done \union dropped
    BY <1>0, <2>3 DEF PlacesInv, InList, Running
  <2>5. Running' = Running \union {wtask[w]}
    BY <1>0, <2>1 DEF Running
  <2> QED
    BY <2>1, <2>2, <2>4, <2>5 DEF Queue!Start
<1>7. ASSUME NEW w \in Workers, RunTask(w) PROVE Queue!Finish(wtask[w]) /\ wtask[w] \in Running
  <2>1. /\ wpc[w] = "run" /\ wpc' = [wpc EXCEPT ![w] = "start"]
        /\ wtask' = [wtask EXCEPT ![w] = NoTask]
        /\ done' = done \union {wtask[w]}
        /\ UNCHANGED <<taskList, fresh, dropped>>
    BY <1>7, Zenon DEF RunTask, Goto
  <2>2. wtask[w] \in Running
    BY <2>1 DEF Running
  <2>3. Running' = Running \ {wtask[w]}
    <3>1. \A u \in Workers : wpc'[u] = "run" <=> wpc[u] = "run" /\ u # w
      BY <1>0, <2>1
    <3>2. \A u \in Workers : u # w => wtask'[u] = wtask[u]
      BY <1>0, <2>1
    <3>3. \A u \in Workers : wpc[u] = "run" /\ wtask[u] = wtask[w] => u = w
      BY <1>0, <2>1 DEF PlacesInv
    <3> QED
      BY <3>1, <3>2, <3>3 DEF Running
  <2> QED
    BY <2>1, <2>2, <2>3 DEF Queue!Finish
<1>8. ASSUME NEW w \in Workers, Exit(w) PROVE UNCHANGED Queue!vars
  <2> DEFINE left == [wpc EXCEPT ![w] = "none"]
  <2>1. left \in [Workers -> WorkerStates]
    BY <1>0 DEF WorkerStates
  <2>2. /\ wpc[w] = "last" /\ (Signal(left) \/ wpc' = left)
        /\ UNCHANGED <<taskList, wtask, fresh, done, dropped>>
    BY <1>8, Zenon DEF Exit
  <2>3. \A u \in Workers : \/ wpc'[u] = left[u]
                           \/ left[u] = "wait" /\ wpc'[u] = "woken"
    BY <1>0, <2>1, <2>2, SignalStates
  <2>4. \A u \in Workers : left[u] = "run" <=> wpc[u] = "run"
    BY <1>0, <2>2
  <2> QED
    BY <2>2, <2>3, <2>4, QueueStays
<1>9. ASSUME DestroyClear PROVE Queue!Clear
  <2>1. /\ taskList' = <<>>
        /\ dropped' = dropped \union {taskList[i] : i \in 1 .. Len(taskList)}
        /\ UNCHANGED <<wpc, wtask, fresh, done>>
    BY <1>9, Zenon DEF DestroyClear
  <2>2. Running' = Running
    BY <2>1 DEF Running
  <2> QED
    BY <2>1, <2>2 DEF Queue!Clear
<1>10. ASSUME DestroyBroadcast PROVE UNCHANGED Queue!vars
  <2>1. \A u \in Workers : \/ wpc'[u] = wpc[u]
                           \/ wpc[u] = "wait" /\ wpc'[u] = "woken"
    <3>1. wpc' = [w \in Workers |-> IF wpc[w] = "wait" THEN "woken" ELSE wpc[w]]
      BY <1>10, Zenon DEF DestroyBroadcast
    <3> QED
      BY <3>1
  <2>2. UNCHANGED <<taskList, fresh, done, dropped, wtask>>
    BY <1>10, Zenon DEF DestroyBroadcast
  <2> QED
    BY <2>1, <2>2, QueueStays
<1>11. ASSUME \/ DestroyStop \/ DestroyWait \/ DestroyReturn
              \/ DestroySpuriousWakeup \/ UNCHANGED vars
       PROVE  UNCHANGED Queue!vars
  <2>1. UNCHANGED <<taskList, fresh, done, dropped, wpc, wtask>>
    BY <1>11, Zenon
    DEF DestroyStop, DestroyWait, DestroyReturn, DestroySpuriousWakeup, vars
  <2> QED
    BY <2>1, QueueStays
<1>12. ASSUME NEW t \in Tasks, AddTask(t) PROVE t \in fresh
  BY <1>12, Zenon DEF AddTask
<1> QED
  BY <1>1, <1>2, <1>3, <1>4, <1>5, <1>6, <1>7, <1>8, <1>9, <1>10, <1>11,
     <1>12
  DEF Next, WorkerStep, DestroyStep, Queue!Next

(* The pool implements TaskQueue: tasks start in the order they were       *)
(* added, each at most once, and none starts after destroy() deleted it,   *)
(* although destroy() breaks the mutex.                                    *)
THEOREM QueueRefinement == Spec => ImplementsTaskQueue
<1>1. Init => Queue!Init
  BY DEF Init, Queue!Init, Running
<1> QED
  BY <1>1, QueueNext, InvCorrect, PTL
  DEF Spec, ImplementsTaskQueue, Queue!Spec
=============================================================================
