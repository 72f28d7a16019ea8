--------------------------- MODULE ShmStackProofs ---------------------------
(***************************************************************************)
(* The strong promise of a segment, for every number of threads, packets,  *)
(* blocks and words: until two actors are between load and store at once,  *)
(* the segment is a stack of whole packets and strands none of them.       *)
(***************************************************************************)
EXTENDS ShmSegmentProofs, FiniteSetTheorems, SequenceTheorems

(* Whoever is between load and store is alone there: its local used_sum is *)
(* about the block the counter is about, and what it has copied of that    *)
(* block is all from one packet, or all of it.                             *)
AloneThread(t) ==
  ThreadInside(t) =>
    /\ ~ConsumerInside /\ tused[t] = count + 1
    /\ \A u \in Threads : ThreadInside(u) => u = t
    /\ \A w \in Words :
         tpc[t] = "store" \/ w < tword[t] => block[tused[t]][w] = tpkt[t]

AloneConsumer ==
  ConsumerInside =>
    /\ cused = count
    /\ \A w \in Words :
         cpc = "hand" \/ (cpc = "copy" /\ w < cword) => got[w] = block[cused][w]

AloneInv ==
  ~overlapped => (\A t \in Threads : AloneThread(t)) /\ AloneConsumer

(* A packet is given to one thread only, and finitely many threads are     *)
(* about to post.                                                          *)
Posting == {t \in Threads : tpc[t] = "post"}

GivenInv == todo \intersect begun = {} /\ IsFiniteSet(Posting)

(* The inductive invariant of the strong promise, beside IInv.             *)
StackInv == AloneInv /\ GivenInv /\ NoStrandedBlock

USE SegmentAssumption DEF SegmentAssumption

-----------------------------------------------------------------------------
(* What a step of thread t leaves alone.                                   *)
LEMMA OthersStay ==
  ASSUME TypeOK, NEW t \in Threads, ThreadStep(t),
         NEW u \in Threads, u # t
  PROVE  /\ tpc'[u] = tpc[u] /\ tpkt'[u] = tpkt[u]
         /\ tused'[u] = tused[u] /\ tword'[u] = tword[u]
BY DEF TypeOK, ThreadStep, Load, WriteWord, StoreCount, Post, producer

(* A task that found room, and one that found none.                        *)
LoadRoom(t, p) ==
  /\ tpc[t] = "idle" /\ p \in todo /\ todo' = todo \ {p}
  /\ count < Cap
  /\ tpc' = [tpc EXCEPT ![t] = "write"]
  /\ tpkt' = [tpkt EXCEPT ![t] = p]
  /\ tused' = [tused EXCEPT ![t] = count + 1]
  /\ tword' = [tword EXCEPT ![t] = 1]
  /\ begun' = begun \union {p}
  /\ overlapped' = (overlapped \/ ConsumerInside
                      \/ \E u \in Threads : ThreadInside(u))
  /\ UNCHANGED <<segment, consumer, granted, handed, bounds>>

LoadFull(t, p) ==
  /\ p \in todo /\ todo' = todo \ {p}
  /\ UNCHANGED <<segment, producer, consumer, begun, granted, handed,
                 overlapped, bounds>>

LEMMA LoadSplit ==
  ASSUME NEW t \in Threads, NEW p \in Packets, Load(t, p)
  PROVE  LoadRoom(t, p) \/ LoadFull(t, p)
<1>1. CASE HasRoom(count)
  BY <1>1, Zenon DEF Load, LoadRoom, HasRoom
<1>2. CASE ~HasRoom(count)
  BY <1>2, Zenon DEF Load, LoadFull
<1> QED
  BY <1>1, <1>2

(* Who is alone stays alone if its step and the counter let it.            *)
LEMMA AloneStays ==
  ASSUME AloneInv, overlapped' = overlapped, UNCHANGED <<count, block>>,
         UNCHANGED producer, UNCHANGED consumer
  PROVE  AloneInv'
<1> SUFFICES ASSUME ~overlapped
             PROVE  (\A t \in Threads : AloneThread(t)') /\ AloneConsumer'
  BY DEF AloneInv
<1>1. (\A t \in Threads : AloneThread(t)) /\ AloneConsumer
  BY DEF AloneInv
<1> QED
  BY <1>1 DEF AloneThread, AloneConsumer, ThreadInside, ConsumerInside,
              producer, consumer

-----------------------------------------------------------------------------
LEMMA AloneInit == Init => AloneInv
BY DEF Init, AloneInv, AloneThread, AloneConsumer, ThreadInside, ConsumerInside

LEMMA AloneLoad ==
  ASSUME TypeOK, AloneInv, NEW t \in Threads, NEW p \in Packets, Load(t, p)
  PROVE  AloneInv'
<1>1. CASE LoadFull(t, p)
  BY <1>1, AloneStays DEF LoadFull, segment
<1>2. CASE LoadRoom(t, p)
  <2> SUFFICES ASSUME ~overlapped'
               PROVE  (\A u \in Threads : AloneThread(u)') /\ AloneConsumer'
    BY DEF AloneInv
  <2>1. ~ConsumerInside /\ \A u \in Threads : ~ThreadInside(u)
    BY <1>2 DEF LoadRoom
  <2>2. ~ConsumerInside'
    BY <1>2, <2>1 DEF LoadRoom, ConsumerInside, consumer
  <2>3. /\ tpc'[t] = "write" /\ tused'[t] = count + 1 /\ tword'[t] = 1
        /\ tpkt'[t] = p /\ count' = count
    BY <1>2 DEF LoadRoom, TypeOK, segment
  <2>4. ASSUME NEW u \in Threads, ThreadInside(u)' PROVE u = t
    BY <1>2, <2>1, <2>4 DEF LoadRoom, TypeOK, ThreadInside
  <2>5. AloneThread(t)'
    BY <2>2, <2>3, <2>4 DEF AloneThread, Words
  <2> QED
    BY <2>2, <2>4, <2>5 DEF AloneThread, AloneConsumer
<1> QED
  BY <1>1, <1>2, LoadSplit

LEMMA AloneWrite ==
  ASSUME TypeOK, AloneInv, NEW t \in Threads, ThreadInv(t), WriteWord(t)
  PROVE  AloneInv'
<1> SUFFICES ASSUME ~overlapped'
             PROVE  (\A u \in Threads : AloneThread(u)') /\ AloneConsumer'
  BY DEF AloneInv
<1>0. /\ tpc[t] = "write" /\ UNCHANGED <<count, tpkt, tused, overlapped>>
      /\ UNCHANGED consumer
      /\ block' = [block EXCEPT ![tused[t]] =
                     [block[tused[t]] EXCEPT ![tword[t]] = tpkt[t]]]
  BY DEF WriteWord, history
<1>1. /\ ThreadInside(t) /\ ~ConsumerInside /\ tused[t] = count + 1
      /\ \A u \in Threads : ThreadInside(u) => u = t
      /\ \A w \in Words : w < tword[t] => block[tused[t]][w] = tpkt[t]
  BY <1>0 DEF AloneInv, AloneThread, ThreadInside
<1>2. ~ConsumerInside'
  BY <1>0, <1>1 DEF ConsumerInside, consumer
<1>3. ASSUME NEW u \in Threads, ThreadInside(u)' PROVE u = t
  <2>1. CASE u # t
    BY <1>1, <1>3, <2>1 DEF WriteWord, TypeOK, ThreadInside
  <2> QED
    BY <2>1
<1>4. tused[t] \in Blocks
  BY <1>1 DEF ThreadInv
<1>5. \A w \in Words : w = tword[t] \/ block[tused[t]][w] = tpkt[t]
                        => block'[tused[t]][w] = tpkt[t]
  BY <1>0, <1>4 DEF TypeOK
<1>6. ASSUME NEW w \in Words, tpc'[t] = "store" \/ w < tword'[t]
      PROVE  block'[tused[t]][w] = tpkt[t]
  <2>1. CASE Copied(tword[t])
    <3>1. w = tword[t] \/ w < tword[t]
      BY <2>1 DEF TypeOK, Words, Copied
    <3> QED
      BY <1>1, <1>5, <3>1
  <2>2. CASE ~Copied(tword[t])
    <3>1. tword'[t] = tword[t] + 1 /\ tpc'[t] = "write"
      BY <1>0, <2>2 DEF TypeOK, WriteWord
    <3>2. w = tword[t] \/ w < tword[t]
      BY <1>6, <3>1 DEF TypeOK, Words
    <3> QED
      BY <1>1, <1>5, <3>2
  <2> QED
    BY <2>1, <2>2
<1>7. AloneThread(t)'
  BY <1>0, <1>1, <1>2, <1>3, <1>6 DEF AloneThread
<1> QED
  BY <1>2, <1>3, <1>7 DEF AloneThread, AloneConsumer

LEMMA AloneStore ==
  ASSUME TypeOK, AloneInv, NEW t \in Threads, StoreCount(t)
  PROVE  AloneInv'
<1> SUFFICES ASSUME ~overlapped'
             PROVE  (\A u \in Threads : AloneThread(u)') /\ AloneConsumer'
  BY DEF AloneInv
<1>1. /\ ~ConsumerInside /\ \A u \in Threads : ThreadInside(u) => u = t
  BY DEF AloneInv, AloneThread, ThreadInside, StoreCount, history
<1>2. ~ConsumerInside'
  BY <1>1 DEF StoreCount, ConsumerInside, consumer
<1>3. \A u \in Threads : ~ThreadInside(u)'
  BY <1>1 DEF StoreCount, TypeOK, ThreadInside
<1> QED
  BY <1>2, <1>3 DEF AloneThread, AloneConsumer

LEMMA AlonePost ==
  ASSUME TypeOK, AloneInv, NEW t \in Threads, Post(t)
  PROVE  AloneInv'
<1> SUFFICES ASSUME ~overlapped'
             PROVE  (\A u \in Threads : AloneThread(u)') /\ AloneConsumer'
  BY DEF AloneInv
<1>1. /\ (\A u \in Threads : AloneThread(u)) /\ AloneConsumer
      /\ UNCHANGED <<count, block, tpkt, tused, tword>> /\ UNCHANGED consumer
  BY DEF AloneInv, Post
<1>2. \A u \in Threads : ThreadInside(u)' => ThreadInside(u) /\ tpc'[u] = tpc[u]
  BY DEF Post, TypeOK, ThreadInside
<1>3. AloneConsumer'
  BY <1>1 DEF AloneConsumer, ConsumerInside, consumer
<1>4. ASSUME NEW u \in Threads PROVE AloneThread(u)'
  BY <1>1, <1>2 DEF AloneThread, ConsumerInside, consumer
<1> QED
  BY <1>3, <1>4

(* The consumer outside the segment.                                       *)
LEMMA AloneTake ==
  ASSUME AloneInv, Take \/ TakeFails
  PROVE  AloneInv'
<1> SUFFICES ASSUME ~overlapped'
             PROVE  (\A u \in Threads : AloneThread(u)') /\ AloneConsumer'
  BY DEF AloneInv
<1>1. /\ \A u \in Threads : AloneThread(u)
      /\ UNCHANGED <<count, block>> /\ UNCHANGED producer /\ cpc' = "load"
  BY DEF AloneInv, Take, TakeFails, history, segment
<1>2. ~ConsumerInside'
  BY <1>1 DEF ConsumerInside
<1> QED
  BY <1>1, <1>2 DEF AloneThread, AloneConsumer, ThreadInside, producer

LEMMA AloneConsumerLoad ==
  ASSUME TypeOK, AloneInv, ConsumerLoad
  PROVE  AloneInv'
<1> SUFFICES ASSUME ~overlapped'
             PROVE  (\A u \in Threads : AloneThread(u)') /\ AloneConsumer'
  BY DEF AloneInv
<1>0. UNCHANGED <<count, block>> /\ UNCHANGED producer
  BY DEF ConsumerLoad, segment
<1>1. CASE InRange(count)
  <2>1. /\ cpc' = "copy" /\ cused' = count /\ cword' = 1
        /\ overlapped' = (overlapped \/ \E u \in Threads : ThreadInside(u))
    BY <1>1, Zenon DEF ConsumerLoad
  <2>2. \A u \in Threads : ~ThreadInside(u)'
    BY <1>0, <2>1 DEF ThreadInside, producer
  <2>3. AloneConsumer'
    BY <1>0, <2>1 DEF AloneConsumer, Words
  <2> QED
    BY <2>2, <2>3 DEF AloneThread
<1>2. CASE ~InRange(count)
  <2>1. cpc' = "wait" /\ overlapped' = overlapped
    BY <1>2, Zenon DEF ConsumerLoad
  <2>2. ~ConsumerInside' /\ \A u \in Threads : AloneThread(u)
    BY <2>1 DEF ConsumerInside, AloneInv
  <2> QED
    BY <1>0, <2>2 DEF AloneThread, AloneConsumer, ThreadInside, producer
<1> QED
  BY <1>1, <1>2

(* No thread is inside while the consumer is.                              *)
LEMMA ConsumerAlone ==
  ASSUME AloneInv, ~overlapped, ConsumerInside, NEW u \in Threads
  PROVE  ~ThreadInside(u)
BY DEF AloneInv, AloneThread

LEMMA AloneCopy ==
  ASSUME TypeOK, AloneInv, CopyWord
  PROVE  AloneInv'
<1> SUFFICES ASSUME ~overlapped'
             PROVE  (\A u \in Threads : AloneThread(u)') /\ AloneConsumer'
  BY DEF AloneInv
<1>0. /\ cpc = "copy" /\ ~overlapped /\ ConsumerInside
      /\ UNCHANGED <<count, block, cused>> /\ UNCHANGED producer
      /\ got' = [got EXCEPT ![cword] = block[cused][cword]]
  BY DEF CopyWord, segment, history, ConsumerInside
<1>1. \A u \in Threads : ~ThreadInside(u)'
  BY <1>0, ConsumerAlone DEF ThreadInside, producer
<1>2. cused = count /\ \A w \in Words : w < cword => got[w] = block[cused][w]
  BY <1>0 DEF AloneInv, AloneConsumer
<1>3. ASSUME NEW w \in Words, cpc' = "hand" \/ (cpc' = "copy" /\ w < cword')
      PROVE  got'[w] = block[cused][w]
  <2>1. w = cword \/ w < cword
    BY <1>0, <1>3 DEF CopyWord, Copied, TypeOK, Words
  <2> QED
    BY <1>0, <1>2, <2>1 DEF TypeOK
<1> QED
  BY <1>0, <1>1, <1>2, <1>3 DEF AloneThread, AloneConsumer

LEMMA AloneHandOver ==
  ASSUME AloneInv, HandOver
  PROVE  AloneInv'
<1> SUFFICES ASSUME ~overlapped'
             PROVE  (\A u \in Threads : AloneThread(u)') /\ AloneConsumer'
  BY DEF AloneInv
<1>0. /\ cpc = "hand" /\ cpc' = "store" /\ ~overlapped /\ ConsumerInside
      /\ UNCHANGED <<count, cused>> /\ UNCHANGED producer
  BY DEF HandOver, segment, ConsumerInside
<1>1. \A u \in Threads : ~ThreadInside(u)'
  BY <1>0, ConsumerAlone DEF ThreadInside, producer
<1>2. cused = count
  BY <1>0 DEF AloneInv, AloneConsumer
<1> QED
  BY <1>0, <1>1, <1>2 DEF AloneThread, AloneConsumer

LEMMA AloneConsumerStore ==
  ASSUME AloneInv, ConsumerStore
  PROVE  AloneInv'
<1> SUFFICES ASSUME ~overlapped'
             PROVE  (\A u \in Threads : AloneThread(u)') /\ AloneConsumer'
  BY DEF AloneInv
<1>0. cpc' = "wait" /\ ~overlapped /\ ConsumerInside /\ UNCHANGED producer
  BY DEF ConsumerStore, history, ConsumerInside
<1>1. \A u \in Threads : ~ThreadInside(u)'
  BY <1>0, ConsumerAlone DEF ThreadInside, producer
<1> QED
  BY <1>0, <1>1 DEF AloneThread, AloneConsumer, ConsumerInside

LEMMA AloneNext == IInv /\ AloneInv /\ [Next]_vars => AloneInv'
<1> SUFFICES ASSUME IInv, AloneInv, [Next]_vars PROVE AloneInv'
  OBVIOUS
<1>0. TypeOK /\ \A t \in Threads : ThreadInv(t)
  BY DEF IInv
<1>1. ASSUME NEW t \in Threads, ThreadStep(t) PROVE AloneInv'
  BY <1>0, <1>1, AloneLoad, AloneWrite, AloneStore, AlonePost DEF ThreadStep
<1>2. CASE ConsumerStep \/ TakeFails
  BY <1>0, <1>2, AloneTake, AloneConsumerLoad, AloneCopy, AloneHandOver,
     AloneConsumerStore DEF ConsumerStep
<1>3. CASE SecondStart
  BY <1>3 DEF SecondStart, AloneInv
<1>4. CASE Restart
  BY <1>4 DEF Restart, AloneInv, AloneThread, AloneConsumer, ThreadInside,
              ConsumerInside
<1>5. CASE UNCHANGED vars
  BY <1>5, AloneStays DEF vars, segment, history
<1> QED
  BY <1>1, <1>2, <1>3, <1>4, <1>5 DEF Next

-----------------------------------------------------------------------------
LEMMA GivenInit == Init => GivenInv
<1> SUFFICES ASSUME Init PROVE GivenInv
  OBVIOUS
<1>1. Posting = {}
  BY DEF Init, Posting
<1> QED
  BY <1>1, FS_EmptySet DEF Init, GivenInv

(* How a step changes the set of threads about to post.                    *)
LEMMA PostingLoad ==
  ASSUME TypeOK, NEW t \in Threads, NEW p \in Packets, Load(t, p)
  PROVE  Posting' = Posting
<1>1. CASE LoadFull(t, p)
  BY <1>1 DEF LoadFull, Posting, producer
<1>2. CASE LoadRoom(t, p)
  BY <1>2 DEF LoadRoom, TypeOK, Posting
<1> QED
  BY <1>1, <1>2, LoadSplit

LEMMA PostingWrite ==
  ASSUME TypeOK, NEW t \in Threads, WriteWord(t)
  PROVE  Posting' = Posting
BY DEF WriteWord, TypeOK, Posting

LEMMA PostingStore ==
  ASSUME TypeOK, NEW t \in Threads, StoreCount(t)
  PROVE  Posting' = Posting \union {t} /\ t \notin Posting
BY DEF StoreCount, TypeOK, Posting

LEMMA PostingPost ==
  ASSUME TypeOK, NEW t \in Threads, Post(t)
  PROVE  Posting' = Posting \ {t} /\ t \in Posting
BY DEF Post, TypeOK, Posting

LEMMA GivenNext == TypeOK /\ GivenInv /\ [Next]_vars => GivenInv'
<1> SUFFICES ASSUME TypeOK, GivenInv, [Next]_vars PROVE GivenInv'
  OBVIOUS
<1>0. todo \intersect begun = {} /\ IsFiniteSet(Posting)
  BY DEF GivenInv
<1>1. ASSUME NEW t \in Threads, NEW p \in Packets, Load(t, p) PROVE GivenInv'
  <2>1. todo' \intersect begun' = {}
    BY <1>0, <1>1, LoadSplit DEF LoadRoom, LoadFull
  <2> QED
    BY <1>0, <1>1, <2>1, PostingLoad DEF GivenInv
<1>2. ASSUME NEW t \in Threads, WriteWord(t) \/ StoreCount(t) \/ Post(t)
      PROVE  GivenInv'
  <2>1. UNCHANGED <<todo, begun>>
    BY <1>2 DEF WriteWord, StoreCount, Post, history
  <2>2. IsFiniteSet(Posting')
    BY <1>0, <1>2, PostingWrite, PostingStore, PostingPost, FS_AddElement,
       FS_RemoveElement
  <2> QED
    BY <1>0, <2>1, <2>2 DEF GivenInv
<1>3. CASE Restart
  <2>1. Posting' = {} /\ begun' = {}
    BY <1>3 DEF Restart, Posting
  <2> QED
    BY <2>1, FS_EmptySet DEF GivenInv
<1>4. CASE UNCHANGED <<tpc, todo, begun>>
  BY <1>0, <1>4 DEF GivenInv, Posting
<1> QED
  BY <1>1, <1>2, <1>3, <1>4
  DEF Next, ThreadStep, ConsumerStep, Take, ConsumerLoad, CopyWord, HandOver,
      ConsumerStore, TakeFails, SecondStart, vars, producer, history

-----------------------------------------------------------------------------
LEMMA StrandedInit == Init => NoStrandedBlock
<1> SUFFICES ASSUME Init PROVE NoStrandedBlock
  OBVIOUS
<1>1. Posting = {} /\ Depth = 0 /\ Permits = 0
  BY DEF Init, Posting, Depth, Permits
<1> QED
  BY <1>1, FS_EmptySet DEF NoStrandedBlock, Posting

(* The number of threads about to post, as a number.                       *)
LEMMA StrandedIs ==
  NoStrandedBlock <=> (~overlapped => Depth <= Permits + Cardinality(Posting))
BY DEF NoStrandedBlock, Posting

LEMMA StrandedIsAfter ==
  NoStrandedBlock' <=>
    (~overlapped' => Depth' <= Permits' + Cardinality(Posting'))
BY DEF NoStrandedBlock, Posting

LEMMA PermitsType ==
  ASSUME TypeOK PROVE Permits \in Nat /\ count \in Nat /\ sem \in Nat
BY DEF TypeOK, Permits

LEMMA StrandedThread ==
  ASSUME IInv, StackInv, NEW t \in Threads, ThreadStep(t)
  PROVE  NoStrandedBlock'
<1> SUFFICES ASSUME ~overlapped'
             PROVE  Depth' <= Permits' + Cardinality(Posting')
  BY StrandedIsAfter
<1>0. /\ TypeOK /\ IsFiniteSet(Posting) /\ Cardinality(Posting) \in Nat
      /\ Permits \in Nat /\ count \in Nat /\ sem \in Nat
  BY FS_CardinalityType, PermitsType DEF IInv, StackInv, GivenInv
<1>1. ~overlapped /\ UNCHANGED consumer
  <2>1. ASSUME NEW p \in Packets, Load(t, p)
        PROVE  ~overlapped /\ UNCHANGED consumer
    <3>1. CASE LoadRoom(t, p)
      BY <3>1 DEF LoadRoom
    <3>2. CASE LoadFull(t, p)
      BY <3>2 DEF LoadFull
    <3> QED
      BY <2>1, <3>1, <3>2, LoadSplit
  <2>2. CASE WriteWord(t) \/ StoreCount(t) \/ Post(t)
    BY <2>2 DEF WriteWord, StoreCount, Post, history
  <2> QED
    BY <2>1, <2>2 DEF ThreadStep
<1>2. Depth <= Permits + Cardinality(Posting)
  BY <1>1, StrandedIs DEF StackInv
<1>3. CASE Posting' = Posting /\ UNCHANGED <<count, sem>>
  BY <1>1, <1>2, <1>3 DEF Depth, Permits, consumer
<1>4. CASE StoreCount(t)
  <2>1. Cardinality(Posting') = Cardinality(Posting) + 1
    BY <1>0, <1>4, PostingStore, FS_AddElement
  <2>2. count' = count + 1 /\ ~ConsumerInside /\ sem' = sem
    BY <1>1, <1>4
    DEF StoreCount, StackInv, AloneInv, AloneThread, ThreadInside
  <2>3. Depth = count /\ Depth' = count + 1 /\ Permits' = Permits
    BY <1>1, <2>2 DEF Depth, Permits, ConsumerInside, consumer
  <2> QED
    BY <1>0, <1>2, <2>1, <2>3
<1>5. CASE Post(t)
  <2>1. /\ Cardinality(Posting') = Cardinality(Posting) - 1
        /\ Cardinality(Posting') \in Nat
    BY <1>0, <1>5, PostingPost, FS_RemoveElement, FS_CardinalityType
  <2>2. Permits' = Permits + 1 /\ Depth' = Depth
    BY <1>0, <1>1, <1>5 DEF Post, Depth, Permits, consumer
  <2> QED
    BY <1>0, <1>2, <2>1, <2>2 DEF Depth
<1>6. ASSUME NEW p \in Packets, Load(t, p)
      PROVE  Posting' = Posting /\ UNCHANGED <<count, sem>>
  BY <1>0, <1>6, PostingLoad DEF Load, segment
<1>7. ASSUME WriteWord(t)
      PROVE  Posting' = Posting /\ UNCHANGED <<count, sem>>
  BY <1>0, <1>7, PostingWrite DEF WriteWord
<1> QED
  BY <1>3, <1>4, <1>5, <1>6, <1>7 DEF ThreadStep

LEMMA StrandedConsumer ==
  ASSUME IInv, StackInv, ConsumerStep \/ TakeFails
  PROVE  NoStrandedBlock'
<1> SUFFICES ASSUME ~overlapped'
             PROVE  Depth' <= Permits' + Cardinality(Posting')
  BY StrandedIsAfter
<1>0. /\ TypeOK /\ Cardinality(Posting) \in Nat
      /\ Permits \in Nat /\ count \in Nat /\ sem \in Nat
  BY FS_CardinalityType, PermitsType DEF IInv, StackInv, GivenInv
<1>1. ~overlapped /\ Posting' = Posting
  <2>1. UNCHANGED producer
    BY DEF ConsumerStep, Take, TakeFails, ConsumerLoad, CopyWord, HandOver,
           ConsumerStore
  <2>2. Posting' = Posting
    BY <2>1 DEF producer, Posting
  <2>3. ASSUME ConsumerLoad PROVE ~overlapped
    BY <2>3 DEF ConsumerLoad
  <2>4. ASSUME Take \/ CopyWord \/ ConsumerStore PROVE ~overlapped
    BY <2>4 DEF Take, CopyWord, ConsumerStore, history
  <2>5. ASSUME TakeFails \/ HandOver PROVE ~overlapped
    BY <2>5 DEF TakeFails, HandOver
  <2> QED
    BY <2>2, <2>3, <2>4, <2>5 DEF ConsumerStep
<1>2. Depth <= Permits + Cardinality(Posting)
  BY <1>1, StrandedIs DEF StackInv
<1>3. CASE Take
  BY <1>0, <1>1, <1>2, <1>3 DEF Take, Depth, Permits
<1>4. CASE TakeFails
  BY <1>0, <1>1, <1>2, <1>4 DEF TakeFails, Depth, Permits, segment
<1>5. CASE ConsumerLoad
  <2>1. CASE InRange(count)
    BY <1>0, <1>1, <1>2, <1>5, <2>1 DEF ConsumerLoad, Depth, Permits, segment
  <2>2. CASE ~InRange(count)
    <3>1. Depth' = 0
      BY <1>0, <1>5, <2>2 DEF ConsumerLoad, InRange, TypeOK, Depth, segment
    <3>2. cpc' = "wait" /\ sem' = sem
      BY <1>5, <2>2, Zenon DEF ConsumerLoad, segment
    <3>3. Permits' = sem
      BY <1>0, <3>2 DEF Permits
    <3> QED
      BY <1>0, <1>1, <3>1, <3>3
  <2> QED
    BY <2>1, <2>2
<1>6. CASE CopyWord
  BY <1>0, <1>1, <1>2, <1>6 DEF CopyWord, Depth, Permits, segment
<1>7. CASE HandOver
  BY <1>0, <1>1, <1>2, <1>7 DEF HandOver, Depth, Permits, segment
<1>8. CASE ConsumerStore
  <2>1. cused = count
    BY <1>1, <1>8
    DEF ConsumerStore, StackInv, AloneInv, AloneConsumer, ConsumerInside
  <2> QED
    BY <1>0, <1>1, <1>2, <1>8, <2>1 DEF ConsumerStore, Depth, Permits
<1> QED
  BY <1>3, <1>4, <1>5, <1>6, <1>7, <1>8 DEF ConsumerStep

LEMMA StrandedNext == IInv /\ StackInv /\ [Next]_vars => NoStrandedBlock'
<1> SUFFICES ASSUME IInv, StackInv, [Next]_vars PROVE NoStrandedBlock'
  OBVIOUS
<1>1. CASE Restart
  <2>1. Posting' = {} /\ Depth' = 0 /\ Permits' = 0
    BY <1>1 DEF Restart, ResetSegment, Posting, Depth, Permits
  <2> QED
    BY <2>1, FS_EmptySet, StrandedIsAfter
<1>2. CASE SecondStart
  BY <1>2, StrandedIsAfter DEF SecondStart
<1>3. CASE UNCHANGED vars
  BY <1>3
  DEF vars, segment, producer, consumer, history, StackInv, NoStrandedBlock,
      Depth, Permits
<1> QED
  BY <1>1, <1>2, <1>3, StrandedThread, StrandedConsumer DEF Next

LEMMA StackInit == Init => StackInv
BY AloneInit, GivenInit, StrandedInit DEF StackInv

LEMMA StackNext == IInv /\ StackInv /\ [Next]_vars => StackInv'
<1>1. IInv /\ StackInv /\ [Next]_vars => AloneInv' /\ GivenInv'
  BY AloneNext, GivenNext DEF StackInv, IInv
<1> QED
  BY <1>1, StrandedNext DEF StackInv

LEMMA StackCorrect == Spec => []StackInv
BY StackInit, StackNext, InvCorrect, PTL DEF Spec

(* Until two actors overlap, no packet is left in the segment with neither *)
(* a token in the semaphore, nor a consumer on its way to it, nor a thread *)
(* about to post one: the consumer never sleeps on a block.                *)
THEOREM StrandedCorrect == Spec => []NoStrandedBlock
<1>1. StackInv => NoStrandedBlock
  BY DEF StackInv
<1> QED
  BY <1>1, StackCorrect, PTL

-----------------------------------------------------------------------------
(* The stack seen through the mapping.                                     *)
Contents == [i \in 1 .. Depth |-> block[i]]
WordSet == Packets \union {NoPacket}

LEMMA DepthType ==
  ASSUME IInv, StackInv, ~overlapped
  PROVE  /\ Depth \in Nat /\ Depth <= Cap
         /\ (cpc # "store" => Depth = count)
         /\ (cpc = "store" => Depth = count - 1)
<1>1. count \in 0 .. Cap
  BY DEF IInv, TypeOK
<1>2. ASSUME cpc = "store" PROVE count \in Blocks
  BY <1>2 DEF IInv, ConsumerInv, StackInv, AloneInv, AloneConsumer,
              ConsumerInside
<1> QED
  BY <1>1, <1>2 DEF Depth, Blocks

(* A sequence made of the first n blocks.                                  *)
LEMMA FirstBlocks ==
  ASSUME NEW S, NEW f, NEW n \in Nat, \A i \in 1 .. n : f[i] \in S
  PROVE  /\ [i \in 1 .. n |-> f[i]] \in Seq(S)
         /\ Len([i \in 1 .. n |-> f[i]]) = n
OBVIOUS

(* One block more is a push, one block less a pop.                         *)
LEMMA OneMore ==
  ASSUME NEW S, NEW f, NEW n \in Nat, \A i \in 1 .. n + 1 : f[i] \in S
  PROVE  [i \in 1 .. n + 1 |-> f[i]] = Append([i \in 1 .. n |-> f[i]], f[n + 1])
<1> DEFINE s == [i \in 1 .. n |-> f[i]]
           r == [i \in 1 .. n + 1 |-> f[i]]
<1>1. s \in Seq(S) /\ Len(s) = n /\ r \in Seq(S) /\ Len(r) = n + 1
  BY FirstBlocks
<1>2. f[n + 1] \in S
  OBVIOUS
<1>3. /\ Append(s, f[n + 1]) \in Seq(S) /\ Len(Append(s, f[n + 1])) = n + 1
      /\ \A i \in 1 .. n : Append(s, f[n + 1])[i] = s[i]
      /\ Append(s, f[n + 1])[n + 1] = f[n + 1]
  BY <1>1, <1>2, AppendProperties
<1>4. \A i \in 1 .. n + 1 : r[i] = Append(s, f[n + 1])[i]
  BY <1>3
<1> HIDE DEF s, r
<1>5. r = Append(s, f[n + 1])
  BY <1>1, <1>3, <1>4, SeqEqual
<1> QED
  BY <1>5 DEF s, r

LEMMA OneLess ==
  ASSUME NEW S, NEW s \in Seq(S), NEW r \in Seq(S), Len(s) = Len(r) + 1,
         \A i \in 1 .. Len(r) : r[i] = s[i]
  PROVE  s # <<>> /\ Lifo!Last(s) = s[Len(s)] /\ r = Lifo!Front(s)
<1> DEFINE n == Len(r)
<1>1. n \in Nat /\ Len(s) = n + 1 /\ \A i \in 1 .. n : s[i] \in S
  OBVIOUS
<1>2. /\ SubSeq(s, 1, n) \in Seq(S)
      /\ Len(SubSeq(s, 1, n)) = IF 1 <= n THEN n - 1 + 1 ELSE 0
      /\ \A i \in 1 .. n - 1 + 1 : SubSeq(s, 1, n)[i] = s[1 + i - 1]
  BY <1>1, SubSeqProperties
<1>3. r = SubSeq(s, 1, n)
  BY <1>1, <1>2, SeqEqual
<1> QED
  BY <1>1, <1>3 DEF Lifo!Last, Lifo!Front

(* Equal depth and equal blocks below it: an equal stack.                  *)
LEMMA ContentsStay ==
  ASSUME Depth' = Depth, \A i \in 1 .. Depth : block'[i] = block[i]
  PROVE  Contents' = Contents
BY DEF Contents

LEMMA LifoLoad ==
  ASSUME IInv, StackInv, NEW t \in Threads, NEW p \in Packets, Load(t, p),
         ~overlapped'
  PROVE  UNCHANGED <<Stored, Contents, handed>>
<1>1. CASE LoadFull(t, p)
  BY <1>1
  DEF LoadFull, Stored, ThreadInside, Contents, Depth, segment, producer,
      consumer
<1>2. CASE LoadRoom(t, p)
  <2>1. /\ \A u \in Threads : ~ThreadInside(u)
        /\ p \notin begun /\ begun' = begun \union {p}
    BY <1>2 DEF LoadRoom, StackInv, GivenInv
  <2>2. /\ \A u \in Threads : ThreadInside(u)' <=> u = t
        /\ tpkt'[t] = p
    BY <1>2, <2>1 DEF LoadRoom, IInv, TypeOK, ThreadInside
  <2>3. Stored = begun
    BY <2>1 DEF Stored
  <2>4. {tpkt'[u] : u \in {v \in Threads : ThreadInside(v)'}} = {p}
    BY <2>2
  <2>5. Stored' = begun' \ {p}
    BY <2>4 DEF Stored
  <2>6. Contents' = Contents /\ handed' = handed
    BY <1>2 DEF LoadRoom, Contents, Depth, segment, consumer
  <2> QED
    BY <2>1, <2>3, <2>5, <2>6
<1> QED
  BY <1>1, <1>2, LoadSplit

LEMMA LifoWrite ==
  ASSUME IInv, StackInv, NEW t \in Threads, WriteWord(t), ~overlapped'
  PROVE  UNCHANGED <<Stored, Contents, handed>>
<1>0. /\ ThreadInside(t) /\ ~overlapped /\ ~ConsumerInside
      /\ tused[t] = count + 1 /\ TypeOK
  BY DEF WriteWord, history, ThreadInside, IInv, StackInv, AloneInv,
         AloneThread
<1>1. \A u \in Threads : ThreadInside(u)' <=> ThreadInside(u)
  BY DEF WriteWord, IInv, TypeOK, ThreadInside
<1>2. Stored' = Stored /\ handed' = handed
  BY <1>1 DEF WriteWord, Stored, history
<1>3. Depth = count /\ Depth' = count
  BY <1>0 DEF WriteWord, Depth, ConsumerInside, consumer
<1>4. ASSUME NEW i \in 1 .. count PROVE block'[i] = block[i]
  <2>1. i \in Blocks /\ i # tused[t]
    BY <1>0 DEF TypeOK, Blocks
  <2> QED
    BY <1>0, <2>1 DEF WriteWord, TypeOK
<1> QED
  BY <1>2, <1>3, <1>4, ContentsStay

(* The store of the counter pushes a whole packet.                         *)
LEMMA LifoStore ==
  ASSUME IInv, StackInv, NEW t \in Threads, StoreCount(t), ~overlapped'
  PROVE  Lifo!Push
<1>0. /\ tpc[t] = "store" /\ ThreadInside(t) /\ ~overlapped /\ TypeOK
      /\ UNCHANGED <<block, tpkt, begun, handed>> /\ UNCHANGED consumer
      /\ count' = tused[t]
  BY DEF StoreCount, history, ThreadInside, IInv
<1>1. /\ ~ConsumerInside /\ tused[t] = count + 1
      /\ \A u \in Threads : ThreadInside(u) => u = t
      /\ \A w \in Words : block[tused[t]][w] = tpkt[t]
  BY <1>0 DEF StackInv, AloneInv, AloneThread
<1>2. tused[t] \in Blocks /\ tpkt[t] \in begun /\ tpkt[t] \in Packets
  BY <1>0 DEF IInv, ThreadInv, TypeOK
<1>3. \A u \in Threads : ~ThreadInside(u)'
  BY <1>0, <1>1 DEF StoreCount, TypeOK, ThreadInside
<1>4. {tpkt[u] : u \in {v \in Threads : ThreadInside(v)}} = {tpkt[t]}
  BY <1>0, <1>1
<1>5. Stored = begun \ {tpkt[t]} /\ Stored' = begun
  BY <1>0, <1>3, <1>4 DEF Stored
<1>6. Depth = count /\ Depth' = count + 1 /\ count \in Nat
  BY <1>0, <1>1 DEF Depth, ConsumerInside, consumer, TypeOK
<1>7. block[count + 1] = Lifo!WholeBlock(tpkt[t])
  <2>1. block[count + 1] \in [Words -> Packets \union {NoPacket}]
    BY <1>0, <1>1, <1>2 DEF TypeOK
  <2> QED
    BY <1>1, <2>1 DEF Lifo!WholeBlock
<1>8. \A i \in 1 .. count + 1 : block[i] \in [Words -> WordSet]
  <2>1. \A i \in 1 .. count + 1 : i \in Blocks
    BY <1>1, <1>2, <1>6 DEF Blocks
  <2> QED
    BY <1>0, <2>1 DEF TypeOK, WordSet
<1>9. [i \in 1 .. count + 1 |-> block[i]]
        = Append([i \in 1 .. count |-> block[i]], block[count + 1])
  BY <1>6, <1>8, OneMore
<1>10. Contents' = Append(Contents, Lifo!WholeBlock(tpkt[t]))
  BY <1>0, <1>6, <1>7, <1>9 DEF Contents
<1>11. /\ tpkt[t] \in Packets \ Stored /\ Stored' = Stored \union {tpkt[t]}
       /\ handed' = handed
  BY <1>0, <1>2, <1>5
<1> QED
  BY <1>10, <1>11 DEF Contents, Lifo!Push

LEMMA LifoPost ==
  ASSUME IInv, StackInv, NEW t \in Threads, Post(t)
  PROVE  UNCHANGED <<Stored, Contents, handed>>
<1>1. \A u \in Threads : ThreadInside(u)' <=> ThreadInside(u)
  BY DEF Post, IInv, TypeOK, ThreadInside
<1> QED
  BY <1>1 DEF Post, Stored, Contents, Depth, consumer

(* The hand-over pops the top of the stack.                                *)
LEMMA LifoHandOver ==
  ASSUME IInv, StackInv, HandOver, ~overlapped'
  PROVE  Lifo!Pop
<1>0. /\ cpc = "hand" /\ cpc' = "store" /\ ~overlapped /\ TypeOK
      /\ ConsumerInside /\ handed' = Append(handed, got)
      /\ UNCHANGED <<count, block, begun>> /\ UNCHANGED producer
  BY DEF HandOver, segment, IInv, ConsumerInside
<1>1. /\ cused = count /\ \A w \in Words : got[w] = block[cused][w]
      /\ cused \in Blocks
  BY <1>0 DEF StackInv, AloneInv, AloneConsumer, IInv, ConsumerInv
<1>2. got = block[count]
  BY <1>0, <1>1 DEF TypeOK
<1>3. Stored' = Stored
  BY <1>0 DEF Stored, ThreadInside, producer
<1> DEFINE n == count - 1
<1>4. n \in Nat /\ n + 1 = count /\ Depth = n + 1 /\ Depth' = n
  BY <1>0, <1>1 DEF Depth, Blocks
<1>5. \A i \in 1 .. n + 1 : block[i] \in [Words -> WordSet]
  <2>1. \A i \in 1 .. n + 1 : i \in Blocks
    BY <1>1, <1>4 DEF Blocks
  <2> QED
    BY <1>0, <2>1 DEF TypeOK, WordSet
<1> HIDE DEF n
<1>6. /\ Contents = [i \in 1 .. n + 1 |-> block[i]]
      /\ Contents' = [i \in 1 .. n |-> block[i]]
  BY <1>0, <1>4 DEF Contents
<1> DEFINE S == [Words -> WordSet]
<1>7. /\ Contents \in Seq(S) /\ Len(Contents) = n + 1
      /\ Contents' \in Seq(S) /\ Len(Contents') = n
  BY <1>4, <1>5, <1>6, FirstBlocks
<1>8. \A i \in 1 .. n : Contents'[i] = Contents[i]
  BY <1>4, <1>6
<1>9. /\ Contents # <<>> /\ Lifo!Last(Contents) = Contents[n + 1]
      /\ Contents' = Lifo!Front(Contents)
  <2> HIDE DEF S
  <2> QED
    BY <1>4, <1>7, <1>8, OneLess
<1>10. Contents[n + 1] = got
  BY <1>2, <1>4, <1>6
<1> QED
  BY <1>0, <1>3, <1>9, <1>10 DEF Contents, Lifo!Pop

LEMMA LifoConsumer ==
  ASSUME IInv, StackInv, ~overlapped',
         Take \/ TakeFails \/ ConsumerLoad \/ CopyWord \/ ConsumerStore
  PROVE  UNCHANGED <<Stored, Contents, handed>>
<1>1. UNCHANGED <<block, producer, begun, handed>>
  BY DEF Take, TakeFails, ConsumerLoad, CopyWord, ConsumerStore, segment,
         history
<1>2. Stored' = Stored
  BY <1>1 DEF Stored, ThreadInside, producer
<1>3. Depth' = Depth
  <2>1. CASE ConsumerStore
    <3>1. cused = count /\ cpc = "store"
      BY <2>1
      DEF ConsumerStore, history, StackInv, AloneInv, AloneConsumer,
          ConsumerInside
    <3> QED
      BY <2>1, <3>1 DEF ConsumerStore, Depth
  <2>2. CASE ConsumerLoad
    BY <2>2 DEF ConsumerLoad, Depth, segment
  <2>3. CASE Take \/ TakeFails \/ CopyWord
    BY <2>3 DEF Take, TakeFails, CopyWord, Depth, segment
  <2> QED
    BY <2>1, <2>2, <2>3
<1> QED
  BY <1>1, <1>2, <1>3 DEF Contents

LEMMA LifoRestart ==
  ASSUME Restart
  PROVE  Lifo!Restart
<1>1. Stored' = {} /\ Depth' = 0 /\ handed' = <<>>
  BY DEF Restart, ResetSegment, Stored, Depth
<1> QED
  BY <1>1 DEF Lifo!Restart

LEMMA LifoNext ==
  IInv /\ StackInv /\ [Next]_vars
    => overlapped' \/ Lifo!Next \/ UNCHANGED Lifo!vars
<1> SUFFICES ASSUME IInv, StackInv, [Next]_vars, ~overlapped'
             PROVE  Lifo!Next \/ UNCHANGED Lifo!vars
  OBVIOUS
<1>0. UNCHANGED <<Stored, Contents, handed>> => UNCHANGED Lifo!vars
  BY DEF Lifo!vars, Contents
<1>1. ASSUME NEW t \in Threads, ThreadStep(t)
      PROVE  Lifo!Push \/ UNCHANGED <<Stored, Contents, handed>>
  BY <1>1, LifoLoad, LifoWrite, LifoStore, LifoPost DEF ThreadStep
<1>2. ASSUME ConsumerStep \/ TakeFails
      PROVE  Lifo!Pop \/ UNCHANGED <<Stored, Contents, handed>>
  BY <1>2, LifoConsumer, LifoHandOver DEF ConsumerStep
<1>3. ASSUME UNCHANGED vars PROVE UNCHANGED <<Stored, Contents, handed>>
  BY <1>3 DEF vars, segment, producer, consumer, history, Stored, Contents,
              Depth, ThreadInside
<1>4. ~SecondStart
  BY DEF SecondStart
<1> QED
  BY <1>0, <1>1, <1>2, <1>3, <1>4, LifoRestart DEF Next, Lifo!Next

(* Until two actors overlap, every step of the segment is a push of one    *)
(* whole packet, a pop of the newest one, a restart or nothing: between    *)
(* its load and its store each actor is alone.                             *)
THEOREM LifoCorrect == Spec => LifoUntilOverlap
<1>1. IInv /\ StackInv /\ [Next]_vars
        => [overlapped' \/ Lifo!Next \/ UNCHANGED Lifo!vars]_vars
  BY LifoNext
<1> QED
  BY <1>1, InvCorrect, StackCorrect, PTL DEF Spec, LifoUntilOverlap
=============================================================================
