-------------------------- MODULE ShmSegmentProofs --------------------------
(***************************************************************************)
(* Proofs about ShmSegment, for every number of threads, packets, blocks   *)
(* and words and every bound on failures.                                  *)
(***************************************************************************)
EXTENDS ShmSegment, TLAPS

(* What a thread between its load and its store knows, however stale its   *)
(* used_sum is: the blocks below the one it fills were filled, and so are  *)
(* the words of its own that it has copied already.                        *)
ThreadInv(t) ==
  ThreadInside(t) =>
    /\ tused[t] \in Blocks
    /\ tpkt[t] \in begun
    /\ \A i \in 1 .. (tused[t] - 1) : Filled(i)
    /\ \A w \in Words :
         tpc[t] = "store" \/ w < tword[t] => block[tused[t]][w] \in begun

(* The same for the consumer, and for the words it has copied out.         *)
ConsumerInv ==
  /\ ConsumerInside => cused \in Blocks /\ \A i \in 1 .. cused : Filled(i)
  /\ \A w \in Words :
       cpc = "hand" \/ (cpc = "copy" /\ w < cword) => got[w] \in begun

(* The inductive invariant.  NoUnfilledBlock alone is not inductive: a     *)
(* store of a stale counter is harmless only because the storing actor     *)
(* found all those blocks filled, and filled blocks stay filled.           *)
IInv ==
  /\ TypeOK
  /\ NoUnfilledBlock
  /\ \A t \in Threads : ThreadInv(t)
  /\ ConsumerInv

-----------------------------------------------------------------------------
LEMMA TypeInit == Init => TypeOK
<1> SUFFICES ASSUME Init PROVE TypeOK
  OBVIOUS
<1> USE SegmentAssumption DEF SegmentAssumption, Init, Blocks, Words
<1>1. overlapped \in BOOLEAN
  OBVIOUS
<1>2. handed \in Seq([Words -> Packets \union {NoPacket}])
  OBVIOUS
<1>3. /\ count \in 0 .. Cap /\ tused \in [Threads -> 0 .. Cap] /\ cused \in 0 .. Cap
      /\ block \in [Blocks -> [Words -> Packets \union {NoPacket}]]
  OBVIOUS
<1>4. /\ tword \in [Threads -> Words] /\ cword \in Words
      /\ tpkt \in [Threads -> Packets \union {NoPacket}]
      /\ tpc \in [Threads -> {"idle", "write", "store", "post"}]
  OBVIOUS
<1> QED
  BY <1>1, <1>2, <1>3, <1>4 DEF TypeOK

LEMMA TypeNext == TypeOK /\ ConsumerInv /\ [Next]_vars => TypeOK'
<1> SUFFICES ASSUME TypeOK, ConsumerInv, [Next]_vars PROVE TypeOK'
  OBVIOUS
<1> USE SegmentAssumption DEF SegmentAssumption, TypeOK, Blocks, Words
<1>1. ASSUME NEW t \in Threads, NEW p \in Packets, Load(t, p) PROVE TypeOK'
  <2>1. overlapped' \in BOOLEAN
    BY <1>1 DEF Load
  <2>2. CASE HasRoom(count)
    <3>1. count + 1 \in 0 .. Cap
      BY <2>2 DEF HasRoom
    <3>2. /\ tused' \in [Threads -> 0 .. Cap]
          /\ tpkt' \in [Threads -> Packets \union {NoPacket}]
          /\ tword' \in [Threads -> Words]
          /\ tpc' \in [Threads -> {"idle", "write", "store", "post"}]
          /\ begun' \subseteq Packets /\ todo' \subseteq Packets
      <4>1. /\ tpc' = [tpc EXCEPT ![t] = "write"]
            /\ tpkt' = [tpkt EXCEPT ![t] = p]
            /\ tused' = [tused EXCEPT ![t] = count + 1]
            /\ tword' = [tword EXCEPT ![t] = 1]
            /\ begun' = begun \union {p}
            /\ todo' = todo \ {p}
        BY <1>1, <2>2, Zenon DEF Load
      <4> QED
        BY <3>1, <4>1
    <3>3. UNCHANGED <<segment, consumer, granted, handed, bounds>>
      BY <1>1 DEF Load
    <3> QED
      BY <2>1, <3>2, <3>3 DEF segment, consumer, bounds
  <2>3. CASE ~HasRoom(count)
    BY <1>1, <2>1, <2>3 DEF Load, segment, producer, consumer, bounds
  <2> QED
    BY <2>2, <2>3
<1>2. ASSUME NEW t \in Threads, WriteWord(t) PROVE TypeOK'
  <2>1. block' \in [Blocks -> [Words -> Packets \union {NoPacket}]]
    <3>1. /\ tpkt[t] \in Packets \union {NoPacket}
          /\ tused[t] \in 0 .. Cap /\ tword[t] \in Words
      OBVIOUS
    <3>2. ASSUME tused[t] \in Blocks
          PROVE  [block[tused[t]] EXCEPT ![tword[t]] = tpkt[t]]
                   \in [Words -> Packets \union {NoPacket}]
      BY <3>1, <3>2
    <3>3. block' = [block EXCEPT ![tused[t]] =
                      [block[tused[t]] EXCEPT ![tword[t]] = tpkt[t]]]
      BY <1>2 DEF WriteWord
    <3> QED
      BY <3>2, <3>3
  <2>2. tword' \in [Threads -> Words]
    <3>1. tword[t] \in Words /\ (tword[t] # NWords => tword[t] + 1 \in Words)
      OBVIOUS
    <3>2. \/ tword' = tword
          \/ tword[t] # NWords /\ tword' = [tword EXCEPT ![t] = tword[t] + 1]
      BY <1>2 DEF WriteWord, Copied
    <3> QED
      BY <3>1, <3>2
  <2> QED
    BY <1>2, <2>1, <2>2 DEF WriteWord, Copied, consumer, history, bounds
<1>3. ASSUME NEW t \in Threads, StoreCount(t) PROVE TypeOK'
  BY <1>3 DEF StoreCount, consumer, history, bounds
<1>4. ASSUME NEW t \in Threads, Post(t) PROVE TypeOK'
  BY <1>4 DEF Post, consumer, bounds
<1>5. CASE Take
  BY <1>5 DEF Take, producer, history, bounds
<1>6. CASE ConsumerLoad
  <2>1. overlapped' \in BOOLEAN
    BY <1>6 DEF ConsumerLoad
  <2>2. cused' \in 0 .. Cap /\ cword' \in Words
        /\ cpc' \in {"wait", "load", "copy", "hand", "store"}
    BY <1>6 DEF ConsumerLoad
  <2> QED
    BY <1>6, <2>1, <2>2 DEF ConsumerLoad, segment, producer, bounds
<1>7. CASE CopyWord
  <2>1. cused \in Blocks
    BY <1>7 DEF CopyWord, ConsumerInv, ConsumerInside
  <2>2. block[cused][cword] \in Packets \union {NoPacket}
    BY <2>1
  <2>3. got' \in [Words -> Packets \union {NoPacket}]
    BY <1>7, <2>2 DEF CopyWord
  <2>4. cword' \in Words /\ cpc' \in {"wait", "load", "copy", "hand", "store"}
    BY <1>7 DEF CopyWord, Copied
  <2> QED
    BY <1>7, <2>3, <2>4 DEF CopyWord, segment, producer, history, bounds
<1>8. CASE HandOver
  BY <1>8 DEF HandOver, segment, producer, bounds
<1>9. CASE ConsumerStore
  BY <1>9 DEF ConsumerStore, ConsumerInv, ConsumerInside, producer, history,
              bounds
<1>10. CASE TakeFails
  BY <1>10 DEF TakeFails, segment, producer
<1>11. CASE SecondStart
  BY <1>11 DEF SecondStart, producer, consumer
<1>12. CASE Restart
  <2>1. handed' \in Seq([Words -> Packets \union {NoPacket}])
    BY <1>12 DEF Restart
  <2>2. overlapped' \in BOOLEAN
    BY <1>12 DEF Restart
  <2> QED
    BY <1>12, <2>1, <2>2 DEF Restart, ResetSegment
<1>13. CASE UNCHANGED vars
  BY <1>13 DEF vars, segment, producer, consumer, history, bounds
<1> QED
  BY <1>1, <1>2, <1>3, <1>4, <1>5, <1>6, <1>7, <1>8, <1>9, <1>10, <1>11,
     <1>12, <1>13 DEF Next, ThreadStep, ConsumerStep

-----------------------------------------------------------------------------
(* A word that came from a packet of this run still does after the step.   *)
WordsStay ==
  /\ begun \subseteq begun'
  /\ \A i \in Blocks, w \in Words :
       block[i][w] \in begun => block'[i][w] \in begun'

(* Every step but a restart keeps filled words filled, because a thread    *)
(* only ever writes a packet that has begun.                               *)
LEMMA WordsStayNext ==
  ASSUME TypeOK, \A t \in Threads : ThreadInv(t), [Next]_vars
  PROVE  WordsStay \/ Restart
<1> USE DEF TypeOK
<1>1. ASSUME NEW t \in Threads, NEW p \in Packets, Load(t, p) PROVE WordsStay
  <2>1. block' = block /\ begun \subseteq begun'
    BY <1>1 DEF Load, segment
  <2> QED
    BY <2>1 DEF WordsStay
<1>2. ASSUME NEW t \in Threads, WriteWord(t) PROVE WordsStay
  <2>1. tpkt[t] \in begun /\ begun' = begun
    BY <1>2 DEF WriteWord, ThreadInv, ThreadInside, history
  <2>2. block' = [block EXCEPT ![tused[t]] =
                    [block[tused[t]] EXCEPT ![tword[t]] = tpkt[t]]]
    BY <1>2 DEF WriteWord
  <2>3. ASSUME NEW i \in Blocks, NEW w \in Words, block[i][w] \in begun
        PROVE  block'[i][w] \in begun
    BY <2>1, <2>2, <2>3
  <2> QED
    BY <2>1, <2>3 DEF WordsStay
<1>3. CASE block' = block /\ begun' = begun
  BY <1>3 DEF WordsStay
<1> QED
  BY <1>1, <1>2, <1>3
  DEF Next, ThreadStep, ConsumerStep, StoreCount, Post, Take, ConsumerLoad,
      CopyWord, HandOver, ConsumerStore, TakeFails, SecondStart, vars,
      segment, history

LEMMA FilledStays ==
  ASSUME WordsStay, NEW i \in Blocks, Filled(i)
  PROVE  Filled(i)'
BY DEF WordsStay, Filled

(* A thread that takes no step keeps its invariant. *)
LEMMA ThreadStays ==
  ASSUME TypeOK, NEW t \in Threads, ThreadInv(t), WordsStay,
         tpc'[t] = tpc[t], tpkt'[t] = tpkt[t],
         tused'[t] = tused[t], tword'[t] = tword[t]
  PROVE  ThreadInv(t)'
<1> SUFFICES ASSUME ThreadInside(t)'
             PROVE  /\ tused[t] \in Blocks
                    /\ tpkt[t] \in begun'
                    /\ \A i \in 1 .. (tused[t] - 1) : Filled(i)'
                    /\ \A w \in Words : tpc[t] = "store" \/ w < tword[t]
                                          => block'[tused[t]][w] \in begun'
  BY DEF ThreadInv
<1>1. ThreadInside(t)
  BY DEF ThreadInside
<1>2. tused[t] \in Blocks /\ tpkt[t] \in begun'
  BY <1>1 DEF ThreadInv, WordsStay
<1>3. ASSUME NEW i \in 1 .. (tused[t] - 1) PROVE Filled(i)'
  <2>1. i \in Blocks
    BY <1>2, SegmentAssumption DEF SegmentAssumption, Blocks
  <2>2. Filled(i)
    BY <1>1 DEF ThreadInv
  <2> QED
    BY <2>1, <2>2, FilledStays
<1>4. ASSUME NEW w \in Words, tpc[t] = "store" \/ w < tword[t]
      PROVE  block'[tused[t]][w] \in begun'
  BY <1>1, <1>2, <1>4 DEF ThreadInv, WordsStay
<1> QED
  BY <1>2, <1>3, <1>4

(* So does the consumer. *)
LEMMA ConsumerStays ==
  ASSUME TypeOK, ConsumerInv, WordsStay, UNCHANGED consumer
  PROVE  ConsumerInv'
<1> USE DEF consumer
<1>1. ASSUME ConsumerInside, NEW i \in 1 .. cused PROVE Filled(i)'
  <2>1. i \in Blocks
    BY <1>1, SegmentAssumption DEF SegmentAssumption, ConsumerInv, Blocks
  <2>2. Filled(i)
    BY <1>1 DEF ConsumerInv
  <2> QED
    BY <2>1, <2>2, FilledStays
<1>2. ASSUME NEW w \in Words, cpc = "hand" \/ (cpc = "copy" /\ w < cword)
      PROVE  got[w] \in begun'
  BY <1>2 DEF ConsumerInv, WordsStay
<1> QED
  BY <1>1, <1>2 DEF ConsumerInv, ConsumerInside

LEMMA InvInit == Init => IInv
<1> SUFFICES ASSUME Init PROVE IInv
  OBVIOUS
<1>1. TypeOK
  BY TypeInit
<1>2. NoUnfilledBlock
  BY DEF Init, NoUnfilledBlock
<1>3. ASSUME NEW t \in Threads PROVE ThreadInv(t)
  BY DEF Init, ThreadInv, ThreadInside
<1>4. ConsumerInv
  BY DEF Init, ConsumerInv, ConsumerInside
<1> QED
  BY <1>1, <1>2, <1>3, <1>4 DEF IInv

(* The part of the invariant besides the types, after a step. *)
LEMMA InvNext == IInv /\ [Next]_vars => IInv'
<1> SUFFICES ASSUME IInv, [Next]_vars PROVE IInv'
  OBVIOUS
<1> USE SegmentAssumption DEF SegmentAssumption
<1>0. /\ TypeOK /\ NoUnfilledBlock /\ ConsumerInv
      /\ \A t \in Threads : ThreadInv(t)
  BY DEF IInv
<1>t. TypeOK'
  BY <1>0, TypeNext
<1>w. WordsStay \/ Restart
  BY <1>0, WordsStayNext
<1>c. ASSUME WordsStay, count' = count PROVE NoUnfilledBlock'
  <2> SUFFICES ASSUME NEW i \in 1 .. count PROVE Filled(i)'
    BY <1>c DEF NoUnfilledBlock
  <2>1. i \in Blocks /\ Filled(i)
    BY <1>0 DEF NoUnfilledBlock, TypeOK, Blocks
  <2> QED
    BY <2>1, <1>c, FilledStays
<1>r. CASE Restart
  <2>1. NoUnfilledBlock'
    BY <1>r DEF Restart, ResetSegment, NoUnfilledBlock
  <2>2. ASSUME NEW t \in Threads PROVE ThreadInv(t)'
    BY <1>r DEF Restart, ThreadInv, ThreadInside
  <2>3. ConsumerInv'
    BY <1>r DEF Restart, ConsumerInv, ConsumerInside
  <2> QED
    BY <1>t, <2>1, <2>2, <2>3 DEF IInv
<1>p. CASE WordsStay /\ \E t \in Threads : ThreadStep(t)
  <2> PICK t \in Threads : ThreadStep(t)
    BY <1>p
  <2>1. ConsumerInv'
    BY <1>0, <1>p, ConsumerStays
    DEF ThreadStep, Load, WriteWord, StoreCount, Post
  <2>2. ASSUME NEW u \in Threads, u # t PROVE ThreadInv(u)'
    <3>1. /\ tpc'[u] = tpc[u] /\ tpkt'[u] = tpkt[u]
          /\ tused'[u] = tused[u] /\ tword'[u] = tword[u]
      BY <1>0, <2>2
      DEF TypeOK, ThreadStep, Load, WriteWord, StoreCount, Post, producer
    <3> QED
      BY <1>0, <1>p, <3>1, ThreadStays
  <2>3. NoUnfilledBlock' /\ ThreadInv(t)'
    <3>1. ASSUME NEW p \in Packets, Load(t, p)
          PROVE  NoUnfilledBlock' /\ ThreadInv(t)'
      <4>1. NoUnfilledBlock'
        BY <1>c, <1>p, <3>1 DEF Load, segment
      <4>2. CASE HasRoom(count)
        <5>1. /\ tpc' = [tpc EXCEPT ![t] = "write"]
              /\ tpkt' = [tpkt EXCEPT ![t] = p]
              /\ tused' = [tused EXCEPT ![t] = count + 1]
              /\ tword' = [tword EXCEPT ![t] = 1]
              /\ begun' = begun \union {p}
              /\ count' = count
          BY <3>1, <4>2, Zenon DEF Load, segment
        <5>2. /\ tused'[t] = count + 1 /\ tpc'[t] = "write" /\ tword'[t] = 1
              /\ tpkt'[t] \in begun'
          BY <1>0, <5>1 DEF TypeOK
        <5>3. count + 1 \in Blocks
          BY <1>0, <4>2 DEF TypeOK, HasRoom, Blocks
        <5>4. \A i \in 1 .. (tused'[t] - 1) : Filled(i)'
          BY <1>0, <4>1, <5>1, <5>2 DEF TypeOK, NoUnfilledBlock
        <5> QED
          BY <4>1, <5>2, <5>3, <5>4 DEF ThreadInv, Words
      <4>3. CASE ~HasRoom(count)
        <5>1. UNCHANGED producer
          BY <3>1, <4>3, Zenon DEF Load
        <5> QED
          BY <1>0, <1>p, <4>1, <5>1, ThreadStays DEF producer
      <4> QED
        BY <4>2, <4>3
    <3>2. CASE WriteWord(t)
      <4>1. NoUnfilledBlock'
        BY <1>c, <1>p, <3>2 DEF WriteWord
      <4>2. /\ tpc[t] = "write" /\ tused[t] \in Blocks /\ tpkt[t] \in begun
            /\ \A i \in 1 .. (tused[t] - 1) : Filled(i)
            /\ \A w \in Words : w < tword[t] => block[tused[t]][w] \in begun
        BY <1>0, <3>2 DEF WriteWord, ThreadInv, ThreadInside
      <4>3. /\ UNCHANGED <<tused, tpkt, begun>>
            /\ block' = [block EXCEPT ![tused[t]] =
                           [block[tused[t]] EXCEPT ![tword[t]] = tpkt[t]]]
        BY <3>2 DEF WriteWord, history
      <4>4. \A w \in Words : w = tword[t] \/ block[tused[t]][w] \in begun
                              => block'[tused[t]][w] \in begun
        BY <1>0, <4>2, <4>3 DEF TypeOK
      <4>5. \A i \in 1 .. (tused[t] - 1) : Filled(i)'
        BY <1>p, <4>2, FilledStays DEF Blocks
      <4>6. ASSUME NEW w \in Words, tpc'[t] = "store" \/ w < tword'[t]
            PROVE  block'[tused[t]][w] \in begun
        <5>1. CASE Copied(tword[t])
          <6>1. w = tword[t] \/ w < tword[t]
            BY <1>0, <5>1 DEF TypeOK, Words, Copied
          <6> QED
            BY <4>2, <4>4, <6>1
        <5>2. CASE ~Copied(tword[t])
          <6>1. tword'[t] = tword[t] + 1 /\ tpc'[t] = "write"
            BY <1>0, <3>2, <4>2, <5>2 DEF TypeOK, WriteWord
          <6>2. w = tword[t] \/ w < tword[t]
            BY <1>0, <4>6, <6>1 DEF TypeOK, Words
          <6> QED
            BY <4>2, <4>4, <6>2
        <5> QED
          BY <5>1, <5>2
      <4>7. /\ tused'[t] \in Blocks /\ tpkt'[t] \in begun'
            /\ \A i \in 1 .. (tused'[t] - 1) : Filled(i)'
            /\ \A w \in Words : tpc'[t] = "store" \/ w < tword'[t]
                                 => block'[tused'[t]][w] \in begun'
        BY <4>2, <4>3, <4>5, <4>6
      <4> QED
        BY <4>1, <4>7 DEF ThreadInv
    <3>3. CASE StoreCount(t)
      <4>1. /\ tpc[t] = "store" /\ tused[t] \in Blocks
            /\ \A i \in 1 .. (tused[t] - 1) : Filled(i)
            /\ Filled(tused[t])
        BY <1>0, <3>3 DEF StoreCount, ThreadInv, ThreadInside, Filled
      <4>2. \A i \in 1 .. tused[t] : i \in Blocks /\ Filled(i)
        BY <4>1 DEF Blocks
      <4>3. NoUnfilledBlock'
        BY <1>p, <3>3, <4>2, FilledStays DEF StoreCount, NoUnfilledBlock
      <4>4. ~ThreadInside(t)'
        BY <1>0, <3>3 DEF TypeOK, StoreCount, ThreadInside
      <4> QED
        BY <4>3, <4>4 DEF ThreadInv
    <3>4. CASE Post(t)
      <4>1. NoUnfilledBlock'
        BY <1>c, <1>p, <3>4 DEF Post
      <4>2. ~ThreadInside(t)'
        BY <1>0, <3>4 DEF TypeOK, Post, ThreadInside
      <4> QED
        BY <4>1, <4>2 DEF ThreadInv
    <3> QED
      BY <3>1, <3>2, <3>3, <3>4 DEF ThreadStep
  <2> QED
    BY <1>t, <2>1, <2>2, <2>3 DEF IInv
<1>k. CASE WordsStay /\ UNCHANGED producer
  <2>1. ASSUME NEW u \in Threads PROVE ThreadInv(u)'
    BY <1>0, <1>k, ThreadStays DEF producer
  <2>2. CASE Take \/ TakeFails
    BY <1>0, <1>c, <1>k, <1>t, <2>1, <2>2
    DEF IInv, Take, TakeFails, ConsumerInv, ConsumerInside, segment
  <2>3. CASE ConsumerLoad
    <3>1. NoUnfilledBlock'
      BY <1>c, <1>k, <2>3 DEF ConsumerLoad, segment
    <3>2. count' = count /\ (cpc' = "wait" \/
            (cpc' = "copy" /\ cused' = count /\ cword' = 1 /\ count \in Blocks))
      BY <1>0, <2>3 DEF ConsumerLoad, InRange, TypeOK, Blocks, segment
    <3>3. ConsumerInv'
      BY <3>1, <3>2 DEF ConsumerInv, ConsumerInside, NoUnfilledBlock, Words
    <3> QED
      BY <1>t, <2>1, <3>1, <3>3 DEF IInv
  <2>4. CASE CopyWord
    <3>1. NoUnfilledBlock'
      BY <1>c, <1>k, <2>4 DEF CopyWord, segment
    <3>2. /\ cpc = "copy" /\ cused \in Blocks
          /\ \A i \in 1 .. cused : Filled(i)
          /\ \A w \in Words : w < cword => got[w] \in begun
      BY <1>0, <2>4 DEF CopyWord, ConsumerInv, ConsumerInside
    <3>3. block[cused][cword] \in begun
      BY <1>0, <3>2 DEF TypeOK, Filled, Blocks
    <3>4. \A w \in Words : w = cword \/ got[w] \in begun => got'[w] \in begun'
      BY <1>0, <2>4, <3>3 DEF CopyWord, TypeOK, history
    <3>5. \A i \in 1 .. cused : Filled(i)'
      BY <1>k, <3>2, FilledStays DEF Blocks
    <3>6. ASSUME NEW w \in Words,
                 cpc' = "hand" \/ (cpc' = "copy" /\ w < cword')
          PROVE  w = cword \/ w < cword
      BY <1>0, <2>4, <3>2, <3>6 DEF CopyWord, Copied, TypeOK, Words
    <3>7. ConsumerInv'
      BY <2>4, <3>2, <3>4, <3>5, <3>6 DEF CopyWord, ConsumerInv, ConsumerInside
    <3> QED
      BY <1>t, <2>1, <3>1, <3>7 DEF IInv
  <2>5. CASE HandOver
    <3>1. NoUnfilledBlock'
      BY <1>c, <1>k, <2>5 DEF HandOver, segment
    <3>2. /\ cused \in Blocks /\ \A i \in 1 .. cused : Filled(i)
      BY <1>0, <2>5 DEF HandOver, ConsumerInv, ConsumerInside
    <3>3. \A i \in 1 .. cused : Filled(i)'
      BY <1>k, <3>2, FilledStays DEF Blocks
    <3>4. ConsumerInv'
      BY <2>5, <3>2, <3>3 DEF HandOver, ConsumerInv, ConsumerInside
    <3> QED
      BY <1>t, <2>1, <3>1, <3>4 DEF IInv
  <2>6. CASE ConsumerStore
    <3>1. /\ cused \in Blocks /\ \A i \in 1 .. cused : Filled(i)
      BY <1>0, <2>6 DEF ConsumerStore, ConsumerInv, ConsumerInside
    <3>2. \A i \in 1 .. (cused - 1) : i \in Blocks /\ Filled(i)
      BY <3>1 DEF Blocks
    <3>3. NoUnfilledBlock'
      BY <1>k, <2>6, <3>2, FilledStays DEF ConsumerStore, NoUnfilledBlock
    <3>4. ConsumerInv'
      BY <2>6 DEF ConsumerStore, ConsumerInv, ConsumerInside
    <3> QED
      BY <1>t, <2>1, <3>3, <3>4 DEF IInv
  <2>7. CASE SecondStart
    <3>1. NoUnfilledBlock'
      BY <2>7 DEF SecondStart, NoUnfilledBlock
    <3> QED
      BY <1>0, <1>k, <1>t, <2>1, <2>7, <3>1, ConsumerStays DEF IInv, SecondStart
  <2>8. CASE UNCHANGED vars
    BY <1>0, <1>c, <1>k, <1>t, <2>1, <2>8, ConsumerStays
    DEF IInv, vars, segment
  <2>9. ASSUME NEW t \in Threads, ThreadStep(t) PROVE IInv'
    BY <1>k, <1>p, <2>9
  <2>10. CASE Restart
    BY <1>r, <2>10
  <2> QED
    BY <2>2, <2>3, <2>4, <2>5, <2>6, <2>7, <2>8, <2>9, <2>10
    DEF Next, ConsumerStep
<1> QED
  BY <1>r, <1>p, <1>k, <1>w
  DEF Next, ConsumerStep, Take, ConsumerLoad, CopyWord, HandOver,
      ConsumerStore, TakeFails, SecondStart, vars

LEMMA InvCorrect == Spec => []IInv
BY InvInit, InvNext, PTL DEF Spec

-----------------------------------------------------------------------------
(* No actor of the segment, however stale its counter, leaves the types:   *)
(* every block written or read is one of the Cap blocks of the segment.    *)
THEOREM TypeCorrect == Spec => []TypeOK
<1>1. IInv => TypeOK
  BY DEF IInv
<1> QED
  BY <1>1, InvCorrect, PTL

(* Whatever loads and stores of the counter race, the consumer never       *)
(* copies a block that was not filled in this run of the server.           *)
THEOREM NoUnfilledBlockCorrect == Spec => []NoUnfilledBlock
<1>1. IInv => NoUnfilledBlock
  BY DEF IInv
<1> QED
  BY <1>1, InvCorrect, PTL

(* The consumer hands over at most one block for each sem_v and each       *)
(* failed sem_p.                                                           *)
THEOREM AnnouncedCorrect == Spec => []NeverMoreThanAnnounced
<1> USE DEF NeverMoreThanAnnounced, Permits
<1>1. Init => NeverMoreThanAnnounced
  BY DEF Init
<1>2. TypeOK /\ NeverMoreThanAnnounced /\ [Next]_vars
        => NeverMoreThanAnnounced'
  <2> SUFFICES ASSUME TypeOK, NeverMoreThanAnnounced, [Next]_vars
               PROVE  NeverMoreThanAnnounced'
    OBVIOUS
  <2>0. /\ sem \in Nat /\ granted \in Nat
        /\ handed \in Seq([Words -> Packets \union {NoPacket}])
        /\ Len(handed) \in Nat
    BY DEF TypeOK
  <2>1. ASSUME NEW t \in Threads, ThreadStep(t) PROVE NeverMoreThanAnnounced'
    BY <2>0, <2>1
    DEF ThreadStep, Load, WriteWord, StoreCount, Post, segment, consumer,
        history, bounds
  <2>2. CASE Take
    BY <2>0, <2>2 DEF Take, history, bounds
  <2>3. CASE TakeFails
    BY <2>0, <2>3 DEF TakeFails, segment
  <2>4. CASE ConsumerLoad
    BY <2>0, <2>4 DEF ConsumerLoad, segment, bounds
  <2>5. CASE CopyWord
    BY <2>0, <2>5 DEF CopyWord, segment, history, bounds
  <2>6. CASE HandOver
    <3>1. Len(handed') = Len(handed) + 1
      BY <2>0, <2>6 DEF HandOver, TypeOK
    <3>2. /\ cpc = "hand" /\ cpc' = "store"
          /\ sem' = sem /\ granted' = granted
      BY <2>6 DEF HandOver, segment
    <3> HIDE DEF NeverMoreThanAnnounced, Permits
    <3>3. Permits = sem + 1 /\ Permits' = sem
      BY <2>0, <3>2 DEF Permits
    <3> QED
      BY <2>0, <3>1, <3>2, <3>3 DEF NeverMoreThanAnnounced
  <2>7. CASE ConsumerStore
    BY <2>0, <2>7 DEF ConsumerStore, history, bounds
  <2>8. CASE SecondStart
    BY <2>0, <2>8 DEF SecondStart, consumer
  <2>9. CASE Restart
    BY <2>0, <2>9 DEF Restart, ResetSegment
  <2>10. CASE UNCHANGED vars
    BY <2>0, <2>10 DEF vars, segment, consumer, history, bounds
  <2> QED
    BY <2>1, <2>2, <2>3, <2>4, <2>5, <2>6, <2>7, <2>8, <2>9, <2>10
    DEF Next, ConsumerStep
<1> QED
  BY <1>1, <1>2, TypeCorrect, PTL DEF Spec

-----------------------------------------------------------------------------
(* Init and each step of the segment, seen through the mapping.            *)
LEMMA LossyInit == Init => Lossy!Init
BY DEF Init, Lossy!Init, Permits

LEMMA LossyNext == IInv /\ [Next]_vars => [Lossy!Next]_(Lossy!vars)
<1> SUFFICES ASSUME IInv, [Next]_vars PROVE [Lossy!Next]_(Lossy!vars)
  OBVIOUS
<1> USE DEF Permits, Lossy!vars
<1>0. TypeOK /\ ConsumerInv /\ sem \in Nat
  BY DEF IInv, TypeOK
<1>1. ASSUME NEW t \in Threads, NEW p \in Packets, Load(t, p)
      PROVE  Lossy!Offer \/ UNCHANGED Lossy!vars
  <2>1. begun' = begun \union {p} \/ begun' = begun
    BY <1>1, Zenon DEF Load
  <2> QED
    BY <1>1, <2>1 DEF Load, segment, consumer, Lossy!Offer
<1>2. ASSUME NEW t \in Threads, WriteWord(t) \/ StoreCount(t)
      PROVE  UNCHANGED Lossy!vars
  BY <1>2 DEF WriteWord, StoreCount, consumer, history
<1>3. ASSUME NEW t \in Threads, Post(t) PROVE Lossy!Grant
  BY <1>0, <1>3 DEF Post, consumer, Lossy!Grant
<1>4. ASSUME Take PROVE UNCHANGED Lossy!vars
  BY <1>0, <1>4 DEF Take, history
<1>5. ASSUME TakeFails PROVE Lossy!Grant
  BY <1>0, <1>5 DEF TakeFails, segment, Lossy!Grant
<1>6. ASSUME ConsumerLoad PROVE Lossy!Waste \/ UNCHANGED Lossy!vars
  BY <1>0, <1>6 DEF ConsumerLoad, segment, Lossy!Waste
<1>7. ASSUME CopyWord PROVE UNCHANGED Lossy!vars
  BY <1>7 DEF CopyWord, segment, history
<1>8. ASSUME HandOver PROVE Lossy!Deliver
  <2>1. got \in [Words -> begun]
    BY <1>0, <1>8 DEF HandOver, ConsumerInv, TypeOK
  <2>2. handed' = Append(handed, got) /\ begun' = begun
    BY <1>8 DEF HandOver
  <2>3. Permits > 0 /\ Permits' = Permits - 1
    BY <1>0, <1>8 DEF HandOver, segment
  <2> QED
    BY <2>1, <2>2, <2>3 DEF Lossy!Deliver
<1>9. ASSUME ConsumerStore PROVE UNCHANGED Lossy!vars
  BY <1>9 DEF ConsumerStore, history
<1>10. ASSUME SecondStart PROVE UNCHANGED Lossy!vars
  BY <1>10 DEF SecondStart, consumer
<1>11. ASSUME Restart PROVE Lossy!Restart
  BY <1>11 DEF Restart, ResetSegment, Lossy!Restart
<1>12. ASSUME UNCHANGED vars PROVE UNCHANGED Lossy!vars
  BY <1>12 DEF vars, segment, consumer, history
<1> QED
  BY <1>1, <1>2, <1>3, <1>4, <1>5, <1>6, <1>7, <1>8, <1>9, <1>10, <1>11,
     <1>12
  DEF Next, ThreadStep, ConsumerStep, Lossy!Next

(* The segment implements the lossy mailbox: every word delivered comes    *)
(* from a packet offered in this run, and each delivery uses up a permit.  *)
THEOREM LossyRefinement == Spec => ImplementsLossyMailbox
<1> QED
  BY LossyInit, LossyNext, InvCorrect, PTL
  DEF Spec, ImplementsLossyMailbox, Lossy!Spec
=============================================================================
