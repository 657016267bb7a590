----------------------------- MODULE Aa24Proofs -----------------------------
(***************************************************************************)
(* Machine-checked proofs about the shared-memory mapping of AA24.         *)
(*                                                                         *)
(* The ring of Aa24Lane, for any capacity, any slot of at least one word,  *)
(* any values and any largest index: what a side relies on while the other *)
(* moves, and that the ring is the bounded queue Aa24Fifo.                 *)
(*                                                                         *)
(* The endpoints of Aa24Ipc, for any setup: control is never lost to a     *)
(* full lane, plans and revocations are accounted for, and no token is     *)
(* delivered twice.                                                        *)
(***************************************************************************)
EXTENDS Aa24Ipc, Aa24Lane, FiniteSetTheorems, SequenceTheorems, TLAPS

-----------------------------------------------------------------------------
(* The inductive invariant.                                                *)

\* Each side's copy of the index it writes is that index, its copy of the other
\* is never ahead of it, and the indices are at most a ring apart.
ViewInv ==
  /\ localProducer = producer /\ localConsumer = consumer
  /\ writerConsumer <= consumer /\ readerProducer <= producer
  /\ Consistent(producer, consumer)

\* A writer that has begun has a free slot, an index to publish and a record.
RoomInv ==
  writer # "idle" => producer - consumer < Capacity /\ producer < MaxIndex /\ record \in LaneRecord

\* What is in the slot being written.
PutInv ==
  /\ writer = "put" => \A x \in Words \ unwritten : slots[Slot(producer)][x] = record[x]
  /\ writer = "publish" => slots[Slot(producer)] = record

\* Every slot between the indices holds a whole record.
UnreadInv == \A i \in consumer .. producer - 1 : slots[Slot(i)] \in LaneRecord

\* What a reader has copied is what is in the slot at the consumer index.
CopyInv ==
  /\ reader # "idle" => producer # consumer
  /\ reader = "copy" => \A x \in Words \ uncopied : copy[x] = slots[Slot(consumer)][x]
  /\ reader = "peeked" => copy = slots[Slot(consumer)]

RingInv == LaneTypeOK /\ ViewInv /\ RoomInv /\ PutInv /\ UnreadInv /\ CopyInv

-----------------------------------------------------------------------------
(* Slots.                                                                  *)

\* A slot is one of the ring's.
LEMMA SlotType ==
  ASSUME NEW i \in Nat
  PROVE  Slot(i) \in 0 .. Capacity - 1
  BY LaneAssumption DEF Slot

\* A multiple of the ring's size is not between 0 and it.
LEMMA NoMultiple ==
  ASSUME NEW q \in Int, NEW c \in Nat, c * q > 0, c * q < c
  PROVE  FALSE
<1>1. CASE q <= 0
  <2>1. c * q <= 0
    BY <1>1
  <2> QED
    BY <2>1
<1>2. CASE q >= 1
  <2>1. c * q >= c
    BY <1>2
  <2> QED
    BY <2>1
<1> QED
  BY <1>1, <1>2

\* Two indices less than a ring apart have different slots.
LEMMA SlotsApart ==
  ASSUME NEW i \in Nat, NEW j \in Nat, i < j, j - i < Capacity
  PROVE  Slot(i) # Slot(j)
<1> DEFINE p == i \div Capacity
           q == j \div Capacity
<1>1. p \in Int /\ q \in Int /\ Capacity \in Nat /\ i % Capacity \in Int /\ j % Capacity \in Int
  BY LaneAssumption
<1>2. i = Capacity * p + (i % Capacity)
  BY LaneAssumption
<1>3. j = Capacity * q + (j % Capacity)
  BY LaneAssumption
<1> HIDE DEF p, q
<1>4. SUFFICES ASSUME i % Capacity = j % Capacity PROVE FALSE
  BY DEF Slot
<1>5. j - i = Capacity * q - Capacity * p
  BY <1>1, <1>2, <1>3, <1>4
<1>6. Capacity * q - Capacity * p = Capacity * (q - p)
  BY <1>1
<1>7. Capacity * (q - p) > 0 /\ Capacity * (q - p) < Capacity
  BY <1>1, <1>5, <1>6
<1> QED
  BY <1>1, <1>7, NoMultiple

\* The slot being written is none of the unread ones.
LEMMA WrittenApart ==
  ASSUME LaneTypeOK, ViewInv, RoomInv, writer # "idle", NEW i \in consumer .. producer - 1
  PROVE  Slot(i) # Slot(producer)
<1>1. i \in Nat /\ producer \in Nat /\ i < producer /\ producer - i < Capacity
  BY LaneAssumption DEF LaneTypeOK, ViewInv, RoomInv
<1> QED
  BY <1>1, SlotsApart

\* What a word put in a slot leaves.
LEMMA WordPut ==
  ASSUME NEW V, NEW f \in [0 .. Capacity - 1 -> [Words -> V]],
         NEW s \in 0 .. Capacity - 1, NEW x \in Words, NEW v \in V, NEW g,
         g = [f EXCEPT ![s][x] = v]
  PROVE  /\ g \in [0 .. Capacity - 1 -> [Words -> V]]
         /\ \A t \in 0 .. Capacity - 1 : t # s => g[t] = f[t]
         /\ \A y \in Words : g[s][y] = IF y = x THEN v ELSE f[s][y]
  OBVIOUS

-----------------------------------------------------------------------------
(* The steps.                                                              *)

LEMMA RingInit ==
  LaneInit => RingInv
<1> SUFFICES ASSUME LaneInit PROVE RingInv
  OBVIOUS
<1>1. LaneTypeOK
  BY LaneAssumption DEF LaneInit, LaneTypeOK, Cleared
<1>2. ViewInv /\ RoomInv /\ PutInv /\ UnreadInv /\ CopyInv
  BY LaneAssumption DEF LaneInit, ViewInv, Consistent, RoomInv, PutInv, UnreadInv, CopyInv
<1> QED
  BY <1>1, <1>2 DEF RingInv

LEMMA WriteBeginsKeeps ==
  ASSUME RingInv, NEW r \in LaneRecord, NEW reserve \in Reserves, WriteBegins(r, reserve)
  PROVE  RingInv'
<1> USE DEF RingInv, WriteBegins, readerVars
<1>1. LaneTypeOK'
  BY DEF LaneTypeOK
<1>2. ViewInv'
  BY LaneAssumption DEF LaneTypeOK, ViewInv, Consistent
<1>3. RoomInv'
  BY LaneAssumption DEF LaneTypeOK, ViewInv, RoomInv, LaneHasRoom
<1>4. PutInv'
  BY DEF PutInv
<1>5. UnreadInv'
  BY DEF UnreadInv
<1>6. CopyInv'
  BY DEF CopyInv
<1> QED
  BY <1>1, <1>2, <1>3, <1>4, <1>5, <1>6

LEMMA WriteRefusedKeeps ==
  ASSUME RingInv, NEW reserve \in Reserves, WriteRefused(reserve)
  PROVE  RingInv'
<1> USE DEF RingInv, WriteRefused, readerVars
<1>1. LaneTypeOK'
  BY DEF LaneTypeOK
<1>2. ViewInv'
  BY LaneAssumption DEF LaneTypeOK, ViewInv, Consistent
<1>3. RoomInv' /\ PutInv' /\ UnreadInv' /\ CopyInv'
  BY DEF RoomInv, PutInv, UnreadInv, CopyInv
<1> QED
  BY <1>1, <1>2, <1>3

\* What EncodeWord does to the slots: only the one at the producer index changes,
\* which is neither unread nor being copied.
LEMMA EncodeSlots ==
  ASSUME RingInv, NEW x \in Words, EncodeWord(x)
  PROVE  /\ slots' \in [0 .. Capacity - 1 -> [Words -> Values \cup {Zero}]]
         /\ \A i \in consumer .. producer - 1 : slots'[Slot(i)] = slots[Slot(i)]
         /\ \A y \in Words :
              slots'[Slot(producer)][y] =
                IF y # x THEN slots[Slot(producer)][y] ELSE IF writer = "clear" THEN Zero ELSE record[x]
<1> DEFINE v == IF writer = "clear" THEN Zero ELSE record[x]
<1>1. slots' = [slots EXCEPT ![Slot(producer)][x] = v]
  BY DEF EncodeWord, RingInv, ViewInv
<1>2. v \in Values \cup {Zero}
  BY DEF EncodeWord, RingInv, LaneTypeOK, RoomInv, LaneRecord
<1>3. producer \in Nat /\ consumer \in Nat /\ Slot(producer) \in 0 .. Capacity - 1
  BY SlotType, LaneAssumption DEF RingInv, LaneTypeOK
<1>4. slots \in [0 .. Capacity - 1 -> [Words -> Values \cup {Zero}]]
  BY DEF RingInv, LaneTypeOK
<1> HIDE DEF v
<1>5. /\ slots' \in [0 .. Capacity - 1 -> [Words -> Values \cup {Zero}]]
      /\ \A t \in 0 .. Capacity - 1 : t # Slot(producer) => slots'[t] = slots[t]
      /\ \A y \in Words : slots'[Slot(producer)][y] = IF y = x THEN v ELSE slots[Slot(producer)][y]
  BY <1>1, <1>2, <1>3, <1>4, WordPut
<1>6. ASSUME NEW i \in consumer .. producer - 1 PROVE slots'[Slot(i)] = slots[Slot(i)]
  <2>1. i \in Nat
    BY <1>3
  <2>2. Slot(i) # Slot(producer)
    BY WrittenApart DEF RingInv, EncodeWord
  <2>3. Slot(i) \in 0 .. Capacity - 1
    BY <2>1, SlotType
  <2> QED
    BY <1>5, <2>2, <2>3
<1> QED
  BY <1>5, <1>6 DEF v

LEMMA EncodeWordKeeps ==
  ASSUME RingInv, NEW x \in Words, EncodeWord(x)
  PROVE  RingInv'
<1>1. LaneTypeOK'
  BY EncodeSlots DEF RingInv, LaneTypeOK, EncodeWord, readerVars
<1>2. ViewInv'
  BY DEF RingInv, ViewInv, Consistent, EncodeWord, readerVars
<1>3. RoomInv'
  BY DEF RingInv, RoomInv, EncodeWord, readerVars
<1>4. PutInv'
  <2>1. producer' = producer /\ record' = record
    BY DEF EncodeWord
  <2>2. \A y \in Words : slots'[Slot(producer)][y] =
          IF y # x THEN slots[Slot(producer)][y] ELSE IF writer = "clear" THEN Zero ELSE record[x]
    BY EncodeSlots
  <2>3. ASSUME writer' = "put", NEW y \in Words \ unwritten' PROVE slots'[Slot(producer)][y] = record[y]
    <3>1. writer = "put" /\ unwritten' = unwritten \ {x}
      BY <2>3 DEF EncodeWord
    <3> QED
      BY <2>2, <3>1, <2>3 DEF RingInv, PutInv
  <2>4. ASSUME writer' = "publish" PROVE slots'[Slot(producer)] = record
    <3>1. writer = "put" /\ unwritten = {x}
      BY <2>4 DEF EncodeWord
    <3>2. \A y \in Words : slots'[Slot(producer)][y] = record[y]
      BY <2>2, <3>1 DEF RingInv, PutInv
    <3>3. slots'[Slot(producer)] \in [Words -> Values \cup {Zero}]
      <4>1. slots' \in [0 .. Capacity - 1 -> [Words -> Values \cup {Zero}]]
        BY EncodeSlots
      <4>2. producer \in Nat
        BY LaneAssumption DEF RingInv, LaneTypeOK
      <4>3. Slot(producer) \in 0 .. Capacity - 1
        BY <4>2, SlotType
      <4> QED
        BY <4>1, <4>3
    <3>4. record \in [Words -> Values]
      BY <3>1 DEF RingInv, RoomInv, LaneRecord
    <3> QED
      BY <3>2, <3>3, <3>4
  <2> QED
    BY <2>1, <2>3, <2>4 DEF PutInv, Slot
<1>5. UnreadInv'
  BY EncodeSlots DEF RingInv, UnreadInv, EncodeWord, readerVars, Slot
<1>6. CopyInv'
  <2>1. ASSUME reader # "idle" PROVE slots'[Slot(consumer)] = slots[Slot(consumer)]
    <3>1. consumer \in consumer .. producer - 1
      BY <2>1 DEF RingInv, CopyInv, LaneTypeOK, ViewInv, Consistent
    <3> QED
      BY <3>1, EncodeSlots
  <2> QED
    BY <2>1 DEF RingInv, CopyInv, EncodeWord, readerVars, Slot
<1> QED
  BY <1>1, <1>2, <1>3, <1>4, <1>5, <1>6 DEF RingInv

LEMMA PublishesKeeps ==
  ASSUME RingInv, Publishes
  PROVE  RingInv'
<1> USE DEF RingInv, Publishes, readerVars
<1>1. LaneTypeOK'
  BY LaneAssumption DEF LaneTypeOK, ViewInv, RoomInv
<1>2. ViewInv'
  BY LaneAssumption DEF LaneTypeOK, ViewInv, RoomInv, Consistent
<1>3. RoomInv' /\ PutInv'
  BY DEF RoomInv, PutInv
<1>4. UnreadInv'
  <2>1. producer' = producer + 1 /\ slots' = slots /\ consumer' = consumer
    BY DEF ViewInv
  <2>2. slots[Slot(producer)] \in LaneRecord
    BY DEF PutInv, RoomInv
  <2>3. \A i \in consumer .. producer : i = producer \/ i \in consumer .. producer - 1
    BY DEF LaneTypeOK
  <2>4. (producer + 1) - 1 = producer
    BY DEF LaneTypeOK
  <2> QED
    BY <2>1, <2>2, <2>3, <2>4 DEF UnreadInv, Slot
<1>5. CopyInv'
  BY DEF CopyInv, Slot, ViewInv, LaneTypeOK, Consistent
<1> QED
  BY <1>1, <1>2, <1>3, <1>4, <1>5

LEMMA PeekBeginsKeeps ==
  ASSUME RingInv, PeekBegins
  PROVE  RingInv'
<1> USE DEF RingInv, PeekBegins, writerVars
<1>1. LaneTypeOK'
  BY DEF LaneTypeOK
<1>2. ViewInv'
  BY DEF LaneTypeOK, ViewInv, Consistent
<1>3. RoomInv' /\ PutInv' /\ UnreadInv' /\ CopyInv'
  BY DEF RoomInv, PutInv, UnreadInv, CopyInv, Slot
<1> QED
  BY <1>1, <1>2, <1>3

LEMMA CopyWordKeeps ==
  ASSUME RingInv, NEW x \in Words, CopyWord(x)
  PROVE  RingInv'
<1> USE DEF RingInv, CopyWord, writerVars
<1>0. slots[Slot(consumer)] \in [Words -> Values \cup {Zero}]
  BY SlotType, LaneAssumption DEF LaneTypeOK
<1>1. LaneTypeOK'
  BY <1>0 DEF LaneTypeOK, ViewInv
<1>2. ViewInv'
  BY DEF ViewInv, Consistent
<1>3. RoomInv' /\ PutInv' /\ UnreadInv'
  BY DEF RoomInv, PutInv, UnreadInv, Slot
<1>4. CopyInv'
  <2>1. /\ copy' \in [Words -> Values \cup {Zero}]
        /\ \A y \in Words : copy'[y] = IF y = x THEN slots[Slot(consumer)][x] ELSE copy[y]
    BY <1>0 DEF LaneTypeOK, ViewInv
  <2>2. \A y \in Words \ (uncopied \ {x}) : copy'[y] = slots[Slot(consumer)][y]
    BY <2>1 DEF CopyInv
  <2>3. ASSUME uncopied = {x} PROVE copy' = slots[Slot(consumer)]
    BY <1>0, <2>1, <2>2, <2>3
  <2> QED
    BY <2>2, <2>3 DEF CopyInv, Slot
<1> QED
  BY <1>1, <1>2, <1>3, <1>4

LEMMA PeekLeavesKeeps ==
  ASSUME RingInv, PeekLeaves
  PROVE  RingInv'
  BY DEF RingInv, PeekLeaves, writerVars, LaneTypeOK, ViewInv, Consistent, RoomInv, PutInv, UnreadInv, CopyInv, Slot

LEMMA ReleasesKeeps ==
  ASSUME RingInv, Releases
  PROVE  RingInv'
<1> USE DEF RingInv, Releases, writerVars
<1>1. LaneTypeOK'
  BY LaneAssumption DEF LaneTypeOK, ViewInv, Consistent
<1>2. ViewInv'
  BY LaneAssumption DEF LaneTypeOK, ViewInv, Consistent
<1>3. RoomInv' /\ PutInv'
  BY LaneAssumption DEF RoomInv, PutInv, Slot, LaneTypeOK, ViewInv
<1>4. UnreadInv' /\ CopyInv'
  BY DEF UnreadInv, CopyInv, Slot, LaneTypeOK, ViewInv
<1> QED
  BY <1>1, <1>2, <1>3, <1>4

LEMMA RingStep ==
  RingInv /\ [LaneNext]_laneVars => RingInv'
<1> SUFFICES ASSUME RingInv, [LaneNext]_laneVars PROVE RingInv'
  OBVIOUS
<1>1. CASE \E r \in LaneRecord, reserve \in Reserves : WriteBegins(r, reserve)
  BY <1>1, WriteBeginsKeeps
<1>2. CASE \E reserve \in Reserves : WriteRefused(reserve)
  BY <1>2, WriteRefusedKeeps
<1>3. CASE \E x \in Words : EncodeWord(x) \/ CopyWord(x)
  BY <1>3, EncodeWordKeeps, CopyWordKeeps
<1>4. CASE Publishes \/ PeekBegins \/ PeekLeaves \/ Releases
  BY <1>4, PublishesKeeps, PeekBeginsKeeps, PeekLeavesKeeps, ReleasesKeeps
<1>5. CASE UNCHANGED laneVars
  BY <1>5 DEF laneVars, RingInv, LaneTypeOK, ViewInv, Consistent, RoomInv, PutInv, UnreadInv, CopyInv, Slot
<1> QED
  BY <1>1, <1>2, <1>3, <1>4, <1>5 DEF LaneNext

LEMMA RingInvHolds ==
  LaneSpec => []RingInv
  BY RingInit, RingStep, PTL DEF LaneSpec

-----------------------------------------------------------------------------
(* The theorems.                                                           *)

\* Whatever the two processes of a lane do between each other's loads and words,
\* neither meets ErrAA24Index (aa24Indices) and a peeked record stays whole and
\* next for as long as its caller holds it (aa24Peek, aa24Release).
THEOREM LaneIsSafe ==
  LaneSpec => []LaneInv
<1>1. RingInv => LaneInv
  <2> SUFFICES ASSUME RingInv PROVE LaneInv
    OBVIOUS
  <2>1. IndicesAccepted
    BY DEF RingInv, ViewInv, IndicesAccepted, WriterAccepts, ReaderAccepts, LaneTypeOK
  <2>2. PeekedIsHead
    <3> SUFFICES ASSUME reader = "peeked" PROVE producer # consumer /\ copy \in LaneRecord /\ copy = slots[Slot(consumer)]
      BY DEF PeekedIsHead
    <3>1. producer # consumer /\ copy = slots[Slot(consumer)]
      BY DEF RingInv, CopyInv
    <3>2. consumer \in consumer .. producer - 1
      BY <3>1 DEF RingInv, LaneTypeOK, ViewInv, Consistent
    <3> QED
      BY <3>1, <3>2 DEF RingInv, UnreadInv
  <2> QED
    BY <2>1, <2>2 DEF LaneInv, RingInv
<1> QED
  BY <1>1, RingInvHolds, PTL

-----------------------------------------------------------------------------
(* The refinement.                                                         *)

\* The unread slots, as a sequence of records.
LEMMA UnreadSeq ==
  ASSUME RingInv
  PROVE  /\ producer - consumer \in Nat
         /\ Unread \in Seq(LaneRecord) /\ Len(Unread) = producer - consumer
         /\ \A i \in 1 .. producer - consumer : Unread[i] = slots[Slot(consumer + i - 1)]
<1>1. producer - consumer \in Nat /\ producer \in Nat /\ consumer \in Nat
  BY LaneAssumption DEF RingInv, LaneTypeOK, ViewInv, Consistent
<1>2. \A i \in 1 .. producer - consumer : consumer + i - 1 \in consumer .. producer - 1
  BY <1>1
<1>3. \A i \in 1 .. producer - consumer : slots[Slot(consumer + i - 1)] \in LaneRecord
  BY <1>2 DEF RingInv, UnreadInv
<1>4. Unread \in [1 .. producer - consumer -> LaneRecord]
  BY <1>3 DEF Unread
<1>5. Unread \in Seq(LaneRecord) /\ Len(Unread) = producer - consumer
  BY <1>1, <1>4
<1> QED
  BY <1>1, <1>5 DEF Unread

\* A step that moves neither index and no unread slot leaves the queue alone.
LEMMA UnreadKept ==
  ASSUME RingInv, producer' = producer, consumer' = consumer,
         \A i \in consumer .. producer - 1 : slots'[Slot(i)] = slots[Slot(i)]
  PROVE  Unread' = Unread
<1>1. \A i \in 1 .. producer - consumer : consumer + i - 1 \in consumer .. producer - 1
  <2>1. producer \in Nat /\ consumer \in Nat
    BY UnreadSeq DEF RingInv, LaneTypeOK
  <2> QED
    BY <2>1
<1>2. \A i \in 1 .. producer - consumer : slots'[Slot(consumer + i - 1)] = slots[Slot(consumer + i - 1)]
  BY <1>1
<1>3. Unread' = [i \in 1 .. producer - consumer |-> slots'[Slot(consumer + i - 1)]]
  BY DEF Unread, Slot
<1> QED
  BY <1>2, <1>3 DEF Unread

\* Storing the producer index puts the record at the end of the queue.
LEMMA PublishPuts ==
  ASSUME RingInv, Publishes
  PROVE  Fifo!Put
<1>1. producer' = producer + 1 /\ consumer' = consumer /\ slots' = slots /\ delivered' = delivered
  BY DEF RingInv, ViewInv, Publishes, readerVars
<1>2. slots[Slot(producer)] = record /\ record \in LaneRecord /\ producer - consumer < Capacity
  BY DEF RingInv, PutInv, RoomInv, Publishes
<1>3. producer \in Nat /\ consumer \in Nat
  BY LaneAssumption DEF RingInv, LaneTypeOK
<1> DEFINE n == producer - consumer
<1>4. /\ n \in Nat /\ Unread \in Seq(LaneRecord) /\ Len(Unread) = n
      /\ \A i \in 1 .. n : Unread[i] = slots[Slot(consumer + i - 1)]
  BY UnreadSeq
<1>5. producer' - consumer' = n + 1
  BY <1>1, <1>3
<1>6. /\ Unread' \in Seq(LaneRecord) /\ Len(Unread') = n + 1
      /\ \A i \in 1 .. n + 1 : Unread'[i] = slots[Slot(consumer + i - 1)]
  <2>1. /\ Unread' \in Seq(LaneRecord) /\ Len(Unread') = producer' - consumer'
        /\ \A i \in 1 .. producer' - consumer' : Unread'[i] = slots'[Slot(consumer' + i - 1)]
    <3>1. Unread' = [i \in 1 .. n + 1 |-> slots[Slot(consumer + i - 1)]]
      BY <1>1, <1>5 DEF Unread, Slot
    <3>2. \A i \in 1 .. n + 1 : consumer + i - 1 \in consumer .. producer
      BY <1>3
    <3>3. \A j \in consumer .. producer : slots[Slot(j)] \in LaneRecord
      <4>1. \A j \in consumer .. producer : j = producer \/ j \in consumer .. producer - 1
        BY <1>3
      <4> QED
        BY <1>2, <4>1 DEF RingInv, UnreadInv
    <3>4. Unread' \in [1 .. n + 1 -> LaneRecord]
      BY <3>1, <3>2, <3>3
    <3>5. n + 1 \in Nat
      BY <1>4
    <3> HIDE DEF n
    <3>6. Unread' \in Seq(LaneRecord) /\ Len(Unread') = n + 1
      BY <3>4, <3>5
    <3> QED
      BY <1>1, <1>5, <3>1, <3>6
  <2> QED
    BY <1>1, <1>5, <2>1
<1>7. Append(Unread, record) \in Seq(LaneRecord) /\ Len(Append(Unread, record)) = n + 1
  BY <1>2, <1>4
<1>8. ASSUME NEW i \in 1 .. n + 1 PROVE Unread'[i] = Append(Unread, record)[i]
  <2>1. CASE i = n + 1
    <3>1. consumer + i - 1 = producer
      BY <1>3, <2>1
    <3> QED
      BY <1>2, <1>4, <1>6, <2>1, <3>1
  <2>2. CASE i # n + 1
    <3>1. i \in 1 .. n
      BY <1>4, <2>2
    <3> QED
      BY <1>2, <1>4, <1>6, <3>1
  <2> QED
    BY <2>1, <2>2
<1> HIDE DEF n
<1>9. Unread' = Append(Unread, record)
  BY <1>6, <1>7, <1>8, SeqEqual
<1> QED
  BY <1>1, <1>2, <1>4, <1>9 DEF Fifo!Put, n

\* Storing the consumer index takes the record at the head of the queue, and the
\* copy the caller is given is that record.
LEMMA ReleaseTakes ==
  ASSUME RingInv, Releases
  PROVE  Fifo!Take
<1>1. producer' = producer /\ consumer' = consumer + 1 /\ slots' = slots /\ delivered' = slots[Slot(consumer)]
  BY DEF RingInv, ViewInv, CopyInv, Releases, writerVars
<1>3. producer \in Nat /\ consumer \in Nat /\ producer # consumer
  BY LaneAssumption DEF RingInv, LaneTypeOK, Releases
<1> DEFINE n == producer - consumer
<1>4. /\ n \in Nat /\ Unread \in Seq(LaneRecord) /\ Len(Unread) = n
      /\ \A i \in 1 .. n : Unread[i] = slots[Slot(consumer + i - 1)]
  BY UnreadSeq
<1>5. n > 0 /\ producer' - consumer' = n - 1
  BY <1>1, <1>3, <1>4
<1>6. Unread' = [i \in 1 .. n - 1 |-> slots[Slot(consumer + 1 + i - 1)]]
  BY <1>1, <1>5 DEF Unread, Slot
<1>7. \A i \in 1 .. n - 1 : consumer + 1 + i - 1 = consumer + (i + 1) - 1 /\ i + 1 \in 1 .. n
  BY <1>3
<1> HIDE DEF n
<1>8. Unread' = [i \in 1 .. n - 1 |-> Unread[i + 1]]
  BY <1>4, <1>6, <1>7
<1>9. Unread # <<>> /\ Unread' = Tail(Unread)
  <2>1. Unread # <<>>
    BY <1>4, <1>5
  <2>2. /\ Tail(Unread) \in Seq(LaneRecord) /\ Len(Tail(Unread)) = n - 1
        /\ \A i \in 1 .. n - 1 : Tail(Unread)[i] = Unread[i + 1]
    BY <1>4, <2>1, HeadTailProperties
  <2>3. n - 1 \in Nat /\ \A i \in 1 .. n - 1 : Unread[i + 1] \in LaneRecord
    BY <1>4, <1>5
  <2>4. Unread' \in [1 .. n - 1 -> LaneRecord]
    BY <1>8, <2>3
  <2>5. Unread' \in Seq(LaneRecord) /\ Len(Unread') = n - 1
    BY <2>3, <2>4
  <2>6. \A i \in 1 .. n - 1 : Unread'[i] = Tail(Unread)[i]
    BY <1>8, <2>2
  <2>7. Unread' = Tail(Unread)
    BY <2>2, <2>5, <2>6, SeqEqual
  <2> QED
    BY <2>1, <2>7
<1>10. Head(Unread) = slots[Slot(consumer)]
  <2>1. 1 \in 1 .. n /\ consumer + 1 - 1 = consumer
    BY <1>3, <1>4, <1>5
  <2> QED
    BY <1>4, <2>1
<1> QED
  BY <1>1, <1>9, <1>10 DEF Fifo!Take

\* Every other step leaves the queue as it is.
LEMMA FifoStep ==
  ASSUME RingInv, [LaneNext]_laneVars
  PROVE  [Fifo!Next]_<<Unread, delivered>>
<1>1. CASE \E r \in LaneRecord, reserve \in Reserves : WriteBegins(r, reserve)
  BY <1>1, UnreadKept DEF WriteBegins, readerVars
<1>2. CASE \E reserve \in Reserves : WriteRefused(reserve)
  BY <1>2, UnreadKept DEF WriteRefused, readerVars
<1>3. ASSUME NEW x \in Words, EncodeWord(x) PROVE UNCHANGED <<Unread, delivered>>
  <2>1. producer' = producer /\ consumer' = consumer /\ delivered' = delivered
    BY <1>3 DEF EncodeWord, readerVars
  <2> QED
    BY <1>3, <2>1, UnreadKept, EncodeSlots
<1>4. ASSUME NEW x \in Words, CopyWord(x) PROVE UNCHANGED <<Unread, delivered>>
  BY <1>4, UnreadKept DEF CopyWord, writerVars
<1>5. CASE Publishes
  BY <1>5, PublishPuts DEF Fifo!Next
<1>6. CASE PeekBegins
  BY <1>6, UnreadKept DEF PeekBegins, writerVars
<1>7. CASE PeekLeaves
  BY <1>7, UnreadKept DEF PeekLeaves, writerVars
<1>8. CASE Releases
  BY <1>8, ReleaseTakes DEF Fifo!Next
<1>9. CASE UNCHANGED laneVars
  BY <1>9, UnreadKept DEF laneVars
<1> QED
  BY <1>1, <1>2, <1>3, <1>4, <1>5, <1>6, <1>7, <1>8, <1>9 DEF LaneNext

\* Word by word and through two processes' views of the indices, a lane of
\* aa24_ipc.go is a bounded queue of whole records: aa24Write appends one when it
\* stores the producer index, aa24Release takes the oldest, and nothing else shows.
THEOREM LaneImplementsFifo ==
  LaneSpec => ImplementsFifo
<1>1. LaneInit => Fifo!Init
  <2> SUFFICES ASSUME LaneInit PROVE Unread = <<>> /\ delivered = Cleared
    BY DEF Fifo!Init
  <2>1. producer - consumer = 0 /\ delivered = Cleared
    BY DEF LaneInit
  <2> QED
    BY <2>1, UnreadSeq, RingInit, EmptySeq
<1>2. RingInv /\ [LaneNext]_laneVars => [Fifo!Next]_<<Unread, delivered>>
  BY FifoStep
<1> QED
  BY <1>1, <1>2, RingInvHolds, PTL DEF LaneSpec, ImplementsFifo, Fifo!Spec

-----------------------------------------------------------------------------
(* The endpoints of Aa24Ipc: the inductive invariant.                      *)

Kinds == {"publish", "revoke", "stop", "acknowledge", "gap", "command", "raw", "completion"}
Message == [kind : Kinds, plan : Nat, token : Nat, until : Nat, sequence : Nat, time : Nat]
MessageLane == [q : Seq(Message), read : Nat]

\* A record of its kind; one that is about no plan names none.
WellFormed(r, name) ==
  /\ Shape(r, name)
  /\ r.plan # 0 => r.kind \in {"publish", "revoke", "acknowledge", "command", "completion"}

LaneOK(lane, name, capacity) ==
  /\ lane \in MessageLane
  /\ \A i \in DOMAIN lane.q : WellFormed(lane.q[i], name)
  /\ Len(lane.q) <= capacity

HostFields ==
  {"fence", "closed", "progress", "stopSent", "stopIndex", "terminated", "detached", "plans", "planFloor",
   "tokenFloor", "outstanding", "lingering", "retained", "cancelled", "nextCapture", "explained",
   "lastControl", "lastData"}
WorkerFields ==
  {"fence", "closed", "last", "progress", "gapLatched", "gapWritten", "gapIndex", "gap", "stopObserved",
   "adopted", "refused", "planFloor", "tokenFloor", "active", "nextSequence", "detached", "alive"}

Positive == Nat \ {0}
HostPlan == [plan : Positive, until : Positive, revoking : BOOLEAN]
WorkerPlan == [plan : Positive, until : Positive, revoked : BOOLEAN]
RefusedPlan == [plan : Positive, until : Positive]
OnePerPlan(plans) == \A p, q \in plans : p.plan = q.plan => p = q

\* What every method of the host keeps whatever it does to its tables.
HostSound(x) ==
  /\ DOMAIN x = HostFields
  /\ x.fence.reason \in Reasons
  /\ x.explained \subseteq 1 .. setup.maxSequence

PlansOK(plans, floor) ==
  /\ plans \subseteq HostPlan /\ IsFiniteSet(plans) /\ Cardinality(plans) <= setup.maxPlans
  /\ OnePerPlan(plans)
  /\ \A p \in plans : p.plan <= floor

HostOK(x) ==
  /\ HostSound(x)
  /\ x.planFloor \in Nat /\ x.tokenFloor \in Nat /\ x.stopIndex \in Nat
  /\ x.stopSent \in BOOLEAN /\ x.terminated \in BOOLEAN /\ x.detached \in BOOLEAN
  /\ PlansOK(x.plans, x.planFloor)
  /\ x.detached => x.plans = {}

AdoptedOK(adopted, refused) ==
  /\ adopted \subseteq WorkerPlan /\ IsFiniteSet(adopted) /\ Cardinality(adopted) <= setup.maxPlans
  /\ refused \subseteq RefusedPlan /\ IsFiniteSet(refused)
  /\ OnePerPlan(adopted) /\ OnePerPlan(refused)
  /\ \A p \in adopted, q \in refused : p.plan # q.plan

\* A worker whose fence is closed has no command, and one that has a command holds
\* its plan.
ActiveOK(x) ==
  /\ x.active = NoCommand \/ x.active \in [plan : Positive, token : Positive, until : Positive]
  /\ x.fence # "None" => x.active = NoCommand
  /\ x.active # NoCommand => PlanHeld(x, x.active.plan)

WorkerOK(x) ==
  /\ DOMAIN x = WorkerFields
  /\ x.fence \in Reasons
  /\ x.gapLatched \in BOOLEAN /\ x.gapWritten \in BOOLEAN
  /\ x.alive \in BOOLEAN /\ x.detached \in BOOLEAN
  /\ x.last \in Nat /\ x.tokenFloor \in Nat /\ x.nextSequence \in 1 .. setup.maxSequence
  /\ AdoptedOK(x.adopted, x.refused)
  /\ ActiveOK(x)

\* The slot that is reserved for the gap is free until the gap is in it.
GapOK(x, lane) ==
  /\ x.gapLatched => x.gapWritten
  /\ ~x.gapLatched => HasRoom(lane, setup.wc, 0)

\* The same slot for the stop; the worker that has read the stop is fenced, and a host
\* leaves a living worker only then.
StopOK(x, y, lane) ==
  /\ ~x.stopSent => HasRoom(lane, setup.hc, 0)
  /\ x.stopSent => IF lane.read <= x.stopIndex
                   THEN /\ x.stopIndex - lane.read + 1 <= Len(lane.q)
                        /\ lane.q[x.stopIndex - lane.read + 1].kind = "stop"
                   ELSE y.fence # "None"
  /\ x.detached /\ y.alive => lane.q = <<>> /\ y.fence # "None"
  /\ x.terminated => ~y.alive

\* Where a plan is: in records of a lane, in the worker's lists, in the host's.
Mentions(q, kind, n) == \E i \in DOMAIN q : q[i].kind = kind /\ q[i].plan = n
Holds(x, n) == \E p \in x.adopted \cup x.refused : p.plan = n
Revoked(x, n) == \E p \in x.adopted : p.plan = n /\ p.revoked
Lists(x, n) == \E p \in x.plans : p.plan = n
Revokes(x, n) == \E p \in x.plans : p.plan = n /\ p.revoking

\* The life of a plan: it is published, held, revoked and retired in this order, each
\* at most once, and on the way it is in exactly one place.
Life(pub, rev, holds, revoked, ack, lists, revokes, lost, serves, listens) ==
  /\ pub => ~holds /\ ~ack
  /\ holds => ~ack
  /\ rev => ~ack /\ ~revoked
  /\ revoked => holds
  /\ revokes => lists
  /\ rev /\ serves => pub \/ holds
  /\ lists /\ ~revokes => ~rev /\ ~revoked /\ ~ack /\ (serves => pub \/ holds)
  /\ listens /\ (pub \/ rev \/ holds) => lists
  /\ revokes /\ serves /\ ~lost => rev \/ revoked \/ ack

LifeOf(x, y, hq, wq, lost, n) ==
  Life(Mentions(hq, "publish", n), Mentions(hq, "revoke", n), Holds(y, n), Revoked(y, n),
       Mentions(wq, "acknowledge", n), Lists(x, n), Revokes(x, n), n \in lost,
       y.alive /\ ~y.detached, y.alive /\ ~x.detached)

\* Numbers above the host's floor are new.
Unused(x, y, hq, wq, n) ==
  n > x.planFloor => /\ ~Mentions(hq, "publish", n) /\ ~Mentions(hq, "revoke", n)
                     /\ ~Mentions(wq, "acknowledge", n) /\ ~Holds(y, n)

\* A plan is published before it is revoked, and each once.
InOrder(q) ==
  \A i, j \in DOMAIN q : i < j /\ q[i].plan = q[j].plan /\ q[i].plan # 0 =>
    q[i].kind = "publish" /\ q[j].kind = "revoke"

TokensOK(x, y, q, done) ==
  /\ \A i \in DOMAIN q : q[i].token <= x.tokenFloor
  /\ done \subseteq 0 .. y.tokenFloor
  /\ y.tokenFloor <= x.tokenFloor

ClockOK(tick, number) ==
  setup \in Setups /\ tick \in 1 .. Higher(1, setup.ticks) /\ number \in 1 .. Higher(1, setup.streams)

\* A worker that is in an operation is there, and has a reading of the clock.
PcOK(hp, wp, y) ==
  /\ DOMAIN hp = {"at", "head", "reading"} /\ hp.at \in {"idle", "head", "control", "data"}
  /\ DOMAIN wp = {"at", "op", "plan", "budget", "reading", "fenced"} /\ wp.at \in {"idle", "drain", "act"}
  /\ wp.at # "idle" => wp.reading \in Positive /\ y.alive /\ ~y.detached

SequencesOK(lane) == \A i \in DOMAIN lane.q : lane.q[i].sequence <= setup.maxSequence

IpcState(tick, number, a, b, c, d, x, y, hp, wp, lost, done) ==
  /\ ClockOK(tick, number) /\ PcOK(hp, wp, y)
  /\ LaneOK(a, "hc", setup.hc) /\ LaneOK(b, "wc", setup.wc) /\ LaneOK(c, "hd", setup.hd) /\ LaneOK(d, "wd", setup.wd)
  /\ SequencesOK(b) /\ SequencesOK(d)
  /\ HostOK(x) /\ WorkerOK(y)
  /\ GapOK(y, b) /\ StopOK(x, y, a) /\ InOrder(a.q)
  /\ \A n \in Positive : LifeOf(x, y, a.q, b.q, lost, n) /\ Unused(x, y, a.q, b.q, n)
  /\ TokensOK(x, y, c.q, done)

IpcInv == IpcState(now, stream, hc, wc, hd, wd, h, w, hpc, wpc, overtaken, started)

-----------------------------------------------------------------------------
(* The host's methods.                                                     *)

LEMMA SetupFacts ==
  ASSUME setup \in Setups
  PROVE  /\ setup.hc \in Nat /\ setup.hc > 1 /\ setup.wc \in Nat /\ setup.wc > 1
         /\ setup.hd \in Positive /\ setup.wd \in Positive /\ setup.maxPlans \in Positive
         /\ setup.maxSequence \in Positive /\ setup.plans \in Nat /\ setup.tokens \in Nat
         /\ setup.ticks \in Nat /\ setup.streams \in Nat /\ setup.expiries \subseteq Positive
  BY SetupsAssumption DEF ReservedSlots, Positive

\* What the methods that keep the host's tables leave alone.
SameTables(x, y) ==
  /\ y.plans = x.plans /\ y.planFloor = x.planFloor /\ y.tokenFloor = x.tokenFloor
  /\ y.stopSent = x.stopSent /\ y.stopIndex = x.stopIndex
  /\ y.terminated = x.terminated /\ y.detached = x.detached

HostKeeps(x, y) == HostSound(y) /\ SameTables(x, y)

LEMMA KeepsTrans ==
  ASSUME NEW x, NEW y, NEW z, HostKeeps(x, y), HostKeeps(y, z)
  PROVE  HostKeeps(x, z)
  BY DEF HostKeeps, SameTables

LEMMA KeepsSelf ==
  ASSUME NEW x, HostSound(x)
  PROVE  HostKeeps(x, x)
  BY DEF HostKeeps, SameTables

LEMMA LingerKeeps ==
  ASSUME NEW x, HostSound(x), NEW moving, NEW strict, NEW horizon, NEW retired
  PROVE  HostKeeps(x, Linger(x, moving, strict, horizon, retired))
  BY DEF Linger, HostKeeps, SameTables, HostSound, HostFields

LEMMA LingerMovedKeeps ==
  ASSUME NEW x, HostSound(x), NEW moving, NEW retired
  PROVE  HostKeeps(x, LingerMoved(x, moving, retired))
  BY LingerKeeps DEF LingerMoved

LEMMA CloseKeeps ==
  ASSUME NEW x, HostSound(x), NEW reason \in Reasons, NEW sequence
  PROVE  HostKeeps(x, Close(x, reason, sequence))
<1> DEFINE head == Produced(wd)
           tight == [x EXCEPT !.lingering = Tightened(@, head)]
           moved == Linger(tight, Range(x.outstanding), TRUE, Earlier(x.retained, head), FALSE)
<1>1. HostKeeps(x, tight)
  BY DEF HostKeeps, SameTables, HostSound, HostFields
<1>2. HostKeeps(tight, moved)
  BY <1>1, LingerKeeps DEF HostKeeps
<1>3. HostKeeps(x, moved)
  BY <1>1, <1>2, KeepsTrans
<1>4. Close(x, reason, sequence) = [moved EXCEPT
        !.fence = IF @.reason = "None" \/ reason = "WorkerGap" THEN [reason |-> reason, sequence |-> sequence] ELSE @,
        !.cancelled = @ \cup {x.outstanding[i] : i \in DOMAIN x.outstanding},
        !.retained = IF moved.outstanding # <<>> THEN Earlier(@, head) ELSE @]
  BY DEF Close
<1> HIDE DEF head, tight, moved
<1>5. HostKeeps(moved, Close(x, reason, sequence))
  BY <1>3, <1>4 DEF HostKeeps, SameTables, HostSound, HostFields
<1> QED
  BY <1>3, <1>5, KeepsTrans

LEMMA TickKeeps ==
  ASSUME NEW x, HostSound(h), x \in SoundTicks \cup FaultyTicks
  PROVE  HostKeeps(h, x)
<1>1. CASE x = SoundTick(h)
  <2> DEFINE served == [h EXCEPT !.progress = Progress(hc, @, now)]
  <2>1. HostKeeps(h, served)
    BY DEF HostKeeps, SameTables, HostSound, HostFields
  <2>2. HostKeeps(served, Close(served, "ControlDeadline", 0))
    BY <2>1, CloseKeeps DEF HostKeeps, Reasons
  <2>3. x = IF ServiceExpired(hc, h.progress, now) THEN Close(served, "ControlDeadline", 0) ELSE served
    BY <1>1 DEF SoundTick
  <2> QED
    BY <2>1, <2>2, <2>3, KeepsTrans
<1>2. CASE x = FaultyTick(h)
  <2> DEFINE shut == [h EXCEPT !.closed = TRUE]
  <2>1. HostKeeps(h, shut)
    BY DEF HostKeeps, SameTables, HostSound, HostFields
  <2>2. HostKeeps(shut, Close(shut, "Clock", 0))
    BY <2>1, CloseKeeps DEF HostKeeps, Reasons
  <2>3. x = Close(shut, "Clock", 0)
    BY <1>2 DEF FaultyTick
  <2> QED
    BY <2>1, <2>2, <2>3, KeepsTrans
<1>3. CASE x = ZeroTick(h)
  BY <1>3, CloseKeeps DEF ZeroTick, Reasons
<1> QED
  BY <1>1, <1>2, <1>3 DEF SoundTicks, FaultyTicks, ClosingTicks, ZeroTicks

LEMMA AccountedKeeps ==
  ASSUME NEW x, HostSound(x), NEW sequence \in Nat, sequence # 0, sequence <= setup.maxSequence,
         setup.maxSequence \in Nat, NEW control
  PROVE  HostKeeps(x, Accounted(x, sequence, control))
<1> DEFINE next == CHOOSE n \in sequence + 1 .. setup.maxSequence :
                       /\ n \notin x.explained \/ n = setup.maxSequence
                       /\ \A m \in sequence + 1 .. n - 1 : m \in x.explained
           added == [x EXCEPT !.explained = @ \cup {sequence}]
           moved == [x EXCEPT !.nextCapture = next, !.explained = {e \in @ : e >= next}]
<1>1. Accounted(x, sequence, control) \in {x, added, moved}
  BY Zenon DEF Accounted
<1>2. HostKeeps(x, added)
  BY DEF HostKeeps, SameTables, HostSound, HostFields
<1> HIDE DEF next
<1>3. HostKeeps(x, moved)
  BY DEF HostKeeps, SameTables, HostSound, HostFields
<1> QED
  BY <1>1, <1>2, <1>3, KeepsSelf

\* A control record changes the host's list only when it retires a plan; one that was
\* captured at an impossible time does not.
Retires(x, r) == {p \in x.plans : p.plan = r.plan /\ p.revoking}
Handled(x, y, r, faulty) ==
  /\ HostSound(y)
  /\ y.plans = IF r.kind = "gap" \/ faulty THEN x.plans ELSE x.plans \ Retires(x, r)
  /\ y.planFloor = x.planFloor /\ y.tokenFloor = x.tokenFloor
  /\ y.stopSent = x.stopSent /\ y.stopIndex = x.stopIndex
  /\ y.terminated = x.terminated /\ y.detached = x.detached

LEMMA HandleControlHandles ==
  ASSUME NEW x, HostSound(x), NEW r \in Message, r.sequence # 0, r.sequence <= setup.maxSequence,
         setup.maxSequence \in Nat, NEW reading, NEW trusted \in BOOLEAN
  PROVE  Handled(x, HostHandleControl(x, r, reading, trusted), r,
                 trusted /\ Impossible(r, x.lastControl, reading))
<1> DEFINE regressed == trusted /\ Impossible(r, x.lastControl, reading)
           timed == IF trusted /\ ~regressed THEN [x EXCEPT !.lastControl = r.time] ELSE x
           counted == IF ~HostOpen(timed) THEN timed
                      ELSE IF Accounts(timed, r.sequence, TRUE) THEN Accounted(timed, r.sequence, TRUE)
                      ELSE Close(timed, "Discontinuity", r.sequence)
           acked == {p \in counted.plans : p.plan = r.plan /\ p.revoking}
           dropped == [counted EXCEPT !.plans = @ \ acked]
           moving == {c \in Range(counted.outstanding) : c.plan = r.plan}
           y == HostHandleControl(x, r, reading, trusted)
<1>0. r.sequence \in Nat
  BY DEF Message
<1>1. HostKeeps(x, timed)
  BY DEF HostKeeps, SameTables, HostSound, HostFields
<1>2. HostKeeps(timed, Accounted(timed, r.sequence, TRUE))
  <2>1. HostSound(timed)
    BY <1>1 DEF HostKeeps
  <2> QED
    BY <1>0, <2>1, AccountedKeeps
<1>3. \A reason \in Reasons : \A z : HostSound(z) => HostKeeps(z, Close(z, reason, r.sequence))
  BY CloseKeeps
<1>4. HostKeeps(x, counted)
  <2>1. HostSound(timed) /\ HostKeeps(timed, timed)
    BY <1>1, KeepsSelf DEF HostKeeps
  <2>2. HostKeeps(timed, Close(timed, "Discontinuity", r.sequence))
    BY <1>3, <2>1 DEF Reasons
  <2>3. HostKeeps(timed, counted)
    BY <1>2, <2>1, <2>2
  <2> QED
    BY <1>1, <2>3, KeepsTrans
<1>5. CASE r.kind = "gap"
  <2>1. y = Close(Accounted(timed, r.sequence, TRUE), "WorkerGap", r.sequence)
    BY <1>5 DEF HostHandleControl
  <2> HIDE DEF timed
  <2>2. HostSound(Accounted(timed, r.sequence, TRUE))
    BY <1>2 DEF HostKeeps
  <2>3. HostKeeps(Accounted(timed, r.sequence, TRUE), y)
    BY <1>3, <2>1, <2>2 DEF Reasons
  <2>4. HostKeeps(x, y)
    BY <1>1, <1>2, <2>3, KeepsTrans
  <2> QED
    BY <1>5, <2>4 DEF HostKeeps, SameTables, Handled
<1>6. CASE r.kind # "gap" /\ regressed
  <2>1. y = Close(timed, "Clock", r.sequence)
    BY <1>6 DEF HostHandleControl
  <2>2. HostKeeps(timed, y)
    BY <1>1, <1>3, <2>1 DEF Reasons, HostKeeps
  <2>4. HostKeeps(x, y)
    BY <1>1, <2>2, KeepsTrans
  <2> QED
    BY <1>6, <2>4 DEF HostKeeps, SameTables, Handled
<1>7. CASE r.kind # "gap" /\ ~regressed
  <2>1. y = IF acked = {} THEN counted ELSE LingerMoved(dropped, moving, TRUE)
    BY <1>7 DEF HostHandleControl
  <2> HIDE DEF counted, timed
  <2>2. acked = Retires(x, r)
    BY <1>4 DEF HostKeeps, SameTables, Retires
  <2>3. Handled(x, dropped, r, regressed)
    BY <1>4, <1>7, <2>2 DEF HostKeeps, SameTables, HostSound, HostFields, Handled
  <2>4. HostKeeps(dropped, LingerMoved(dropped, moving, TRUE))
    BY <2>3, LingerMovedKeeps DEF Handled
  <2>5. Handled(x, LingerMoved(dropped, moving, TRUE), r, regressed)
    BY <2>3, <2>4 DEF Handled, HostKeeps, SameTables
  <2>6. CASE acked = {}
    BY <1>4, <1>7, <2>1, <2>2, <2>6 DEF Handled, HostKeeps, SameTables
  <2> QED
    BY <2>1, <2>5, <2>6
<1> QED
  BY <1>5, <1>6, <1>7

LEMMA CompletedKeeps ==
  ASSUME NEW x, HostSound(x), NEW c, NEW i
  PROVE  HostKeeps(x, Completed(x, c, i))
<1> DEFINE out == SelectSeq(x.outstanding, LAMBDA o : o # c)
           at == {j \in DOMAIN x.lingering : ExpectsLingering(x.lingering[j], c, i)}
           left == RemoveAt(x.lingering, CHOOSE j \in at : \A k \in at : j <= k)
<1>1. Completed(x, c, i) \in {x, [x EXCEPT !.outstanding = out], [x EXCEPT !.lingering = left]}
  BY Zenon DEF Completed
<1> HIDE DEF out, left
<1>2. HostKeeps(x, [x EXCEPT !.outstanding = out]) /\ HostKeeps(x, [x EXCEPT !.lingering = left])
  BY DEF HostKeeps, SameTables, HostSound, HostFields
<1> QED
  BY <1>1, <1>2, KeepsSelf

LEMMA HandleDataKeeps ==
  ASSUME NEW x, HostSound(x), NEW r \in Message, r.sequence # 0, r.sequence <= setup.maxSequence,
         setup.maxSequence \in Nat, NEW reading
  PROVE  HostKeeps(x, HostHandleData(x, r, reading))
<1> DEFINE timed == [x EXCEPT !.lastData = r.time]
           counted == IF HostOpen(timed) THEN Accounted(timed, r.sequence, FALSE) ELSE timed
           y == HostHandleData(x, r, reading)
<1>0. r.sequence \in Nat
  BY DEF Message
<1>1. HostKeeps(x, timed)
  BY DEF HostKeeps, SameTables, HostSound, HostFields
<1>2. HostKeeps(x, Close(x, "Clock", r.sequence))
  BY CloseKeeps DEF Reasons
<1>3. HostKeeps(timed, Close(timed, "Discontinuity", r.sequence))
  BY <1>1, CloseKeeps DEF Reasons, HostKeeps
<1>4. HostKeeps(timed, counted)
  BY <1>0, <1>1, AccountedKeeps, KeepsSelf DEF HostKeeps
<1>5. HostKeeps(counted, Completed(counted, Command(r), wd.read))
  BY <1>4, CompletedKeeps DEF HostKeeps
<1>6. y \in {Close(x, "Clock", r.sequence), Close(timed, "Discontinuity", r.sequence),
             Completed(counted, Command(r), wd.read), counted}
  BY Zenon DEF HostHandleData
<1> HIDE DEF timed, counted, y
<1>7. HostKeeps(x, Close(timed, "Discontinuity", r.sequence))
  BY <1>1, <1>3, KeepsTrans
<1>8. HostKeeps(x, counted)
  BY <1>1, <1>4, KeepsTrans
<1>9. HostKeeps(x, Completed(counted, Command(r), wd.read))
  BY <1>8, <1>5, KeepsTrans
<1>10. HostKeeps(x, y)
  BY <1>2, <1>6, <1>7, <1>8, <1>9
<1> QED
  BY <1>10 DEF y

-----------------------------------------------------------------------------
(* The invariant of the next state, in terms of the primed variables.      *)

LEMMA IpcKept ==
  ASSUME setup' = setup,
         IpcState(now', stream', hc', wc', hd', wd', h', w', hpc', wpc', overtaken', started')
  PROVE  IpcInv'
<1>1. ClockOK(now, stream)' /\ PcOK(hpc, wpc, w)'
  BY DEF IpcState, ClockOK, PcOK, Higher
<1>2. /\ LaneOK(hc, "hc", setup.hc)' /\ LaneOK(wc, "wc", setup.wc)'
      /\ LaneOK(hd, "hd", setup.hd)' /\ LaneOK(wd, "wd", setup.wd)'
  BY DEF IpcState, LaneOK, WellFormed, Shape
<1>3. SequencesOK(wc)' /\ SequencesOK(wd)'
  BY DEF IpcState, SequencesOK
<1>4. HostOK(h)'
  BY DEF IpcState, HostOK, HostSound, PlansOK, OnePerPlan
<1>5. WorkerOK(w)'
  BY DEF IpcState, WorkerOK, AdoptedOK, ActiveOK, OnePerPlan, PlanHeld
<1>6. GapOK(w, wc)' /\ StopOK(h, w, hc)' /\ InOrder(hc.q)'
  BY DEF IpcState, GapOK, StopOK, InOrder, HasRoom
<1>7. TokensOK(h, w, hd.q, started)'
  BY DEF IpcState, TokensOK
<1>8. ASSUME NEW n \in Positive
      PROVE  LifeOf(h, w, hc.q, wc.q, overtaken, n)' /\ Unused(h, w, hc.q, wc.q, n)'
  BY <1>8, Zenon DEF IpcState, LifeOf, Unused
<1> QED
  BY <1>1, <1>2, <1>3, <1>4, <1>5, <1>6, <1>7, <1>8 DEF IpcInv, IpcState

-----------------------------------------------------------------------------
(* Lanes.                                                                  *)

LEMMA PutLane ==
  ASSUME NEW lane, NEW name, NEW capacity \in Nat, LaneOK(lane, name, capacity), NEW r \in Message,
         WellFormed(r, name), Len(lane.q) < capacity
  PROVE  /\ LaneOK(Put(lane, r), name, capacity)
         /\ Put(lane, r).q = Append(lane.q, r) /\ Put(lane, r).read = lane.read
         /\ Len(Put(lane, r).q) = Len(lane.q) + 1
         /\ DOMAIN Put(lane, r).q = 1 .. Len(lane.q) + 1
         /\ \A i \in DOMAIN lane.q : Put(lane, r).q[i] = lane.q[i]
         /\ Put(lane, r).q[Len(lane.q) + 1] = r
<1>1. lane \in MessageLane /\ lane.q \in Seq(Message) /\ lane.read \in Nat /\ Len(lane.q) \in Nat
  BY DEF LaneOK, MessageLane
<1>2. /\ Put(lane, r).q = Append(lane.q, r) /\ Put(lane, r).read = lane.read
      /\ Put(lane, r) \in MessageLane
  BY <1>1 DEF Put, MessageLane
<1>3. /\ Len(Put(lane, r).q) = Len(lane.q) + 1
      /\ DOMAIN Put(lane, r).q = 1 .. Len(lane.q) + 1
      /\ \A i \in DOMAIN lane.q : Put(lane, r).q[i] = lane.q[i]
      /\ Put(lane, r).q[Len(lane.q) + 1] = r
  BY <1>1, <1>2
<1>4. \A i \in DOMAIN Put(lane, r).q : WellFormed(Put(lane, r).q[i], name)
  BY <1>1, <1>3 DEF LaneOK
<1>5. LaneOK(Put(lane, r), name, capacity)
  BY <1>2, <1>3, <1>4 DEF LaneOK
<1> QED
  BY <1>2, <1>3, <1>5

LEMMA TakeLane ==
  ASSUME NEW lane, NEW name, NEW capacity \in Nat, LaneOK(lane, name, capacity), lane.q # <<>>
  PROVE  /\ LaneOK(Take(lane), name, capacity)
         /\ Take(lane).read = lane.read + 1 /\ Len(lane.q) > 0
         /\ Len(Take(lane).q) = Len(lane.q) - 1
         /\ DOMAIN Take(lane).q = 1 .. Len(lane.q) - 1
         /\ \A i \in DOMAIN Take(lane).q : Take(lane).q[i] = lane.q[i + 1] /\ i + 1 \in DOMAIN lane.q
         /\ Head(lane.q) = lane.q[1] /\ Head(lane.q) \in Message /\ WellFormed(Head(lane.q), name)
<1>1. lane \in MessageLane /\ lane.q \in Seq(Message) /\ lane.read \in Nat /\ Len(lane.q) \in Nat
  BY DEF LaneOK, MessageLane
<1>2. Take(lane) \in MessageLane /\ Take(lane).q = Tail(lane.q) /\ Take(lane).read = lane.read + 1
  BY <1>1 DEF Take, MessageLane
<1>3. /\ Len(lane.q) > 0
      /\ Len(Take(lane).q) = Len(lane.q) - 1
      /\ DOMAIN Take(lane).q = 1 .. Len(lane.q) - 1
      /\ \A i \in DOMAIN Take(lane).q : Take(lane).q[i] = lane.q[i + 1] /\ i + 1 \in DOMAIN lane.q
  BY <1>1, <1>2
<1>4. Head(lane.q) = lane.q[1] /\ 1 \in DOMAIN lane.q /\ Head(lane.q) \in Message
  BY <1>1, <1>3
<1>5. WellFormed(Head(lane.q), name) /\ \A i \in DOMAIN Take(lane).q : WellFormed(Take(lane).q[i], name)
  BY <1>3, <1>4 DEF LaneOK
<1>6. LaneOK(Take(lane), name, capacity)
  BY <1>1, <1>2, <1>3, <1>5 DEF LaneOK
<1> QED
  BY <1>2, <1>3, <1>4, <1>5, <1>6

\* What a queue mentions after a record was put on it or taken off.
Adds(q, r, longer) ==
  \A kind, n : Mentions(longer, kind, n) <=> Mentions(q, kind, n) \/ (r.kind = kind /\ r.plan = n)

LEMMA PutMentions ==
  ASSUME NEW lane, NEW name, NEW capacity \in Nat, LaneOK(lane, name, capacity), NEW r \in Message,
         WellFormed(r, name), Len(lane.q) < capacity
  PROVE  Adds(lane.q, r, Put(lane, r).q)
<1> SUFFICES ASSUME NEW kind, NEW n
             PROVE  Mentions(Put(lane, r).q, kind, n) <=> Mentions(lane.q, kind, n) \/ (r.kind = kind /\ r.plan = n)
  BY DEF Adds
<1>1. lane.q \in Seq(Message) /\ Len(lane.q) \in Nat /\ DOMAIN lane.q = 1 .. Len(lane.q)
  BY DEF LaneOK, MessageLane
<1>2. /\ DOMAIN Put(lane, r).q = 1 .. Len(lane.q) + 1
      /\ \A i \in DOMAIN lane.q : Put(lane, r).q[i] = lane.q[i]
      /\ Put(lane, r).q[Len(lane.q) + 1] = r
  BY PutLane
<1>3. /\ \A i \in DOMAIN Put(lane, r).q : i \in DOMAIN lane.q \/ i = Len(lane.q) + 1
      /\ DOMAIN lane.q \subseteq DOMAIN Put(lane, r).q /\ Len(lane.q) + 1 \in DOMAIN Put(lane, r).q
  BY <1>1, <1>2
<1> QED
  BY <1>2, <1>3, Zenon DEF Mentions

LEMMA TakeMentions ==
  ASSUME NEW lane, NEW name, NEW capacity \in Nat, LaneOK(lane, name, capacity), lane.q # <<>>
  PROVE  \A kind, n : Mentions(lane.q, kind, n) <=>
           Mentions(Take(lane).q, kind, n) \/ (Head(lane.q).kind = kind /\ Head(lane.q).plan = n)
<1> TAKE kind, n
<1>1. lane.q \in Seq(Message) /\ Len(lane.q) \in Nat /\ DOMAIN lane.q = 1 .. Len(lane.q)
  BY DEF LaneOK, MessageLane
<1>2. /\ Len(lane.q) > 0 /\ DOMAIN Take(lane).q = 1 .. Len(lane.q) - 1
      /\ \A i \in DOMAIN Take(lane).q : Take(lane).q[i] = lane.q[i + 1]
      /\ Head(lane.q) = lane.q[1]
  BY TakeLane
<1>3. ASSUME Mentions(lane.q, kind, n)
      PROVE  Mentions(Take(lane).q, kind, n) \/ (Head(lane.q).kind = kind /\ Head(lane.q).plan = n)
  <2>1. PICK i \in DOMAIN lane.q : lane.q[i].kind = kind /\ lane.q[i].plan = n
    BY <1>3 DEF Mentions
  <2>2. CASE i # 1
    <3>1. i - 1 \in DOMAIN Take(lane).q /\ Take(lane).q[i - 1] = lane.q[i]
      BY <1>1, <1>2, <2>2
    <3> QED
      BY <2>1, <3>1 DEF Mentions
  <2> QED
    BY <1>2, <2>1, <2>2
<1>4. ASSUME Mentions(Take(lane).q, kind, n)
      PROVE  Mentions(lane.q, kind, n)
  <2>1. PICK i \in DOMAIN Take(lane).q : Take(lane).q[i].kind = kind /\ Take(lane).q[i].plan = n
    BY <1>4 DEF Mentions
  <2>2. i + 1 \in DOMAIN lane.q /\ lane.q[i + 1] = Take(lane).q[i]
    BY <1>1, <1>2
  <2> QED
    BY <2>1, <2>2 DEF Mentions
<1>5. 1 \in DOMAIN lane.q
  BY <1>1, <1>2
<1> QED
  BY <1>2, <1>3, <1>4, <1>5 DEF Mentions

LEMMA TakeAdds ==
  ASSUME NEW lane, NEW name, NEW capacity \in Nat, LaneOK(lane, name, capacity), lane.q # <<>>
  PROVE  Adds(Take(lane).q, Head(lane.q), lane.q)
  BY TakeMentions, Zenon DEF Adds

\* The rest of a queue in order is in order, and mentions a revoked or published head
\* only as the revocation of a publication.
LEMMA TakeInOrder ==
  ASSUME NEW lane, NEW name, NEW capacity \in Nat, LaneOK(lane, name, capacity), lane.q # <<>>, InOrder(lane.q)
  PROVE  /\ InOrder(Take(lane).q)
         /\ Head(lane.q).plan # 0 =>
              /\ ~Mentions(Take(lane).q, "publish", Head(lane.q).plan)
              /\ Head(lane.q).kind # "publish" => ~Mentions(Take(lane).q, "revoke", Head(lane.q).plan)
<1>1. lane.q \in Seq(Message) /\ Len(lane.q) \in Nat /\ DOMAIN lane.q = 1 .. Len(lane.q)
  BY DEF LaneOK, MessageLane
<1>2. /\ Len(lane.q) > 0 /\ DOMAIN Take(lane).q = 1 .. Len(lane.q) - 1
      /\ \A i \in DOMAIN Take(lane).q : Take(lane).q[i] = lane.q[i + 1]
      /\ Head(lane.q) = lane.q[1]
  BY TakeLane
<1>3. InOrder(Take(lane).q)
  <2> SUFFICES ASSUME NEW i \in DOMAIN Take(lane).q, NEW j \in DOMAIN Take(lane).q, i < j,
                      Take(lane).q[i].plan = Take(lane).q[j].plan, Take(lane).q[i].plan # 0
               PROVE  Take(lane).q[i].kind = "publish" /\ Take(lane).q[j].kind = "revoke"
    BY DEF InOrder
  <2>1. /\ i + 1 \in DOMAIN lane.q /\ j + 1 \in DOMAIN lane.q /\ i + 1 < j + 1
        /\ Take(lane).q[i] = lane.q[i + 1] /\ Take(lane).q[j] = lane.q[j + 1]
    BY <1>1, <1>2
  <2> QED
    BY <2>1 DEF InOrder
<1>4. ASSUME NEW i \in DOMAIN Take(lane).q, Take(lane).q[i].plan = Head(lane.q).plan, Head(lane.q).plan # 0
      PROVE  Head(lane.q).kind = "publish" /\ Take(lane).q[i].kind = "revoke"
  <2>1. i + 1 \in DOMAIN lane.q /\ 1 \in DOMAIN lane.q /\ 1 < i + 1
    BY <1>1, <1>2
  <2> QED
    BY <1>2, <1>4, <2>1 DEF InOrder
<1> QED
  BY <1>3, <1>4 DEF Mentions

LEMMA PutInOrder ==
  ASSUME NEW lane, NEW name, NEW capacity \in Nat, LaneOK(lane, name, capacity), NEW r \in Message,
         WellFormed(r, name), Len(lane.q) < capacity, InOrder(lane.q),
         r.plan = 0 \/ \A i \in DOMAIN lane.q : lane.q[i].plan = r.plan => lane.q[i].kind = "publish" /\ r.kind = "revoke"
  PROVE  InOrder(Put(lane, r).q)
<1>1. lane.q \in Seq(Message) /\ Len(lane.q) \in Nat /\ DOMAIN lane.q = 1 .. Len(lane.q)
  BY DEF LaneOK, MessageLane
<1>2. /\ DOMAIN Put(lane, r).q = 1 .. Len(lane.q) + 1
      /\ \A i \in DOMAIN lane.q : Put(lane, r).q[i] = lane.q[i]
      /\ Put(lane, r).q[Len(lane.q) + 1] = r
  BY PutLane
<1> SUFFICES ASSUME NEW i \in DOMAIN Put(lane, r).q, NEW j \in DOMAIN Put(lane, r).q, i < j,
                    Put(lane, r).q[i].plan = Put(lane, r).q[j].plan, Put(lane, r).q[i].plan # 0
             PROVE  Put(lane, r).q[i].kind = "publish" /\ Put(lane, r).q[j].kind = "revoke"
  BY DEF InOrder
<1>3. i \in DOMAIN lane.q /\ Put(lane, r).q[i] = lane.q[i]
  BY <1>1, <1>2
<1>4. CASE j \in DOMAIN lane.q
  <2>1. Put(lane, r).q[j] = lane.q[j]
    BY <1>2, <1>4
  <2> QED
    BY <1>3, <1>4, <2>1 DEF InOrder
<1>5. CASE j \notin DOMAIN lane.q
  <2>1. Put(lane, r).q[j] = r
    BY <1>1, <1>2, <1>5
  <2> QED
    BY <1>3, <2>1
<1> QED
  BY <1>4, <1>5

-----------------------------------------------------------------------------
(* The host's steps.                                                       *)

LEMMA SameTablesLife ==
  ASSUME NEW x, NEW z, z.plans = x.plans, z.planFloor = x.planFloor, z.detached = x.detached,
         NEW y, NEW hq, NEW wq, NEW lost, NEW n,
         LifeOf(x, y, hq, wq, lost, n), Unused(x, y, hq, wq, n)
  PROVE  LifeOf(z, y, hq, wq, lost, n) /\ Unused(z, y, hq, wq, n)
<1>1. (Lists(z, n) <=> Lists(x, n)) /\ (Revokes(z, n) <=> Revokes(x, n))
  BY DEF Lists, Revokes
<1>2. LifeOf(z, y, hq, wq, lost, n)
  BY <1>1, Zenon DEF LifeOf, Life
<1> QED
  BY <1>2 DEF Unused

LEMMA HostReplaced ==
  ASSUME NEW tick, NEW number, NEW a, NEW b, NEW c, NEW d, NEW x, NEW y, NEW hp, NEW wp, NEW lost, NEW done,
         IpcState(tick, number, a, b, c, d, x, y, hp, wp, lost, done), NEW z, HostKeeps(x, z)
  PROVE  IpcState(tick, number, a, b, c, d, z, y, hp, wp, lost, done)
<1>1. HostOK(z)
  BY DEF IpcState, HostOK, HostKeeps, SameTables
<1>2. StopOK(z, y, a)
  BY DEF IpcState, StopOK, HostKeeps, SameTables
<1>3. ASSUME NEW n \in Positive PROVE LifeOf(z, y, a.q, b.q, lost, n) /\ Unused(z, y, a.q, b.q, n)
  <2>1. LifeOf(x, y, a.q, b.q, lost, n) /\ Unused(x, y, a.q, b.q, n)
    BY <1>3 DEF IpcState
  <2> QED
    BY <2>1, SameTablesLife DEF HostKeeps, SameTables
<1>4. TokensOK(z, y, c.q, done)
  BY DEF IpcState, TokensOK, HostKeeps, SameTables
<1> QED
  BY <1>1, <1>2, <1>3, <1>4, Zenon DEF IpcState

LEMMA HpcReplaced ==
  ASSUME NEW tick, NEW number, NEW a, NEW b, NEW c, NEW d, NEW x, NEW y, NEW hp, NEW wp, NEW lost, NEW done,
         IpcState(tick, number, a, b, c, d, x, y, hp, wp, lost, done), NEW z,
         DOMAIN z = {"at", "head", "reading"}, z.at \in {"idle", "head", "control", "data"}
  PROVE  IpcState(tick, number, a, b, c, d, x, y, z, wp, lost, done)
  BY Zenon DEF IpcState, PcOK

LEMMA HostRefusesInv ==
  ASSUME IpcInv, HostRefuses
  PROVE  IpcInv'
<1>1. PICK x \in SoundTicks \cup FaultyTicks : h' = x
  BY DEF HostRefuses, HostBecomes
<1>2. HostSound(h)
  BY DEF IpcInv, IpcState, HostOK
<1>3. HostKeeps(h, h')
  BY <1>1, <1>2, TickKeeps
<1>4. IpcState(now, stream, hc, wc, hd, wd, h', w, hpc, wpc, overtaken, started)
  BY <1>3, HostReplaced DEF IpcInv
<1> QED
  BY <1>4, IpcKept DEF HostRefuses, lanes

LEMMA PollBeginsInv ==
  ASSUME IpcInv, PollBegins
  PROVE  IpcInv'
<1>1. PICK x \in SoundTicks \cup FaultyTicks : h' = x
  BY DEF PollBegins, HostBecomes
<1>2. HostSound(h)
  BY DEF IpcInv, IpcState, HostOK
<1>3. HostKeeps(h, h')
  BY <1>1, <1>2, TickKeeps
<1>4. IpcState(now, stream, hc, wc, hd, wd, h', w, hpc, wpc, overtaken, started)
  BY <1>3, HostReplaced DEF IpcInv
<1>5. DOMAIN hpc' = {"at", "head", "reading"} /\ hpc'.at \in {"idle", "head", "control", "data"}
  BY DEF PollBegins
<1>6. IpcState(now, stream, hc, wc, hd, wd, h', w, hpc', wpc, overtaken, started)
  BY <1>4, <1>5, HpcReplaced
<1> QED
  BY <1>6, IpcKept DEF PollBegins, lanes

LEMMA PollHeadInv ==
  ASSUME IpcInv, PollHead
  PROVE  IpcInv'
<1>1. PcOK(hpc, wpc, w)
  BY DEF IpcInv, IpcState
<1>2. DOMAIN hpc' = {"at", "head", "reading"} /\ hpc'.at \in {"idle", "head", "control", "data"}
  BY <1>1 DEF PcOK, PollHead
<1>3. IpcState(now, stream, hc, wc, hd, wd, h, w, hpc', wpc, overtaken, started)
  BY <1>2, HpcReplaced DEF IpcInv
<1> QED
  BY <1>3, IpcKept DEF PollHead, lanes

\* The tick an operation begins with.
LEMMA Ticked0 ==
  ASSUME IpcInv, NEW x \in SoundTicks \cup FaultyTicks
  PROVE  /\ IpcState(now, stream, hc, wc, hd, wd, x, w, hpc, wpc, overtaken, started)
         /\ HostKeeps(h, x)
<1>2. HostSound(h)
  BY DEF IpcInv, IpcState, HostOK
<1>3. HostKeeps(h, x)
  BY <1>2, TickKeeps
<1> QED
  BY <1>3, HostReplaced DEF IpcInv

LEMMA ObserveWorkerTerminatedInv ==
  ASSUME IpcInv, ObserveWorkerTerminated
  PROVE  IpcInv'
<1> DEFINE x == [h EXCEPT !.terminated = TRUE]
<1>1. HostOK(h) /\ StopOK(h, w, hc) /\ ~w.alive
  BY DEF IpcInv, IpcState, ObserveWorkerTerminated
<1>2. /\ HostSound(x) /\ x.terminated = TRUE /\ x.plans = h.plans /\ x.planFloor = h.planFloor
      /\ x.tokenFloor = h.tokenFloor /\ x.stopSent = h.stopSent /\ x.stopIndex = h.stopIndex
      /\ x.detached = h.detached
  BY <1>1 DEF HostOK, HostSound, HostFields
<1> HIDE DEF x
<1>3. HostOK(x)
  BY <1>1, <1>2 DEF HostOK
<1>4. StopOK(x, w, hc)
  BY <1>1, <1>2 DEF StopOK
<1>5. ASSUME NEW n \in Positive PROVE LifeOf(x, w, hc.q, wc.q, overtaken, n) /\ Unused(x, w, hc.q, wc.q, n)
  <2>1. LifeOf(h, w, hc.q, wc.q, overtaken, n) /\ Unused(h, w, hc.q, wc.q, n)
    BY <1>5 DEF IpcInv, IpcState
  <2> QED
    BY <1>2, <2>1, SameTablesLife
<1>6. TokensOK(x, w, hd.q, started)
  BY <1>2 DEF IpcInv, IpcState, TokensOK
<1>7. IpcState(now, stream, hc, wc, hd, wd, x, w, hpc, wpc, overtaken, started)
  BY <1>3, <1>4, <1>5, <1>6, Zenon DEF IpcInv, IpcState
<1>8. HostKeeps(x, h')
  BY <1>2, CloseKeeps DEF ObserveWorkerTerminated, HostBecomes, Reasons, x
<1>9. IpcState(now, stream, hc, wc, hd, wd, h', w, hpc, wpc, overtaken, started)
  BY <1>7, <1>8, HostReplaced
<1> QED
  BY <1>9, IpcKept DEF ObserveWorkerTerminated, lanes

LEMMA HostTeardownInv ==
  ASSUME IpcInv, HostTeardown
  PROVE  IpcInv'
<1>1. HostOK(h) /\ StopOK(h, w, hc) /\ (w.alive => ControlSettled)
  BY DEF IpcInv, IpcState, HostTeardown, StopOK
<1>2. /\ HostSound(h') /\ h'.terminated = h.terminated /\ h'.plans = {} /\ h'.planFloor = h.planFloor
      /\ h'.tokenFloor = h.tokenFloor /\ h'.stopSent = h.stopSent /\ h'.stopIndex = h.stopIndex
      /\ h'.detached = TRUE
  BY <1>1 DEF HostTeardown, HostOK, HostSound, HostFields
<1>3. HostOK(h')
  <2>1. IsFiniteSet({}) /\ Cardinality({}) = 0 /\ setup.maxPlans \in Nat
    BY FS_EmptySet, SetupFacts DEF IpcInv, IpcState, ClockOK, Positive
  <2>2. PlansOK({}, h.planFloor)
    BY <2>1 DEF PlansOK, OnePerPlan
  <2> QED
    BY <1>1, <1>2, <2>2 DEF HostOK
<1>4. StopOK(h', w, hc)
  <2>1. hc.read \in Nat
    BY DEF IpcInv, IpcState, LaneOK, MessageLane
  <2> QED
    BY <1>1, <1>2, <2>1 DEF StopOK, ControlSettled, HostOK
<1>5. ASSUME NEW n \in Positive
      PROVE  LifeOf(h', w, hc.q, wc.q, overtaken, n) /\ Unused(h', w, hc.q, wc.q, n)
  <2>1. LifeOf(h, w, hc.q, wc.q, overtaken, n) /\ Unused(h, w, hc.q, wc.q, n)
    BY <1>5 DEF IpcInv, IpcState
  <2>2. ~Lists(h', n) /\ ~Revokes(h', n)
    BY <1>2 DEF Lists, Revokes
  <2>3. LifeOf(h', w, hc.q, wc.q, overtaken, n)
    BY <1>2, <2>1, <2>2, Zenon DEF LifeOf, Life
  <2> QED
    BY <1>2, <2>1, <2>3 DEF Unused
<1>6. TokensOK(h', w, hd.q, started)
  BY <1>2 DEF IpcInv, IpcState, TokensOK
<1>7. IpcState(now, stream, hc, wc, hd, wd, h', w, hpc, wpc, overtaken, started)
  BY <1>3, <1>4, <1>5, <1>6, Zenon DEF IpcInv, IpcState
<1> QED
  BY <1>7, IpcKept DEF HostTeardown, lanes

\* A record on host control leaves the stop where it is.
LEMMA PutStop ==
  ASSUME NEW lane, setup.hc \in Nat, LaneOK(lane, "hc", setup.hc), NEW r \in Message, WellFormed(r, "hc"),
         HasRoom(lane, setup.hc, 1), NEW x, NEW y, StopOK(x, y, lane), x.stopIndex \in Nat, ~x.detached
  PROVE  StopOK(x, y, Put(lane, r))
<1>1. lane.q \in Seq(Message) /\ Len(lane.q) \in Nat /\ DOMAIN lane.q = 1 .. Len(lane.q) /\ lane.read \in Nat
  BY DEF LaneOK, MessageLane
<1>2. /\ Put(lane, r).read = lane.read /\ Len(Put(lane, r).q) = Len(lane.q) + 1
      /\ \A i \in DOMAIN lane.q : Put(lane, r).q[i] = lane.q[i]
  BY <1>1, PutLane DEF HasRoom
<1>3. ~x.stopSent => HasRoom(Put(lane, r), setup.hc, 0)
  BY <1>1, <1>2 DEF HasRoom
<1>4. ASSUME x.stopSent, lane.read <= x.stopIndex
      PROVE  /\ x.stopIndex - lane.read + 1 <= Len(Put(lane, r).q)
             /\ Put(lane, r).q[x.stopIndex - lane.read + 1].kind = "stop"
  <2>1. x.stopIndex - lane.read + 1 \in DOMAIN lane.q
    BY <1>1, <1>4 DEF StopOK
  <2> QED
    BY <1>1, <1>2, <1>4, <2>1 DEF StopOK
<1> QED
  BY <1>2, <1>3, <1>4 DEF StopOK

\* Plans on host control are published or revoked.
LEMMA HostControlPlans ==
  ASSUME NEW lane, NEW capacity, LaneOK(lane, "hc", capacity), NEW i \in DOMAIN lane.q, lane.q[i].plan # 0
  PROVE  lane.q[i].kind \in {"publish", "revoke"}
  BY DEF LaneOK, WellFormed, Shape, KindOnLane

LEMMA OneMorePlan ==
  ASSUME NEW plans, OnePerPlan(plans), NEW p, \A q \in plans : q.plan # p.plan
  PROVE  OnePerPlan(plans \cup {p})
  BY DEF OnePerPlan

LEMMA PublishState ==
  ASSUME NEW x, IpcState(now, stream, hc, wc, hd, wd, x, w, hpc, wpc, overtaken, started), ~x.detached,
         HasRoom(hc, setup.hc, 1), Cardinality(x.plans) < setup.maxPlans,
         NEW plan, plan = x.planFloor + 1,
         NEW r \in Message, WellFormed(r, "hc"), r.kind = "publish", r.plan = plan,
         NEW p \in HostPlan, p.plan = plan, p.revoking = FALSE,
         NEW z, HostSound(z), z.plans = x.plans \cup {p}, z.planFloor = plan, z.tokenFloor = x.tokenFloor,
         z.stopSent = x.stopSent, z.stopIndex = x.stopIndex, z.terminated = x.terminated, z.detached = x.detached
  PROVE  IpcState(now, stream, Put(hc, r), wc, hd, wd, z, w, hpc, wpc, overtaken, started)
<1>1. HostOK(x) /\ LaneOK(hc, "hc", setup.hc) /\ StopOK(x, w, hc) /\ InOrder(hc.q) /\ setup.hc \in Nat
      /\ setup.maxPlans \in Nat
  BY SetupFacts DEF IpcState, ClockOK, Positive
<1>2. x.planFloor \in Nat /\ plan \in Positive /\ Len(hc.q) \in Nat
  BY <1>1 DEF HostOK, Positive, LaneOK, MessageLane
<1>3. Len(hc.q) < setup.hc
  BY <1>1, <1>2 DEF HasRoom
<1>4. Adds(hc.q, r, Put(hc, r).q)
  BY <1>1, <1>3, PutMentions
<1>6. PlansOK(z.plans, plan)
  <2>1. PlansOK(x.plans, x.planFloor)
    BY <1>1 DEF HostOK
  <2>2. \A q \in x.plans : q.plan \in Nat /\ q.plan <= x.planFloor
    BY <2>1 DEF PlansOK, HostPlan, Positive
  <2>3. p \notin x.plans
    BY <1>2, <2>2
  <2>4. IsFiniteSet(z.plans) /\ Cardinality(z.plans) <= setup.maxPlans
    <3>0. IsFiniteSet(x.plans)
      BY <2>1 DEF PlansOK
    <3>1. IsFiniteSet(x.plans \cup {p}) /\ Cardinality(x.plans \cup {p}) = Cardinality(x.plans) + 1
      BY <2>3, <3>0, FS_AddElement
    <3>2. Cardinality(x.plans) \in Nat
      BY <2>1, FS_CardinalityType DEF PlansOK
    <3> QED
      BY <1>1, <3>1, <3>2
  <2>5. OnePerPlan(z.plans)
    <3>1. OnePerPlan(x.plans) /\ \A q \in x.plans : q.plan # p.plan
      BY <1>2, <2>1, <2>2 DEF PlansOK
    <3> QED
      BY <3>1, OneMorePlan
  <2>6. \A q \in z.plans : q.plan <= plan
    BY <1>2, <2>2
  <2> QED
    BY <1>2, <2>1, <2>4, <2>5, <2>6 DEF PlansOK
<1>7. HostOK(z)
  <2>1. plan \in Nat /\ ~z.detached
    BY <1>2, <1>4 DEF Positive
  <2> QED
    BY <1>1, <1>6, <2>1 DEF HostOK
<1>8. LaneOK(Put(hc, r), "hc", setup.hc)
  BY <1>1, <1>3, PutLane
<1>9. StopOK(z, w, Put(hc, r))
  <2>1. StopOK(x, w, Put(hc, r))
    BY <1>1, <1>3, PutStop DEF HostOK
  <2> QED
    BY <2>1 DEF StopOK
<1>10. ~Mentions(hc.q, "publish", plan) /\ ~Mentions(hc.q, "revoke", plan) /\ ~Lists(x, plan)
       /\ ~Mentions(wc.q, "acknowledge", plan) /\ ~Holds(w, plan)
  <2>1. Unused(x, w, hc.q, wc.q, plan)
    BY <1>2 DEF IpcState
  <2>2. ~Lists(x, plan)
    BY <1>1, <1>2 DEF Lists, HostOK, PlansOK, HostPlan, Positive
  <2> QED
    BY <1>2, <2>1, <2>2 DEF Unused
<1>11. InOrder(Put(hc, r).q)
  <2>1. ASSUME NEW i \in DOMAIN hc.q, hc.q[i].plan = plan PROVE FALSE
    <3>1. hc.q[i].kind \in {"publish", "revoke"}
      BY <1>1, <1>2, <2>1, HostControlPlans DEF Positive
    <3> QED
      BY <1>10, <2>1, <3>1 DEF Mentions
  <2> QED
    BY <1>1, <1>3, <2>1, PutInOrder
<1>12. ASSUME NEW n \in Positive
       PROVE  LifeOf(z, w, Put(hc, r).q, wc.q, overtaken, n) /\ Unused(z, w, Put(hc, r).q, wc.q, n)
  <2>1. LifeOf(x, w, hc.q, wc.q, overtaken, n) /\ Unused(x, w, hc.q, wc.q, n)
    BY <1>12 DEF IpcState
  <2>2. /\ Mentions(Put(hc, r).q, "publish", n) <=> Mentions(hc.q, "publish", n) \/ n = plan
        /\ Mentions(Put(hc, r).q, "revoke", n) <=> Mentions(hc.q, "revoke", n)
    BY <1>4 DEF Adds
  <2>3. /\ Lists(z, n) <=> Lists(x, n) \/ n = plan
        /\ Revokes(z, n) <=> Revokes(x, n)
    <3>1. \A q : q \in z.plans <=> q \in x.plans \/ q = p
      BY <1>4
    <3> QED
      BY <3>1, Zenon DEF Lists, Revokes
  <2>4. ~Revoked(w, plan) /\ ~Revokes(x, plan)
    BY <1>10 DEF Revoked, Holds, Lists, Revokes
  <2>5. CASE n = plan
    <3>1. LifeOf(z, w, Put(hc, r).q, wc.q, overtaken, n)
      BY <1>10, <2>2, <2>3, <2>4, <2>5, Zenon DEF LifeOf, Life
    <3>2. ~(n > plan)
      BY <1>2, <2>5 DEF Positive
    <3> QED
      BY <3>1, <3>2 DEF Unused
  <2>6. CASE n # plan
    <3>1. LifeOf(z, w, Put(hc, r).q, wc.q, overtaken, n)
      BY <2>1, <2>2, <2>3, <2>6, Zenon DEF LifeOf, Life
    <3>2. n > plan => n > x.planFloor
      BY <1>2 DEF Positive
    <3> QED
      BY <2>1, <2>2, <2>6, <3>1, <3>2 DEF Unused
  <2> QED
    BY <2>5, <2>6
<1>13. TokensOK(z, w, hd.q, started)
  BY <1>4 DEF IpcState, TokensOK
<1> QED
  BY <1>7, <1>8, <1>9, <1>11, <1>12, <1>13, Zenon DEF IpcState

LEMMA PublishPlanInv ==
  ASSUME IpcInv, NEW expiry \in setup.expiries, PublishPlan(expiry)
  PROVE  IpcInv'
<1>1. PICK x \in SoundTicks : LET plan == x.planFloor + 1
       IN  /\ HostOpen(x) /\ now < expiry /\ Cardinality(x.plans) < setup.maxPlans
           /\ WriteControl(x, Record("publish", plan, 0, expiry, 0, 0),
                [x EXCEPT !.planFloor = plan,
                          !.plans = @ \cup {[plan |-> plan, until |-> expiry, revoking |-> FALSE]}])
  BY DEF PublishPlan
<1>2. IpcState(now, stream, hc, wc, hd, wd, x, w, hpc, wpc, overtaken, started) /\ HostOK(x) /\ expiry \in Positive
  BY Ticked0, SetupFacts DEF IpcInv, IpcState, ClockOK
<1> DEFINE plan == x.planFloor + 1
           p == [plan |-> plan, until |-> expiry, revoking |-> FALSE]
           r == Record("publish", plan, 0, expiry, 0, 0)
           z == [x EXCEPT !.planFloor = plan, !.plans = @ \cup {p}]
<1>3. ~x.detached /\ Cardinality(x.plans) < setup.maxPlans /\ WriteControl(x, r, z)
  BY <1>1 DEF HostOpen
<1>4. plan \in Positive /\ p \in HostPlan /\ p.plan = plan /\ p.revoking = FALSE
  BY <1>2 DEF HostOK, HostPlan, Positive
<1>5. r \in Message /\ WellFormed(r, "hc") /\ r.kind = "publish" /\ r.plan = plan
  BY <1>2, <1>4 DEF Message, Record, WellFormed, Shape, KindOnLane, Kinds, Positive
<1>6. /\ HostSound(z) /\ z.plans = x.plans \cup {p} /\ z.planFloor = plan /\ z.tokenFloor = x.tokenFloor
      /\ z.stopSent = x.stopSent /\ z.stopIndex = x.stopIndex /\ z.terminated = x.terminated
      /\ z.detached = x.detached
  BY <1>2 DEF HostOK, HostSound, HostFields
<1>p. plan = x.planFloor + 1
  OBVIOUS
<1> HIDE DEF plan, p, r, z
<1>7. CASE HasRoom(hc, setup.hc, 1)
  <2>1. IpcState(now, stream, Put(hc, r), wc, hd, wd, z, w, hpc, wpc, overtaken, started)
    BY <1>2, <1>3, <1>4, <1>5, <1>6, <1>7, <1>p, PublishState
  <2>2. hc' = Put(hc, r) /\ h' = z
    BY <1>3, <1>7 DEF WriteControl, ReservedSlots, HostBecomes
  <2> QED
    BY <2>1, <2>2, IpcKept DEF PublishPlan
<1>8. CASE ~HasRoom(hc, setup.hc, 1)
  <2>1. h' = Close(x, "ControlSaturated", 0) /\ hc' = hc
    BY <1>3, <1>8 DEF WriteControl, ReservedSlots, HostBecomes
  <2>2. HostKeeps(x, h')
    BY <1>2, <2>1, CloseKeeps DEF Reasons, HostOK
  <2>3. IpcState(now, stream, hc, wc, hd, wd, h', w, hpc, wpc, overtaken, started)
    BY <1>2, <2>2, HostReplaced
  <2> QED
    BY <2>1, <2>3, IpcKept DEF PublishPlan
<1> QED
  BY <1>7, <1>8

LEMMA RevokeState ==
  ASSUME NEW x, IpcState(now, stream, hc, wc, hd, wd, x, w, hpc, wpc, overtaken, started), ~x.detached,
         HasRoom(hc, setup.hc, 1), NEW p \in x.plans, p.revoking = FALSE,
         NEW r \in Message, WellFormed(r, "hc"), r.kind = "revoke", r.plan = p.plan,
         NEW s \in HostPlan, s.plan = p.plan, s.revoking = TRUE,
         NEW z, HostSound(z), z.plans = (x.plans \ {p}) \cup {s}, z.planFloor = x.planFloor,
         z.tokenFloor = x.tokenFloor, z.stopSent = x.stopSent, z.stopIndex = x.stopIndex,
         z.terminated = x.terminated, z.detached = x.detached
  PROVE  IpcState(now, stream, Put(hc, r), wc, hd, wd, z, w, hpc, wpc, overtaken, started)
<1>1. HostOK(x) /\ LaneOK(hc, "hc", setup.hc) /\ StopOK(x, w, hc) /\ InOrder(hc.q) /\ setup.hc \in Nat
      /\ setup.maxPlans \in Nat
  BY SetupFacts DEF IpcState, ClockOK, Positive
<1>2. x.planFloor \in Nat /\ p \in HostPlan /\ p.plan \in Positive /\ p.plan <= x.planFloor /\ Len(hc.q) \in Nat
  BY <1>1 DEF HostOK, PlansOK, HostPlan, LaneOK, MessageLane
<1>3. Len(hc.q) < setup.hc
  BY <1>1, <1>2 DEF HasRoom
<1>4. Adds(hc.q, r, Put(hc, r).q)
  BY <1>1, <1>3, PutMentions
<1>5. PlansOK(x.plans, x.planFloor) /\ \A q \in x.plans : q.plan = p.plan => q = p
  BY <1>1 DEF HostOK, PlansOK, OnePerPlan
<1>6. PlansOK(z.plans, x.planFloor)
  <2>1. IsFiniteSet(z.plans) /\ Cardinality(z.plans) <= setup.maxPlans
    <3>1. IsFiniteSet(x.plans) /\ Cardinality(x.plans) \in Nat
      BY <1>5, FS_CardinalityType DEF PlansOK
    <3>2. IsFiniteSet(x.plans \ {p}) /\ Cardinality(x.plans \ {p}) = Cardinality(x.plans) - 1
      BY <3>1, FS_RemoveElement
    <3>3. /\ IsFiniteSet((x.plans \ {p}) \cup {s})
          /\ \/ Cardinality((x.plans \ {p}) \cup {s}) = Cardinality(x.plans \ {p})
             \/ Cardinality((x.plans \ {p}) \cup {s}) = Cardinality(x.plans \ {p}) + 1
      BY <3>2, FS_AddElement
    <3>4. Cardinality(x.plans) <= setup.maxPlans
      BY <1>5 DEF PlansOK
    <3> QED
      BY <1>1, <3>1, <3>2, <3>3, <3>4
  <2>2. OnePerPlan(z.plans)
    <3>1. OnePerPlan(x.plans \ {p}) /\ \A q \in x.plans \ {p} : q.plan # s.plan
      BY <1>5 DEF PlansOK, OnePerPlan
    <3> QED
      BY <3>1, OneMorePlan
  <2>3. z.plans \subseteq HostPlan /\ \A q \in z.plans : q.plan <= x.planFloor
    BY <1>2, <1>5 DEF PlansOK
  <2> QED
    BY <2>1, <2>2, <2>3 DEF PlansOK
<1>7. HostOK(z)
  BY <1>1, <1>6 DEF HostOK
<1>8. LaneOK(Put(hc, r), "hc", setup.hc)
  BY <1>1, <1>3, PutLane
<1>9. StopOK(z, w, Put(hc, r))
  <2>1. StopOK(x, w, Put(hc, r))
    BY <1>1, PutStop DEF HostOK
  <2> QED
    BY <2>1 DEF StopOK
<1>10. Lists(x, p.plan) /\ ~Revokes(x, p.plan)
  BY <1>5 DEF Lists, Revokes
<1>11. LifeOf(x, w, hc.q, wc.q, overtaken, p.plan)
  BY <1>2 DEF IpcState
<1>12. ~Mentions(hc.q, "revoke", p.plan) /\ ~Revoked(w, p.plan) /\ ~Mentions(wc.q, "acknowledge", p.plan)
  BY <1>10, <1>11, Zenon DEF LifeOf, Life
<1>13. InOrder(Put(hc, r).q)
  <2>1. ASSUME NEW i \in DOMAIN hc.q, hc.q[i].plan = p.plan PROVE hc.q[i].kind = "publish"
    <3>1. hc.q[i].kind \in {"publish", "revoke"}
      BY <1>1, <1>2, <2>1, HostControlPlans DEF Positive
    <3> QED
      BY <1>12, <2>1, <3>1 DEF Mentions
  <2> QED
    BY <1>1, <1>3, <2>1, PutInOrder
<1>14. ASSUME NEW n \in Positive
       PROVE  LifeOf(z, w, Put(hc, r).q, wc.q, overtaken, n) /\ Unused(z, w, Put(hc, r).q, wc.q, n)
  <2>1. LifeOf(x, w, hc.q, wc.q, overtaken, n) /\ Unused(x, w, hc.q, wc.q, n)
    BY <1>14 DEF IpcState
  <2>2. /\ Mentions(Put(hc, r).q, "publish", n) <=> Mentions(hc.q, "publish", n)
        /\ Mentions(Put(hc, r).q, "revoke", n) <=> Mentions(hc.q, "revoke", n) \/ n = p.plan
    BY <1>4 DEF Adds
  <2>3. /\ Lists(z, n) <=> Lists(x, n)
        /\ Revokes(z, n) <=> Revokes(x, n) \/ n = p.plan
    <3>1. \A q : q \in z.plans <=> (q \in x.plans /\ q # p) \/ q = s
      BY Zenon
    <3> QED
      BY <3>1, Zenon DEF Lists, Revokes
  <2>4. CASE n = p.plan
    <3>1. LifeOf(z, w, Put(hc, r).q, wc.q, overtaken, n)
      BY <1>10, <1>12, <2>1, <2>2, <2>3, <2>4, Zenon DEF LifeOf, Life
    <3>2. ~(n > x.planFloor)
      BY <1>2, <2>4 DEF Positive
    <3> QED
      BY <3>1, <3>2 DEF Unused
  <2>5. CASE n # p.plan
    <3>1. LifeOf(z, w, Put(hc, r).q, wc.q, overtaken, n)
      BY <2>1, <2>2, <2>3, <2>5, Zenon DEF LifeOf, Life
    <3> QED
      BY <2>1, <2>2, <2>5, <3>1 DEF Unused
  <2> QED
    BY <2>4, <2>5
<1>15. TokensOK(z, w, hd.q, started)
  BY DEF IpcState, TokensOK
<1> QED
  BY <1>7, <1>8, <1>9, <1>13, <1>14, <1>15, Zenon DEF IpcState

LEMMA RevokePlanInv ==
  ASSUME IpcInv, NEW p \in h.plans, RevokePlan(p)
  PROVE  IpcInv'
<1>1. PICK x \in SoundTicks \cup FaultyTicks :
         WriteControl(x, Record("revoke", p.plan, 0, p.until, 0, 0),
           [x EXCEPT !.plans = (@ \ {p}) \cup {[p EXCEPT !.revoking = TRUE]}])
  BY DEF RevokePlan
<1>2. /\ IpcState(now, stream, hc, wc, hd, wd, x, w, hpc, wpc, overtaken, started) /\ HostOK(x)
      /\ x.plans = h.plans /\ x.detached = h.detached /\ ~h.detached
  BY Ticked0 DEF IpcInv, IpcState, HostKeeps, SameTables, RevokePlan, HostIsIdle
<1> DEFINE s == [p EXCEPT !.revoking = TRUE]
           r == Record("revoke", p.plan, 0, p.until, 0, 0)
           z == [x EXCEPT !.plans = (@ \ {p}) \cup {s}]
<1>3. ~x.detached /\ p \in x.plans /\ WriteControl(x, r, z)
  BY <1>1, <1>2
<1>4. p \in HostPlan /\ p.revoking = FALSE
  BY <1>2, <1>3 DEF HostOK, PlansOK, HostPlan, RevokePlan
<1>s. s \in HostPlan /\ s.plan = p.plan /\ s.revoking = TRUE
  BY <1>4 DEF HostPlan
<1>5. r \in Message /\ WellFormed(r, "hc") /\ r.kind = "revoke" /\ r.plan = p.plan
  BY <1>4 DEF Message, Record, WellFormed, Shape, KindOnLane, Kinds, Positive, HostPlan
<1>6. /\ HostSound(z) /\ z.plans = (x.plans \ {p}) \cup {s} /\ z.planFloor = x.planFloor
      /\ z.tokenFloor = x.tokenFloor
      /\ z.stopSent = x.stopSent /\ z.stopIndex = x.stopIndex /\ z.terminated = x.terminated
      /\ z.detached = x.detached
  BY <1>2 DEF HostOK, HostSound, HostFields
<1> HIDE DEF s, r, z
<1>7. CASE HasRoom(hc, setup.hc, 1)
  <2>1. IpcState(now, stream, Put(hc, r), wc, hd, wd, z, w, hpc, wpc, overtaken, started)
    BY <1>2, <1>3, <1>4, <1>5, <1>6, <1>7, <1>s, RevokeState
  <2>2. hc' = Put(hc, r) /\ h' = z
    BY <1>3, <1>7 DEF WriteControl, ReservedSlots, HostBecomes
  <2> QED
    BY <2>1, <2>2, IpcKept DEF RevokePlan
<1>8. CASE ~HasRoom(hc, setup.hc, 1)
  <2>1. h' = Close(x, "ControlSaturated", 0) /\ hc' = hc
    BY <1>3, <1>8 DEF WriteControl, ReservedSlots, HostBecomes
  <2>2. HostKeeps(x, h')
    BY <1>2, <2>1, CloseKeeps DEF Reasons, HostOK
  <2>3. IpcState(now, stream, hc, wc, hd, wd, h', w, hpc, wpc, overtaken, started)
    BY <1>2, <2>2, HostReplaced
  <2> QED
    BY <2>1, <2>3, IpcKept DEF RevokePlan
<1> QED
  BY <1>7, <1>8

LEMMA StopState ==
  ASSUME NEW x, IpcState(now, stream, hc, wc, hd, wd, x, w, hpc, wpc, overtaken, started), ~x.detached,
         HasRoom(hc, setup.hc, 0),
         NEW r \in Message, WellFormed(r, "hc"), r.kind = "stop", r.plan = 0,
         NEW z, HostSound(z), z.plans = x.plans, z.planFloor = x.planFloor,
         z.tokenFloor = x.tokenFloor, z.stopSent = TRUE, z.stopIndex = Produced(hc),
         z.terminated = x.terminated, z.detached = x.detached
  PROVE  IpcState(now, stream, Put(hc, r), wc, hd, wd, z, w, hpc, wpc, overtaken, started)
<1>1. HostOK(x) /\ LaneOK(hc, "hc", setup.hc) /\ StopOK(x, w, hc) /\ InOrder(hc.q) /\ setup.hc \in Nat
  BY SetupFacts DEF IpcState, ClockOK
<1>2. hc.q \in Seq(Message) /\ Len(hc.q) \in Nat /\ hc.read \in Nat
  BY <1>1 DEF LaneOK, MessageLane
<1>3. Len(hc.q) < setup.hc
  BY <1>1, <1>2 DEF HasRoom
<1>4. Adds(hc.q, r, Put(hc, r).q)
  BY <1>1, <1>3, PutMentions
<1>5. HostOK(z)
  <2>1. z.stopIndex \in Nat
    BY <1>2 DEF Produced
  <2> QED
    BY <1>1, <2>1 DEF HostOK
<1>6. /\ LaneOK(Put(hc, r), "hc", setup.hc) /\ Put(hc, r).read = hc.read
      /\ Len(Put(hc, r).q) = Len(hc.q) + 1 /\ Put(hc, r).q[Len(hc.q) + 1] = r
  BY <1>1, <1>3, PutLane
<1>7. StopOK(z, w, Put(hc, r))
  <2>1. z.stopIndex - hc.read + 1 = Len(hc.q) + 1 /\ hc.read <= z.stopIndex
    BY <1>2 DEF Produced
  <2> QED
    BY <1>1, <1>2, <1>6, <2>1 DEF StopOK
<1>8. InOrder(Put(hc, r).q)
  BY <1>1, <1>3, PutInOrder
<1>9. ASSUME NEW n \in Positive
       PROVE  LifeOf(z, w, Put(hc, r).q, wc.q, overtaken, n) /\ Unused(z, w, Put(hc, r).q, wc.q, n)
  <2>1. LifeOf(x, w, hc.q, wc.q, overtaken, n) /\ Unused(x, w, hc.q, wc.q, n)
    BY <1>9 DEF IpcState
  <2>2. /\ Mentions(Put(hc, r).q, "publish", n) <=> Mentions(hc.q, "publish", n)
        /\ Mentions(Put(hc, r).q, "revoke", n) <=> Mentions(hc.q, "revoke", n)
    BY <1>4 DEF Adds
  <2>3. LifeOf(z, w, hc.q, wc.q, overtaken, n) /\ Unused(z, w, hc.q, wc.q, n)
    BY <2>1, SameTablesLife
  <2>4. LifeOf(z, w, Put(hc, r).q, wc.q, overtaken, n)
    BY <2>2, <2>3, Zenon DEF LifeOf, Life
  <2> QED
    BY <2>2, <2>3, <2>4 DEF Unused
<1>10. TokensOK(z, w, hd.q, started)
  BY DEF IpcState, TokensOK
<1> QED
  BY <1>5, <1>6, <1>7, <1>8, <1>9, <1>10, Zenon DEF IpcState

LEMMA SendStopInv ==
  ASSUME NEW x, IpcState(now, stream, hc, wc, hd, wd, x, w, hpc, wpc, overtaken, started), ~x.detached,
         SendStop(x), UNCHANGED <<setup, now, stream, wc, hd, wd, w, hpc, wpc, started, overtaken>>
  PROVE  IpcInv'
<1>1. CASE x.stopSent \/ ~HasRoom(hc, setup.hc, 0)
  BY <1>1, IpcKept DEF SendStop, HostBecomes
<1>2. CASE ~(x.stopSent \/ ~HasRoom(hc, setup.hc, 0))
  <2> DEFINE r == Record("stop", 0, 0, 0, 0, 0)
             z == [x EXCEPT !.stopSent = TRUE, !.stopIndex = Produced(hc)]
  <2>1. hc' = Put(hc, r) /\ h' = z
    BY <1>2 DEF SendStop, HostBecomes
  <2>2. r \in Message /\ WellFormed(r, "hc") /\ r.kind = "stop" /\ r.plan = 0
    BY DEF Message, Record, WellFormed, Shape, KindOnLane, Kinds
  <2>3. /\ HostSound(z) /\ z.plans = x.plans /\ z.planFloor = x.planFloor
        /\ z.tokenFloor = x.tokenFloor /\ z.stopSent = TRUE /\ z.stopIndex = Produced(hc)
        /\ z.terminated = x.terminated /\ z.detached = x.detached
    BY DEF IpcState, HostOK, HostSound, HostFields
  <2> HIDE DEF r, z
  <2>4. IpcState(now, stream, Put(hc, r), wc, hd, wd, z, w, hpc, wpc, overtaken, started)
    BY <1>2, <2>2, <2>3, StopState
  <2> QED
    BY <2>1, <2>4, IpcKept
<1> QED
  BY <1>1, <1>2

LEMMA AcknowledgeGapInv ==
  ASSUME IpcInv, AcknowledgeGap
  PROVE  IpcInv'
<1>1. PICK x \in SoundTicks \cup FaultyTicks : SendStop(x)
  BY DEF AcknowledgeGap
<1>2. IpcState(now, stream, hc, wc, hd, wd, x, w, hpc, wpc, overtaken, started) /\ ~x.detached
  BY Ticked0 DEF HostKeeps, SameTables, AcknowledgeGap, HostIsIdle
<1> QED
  BY <1>1, <1>2, SendStopInv DEF AcknowledgeGap

LEMMA RequestStopInv ==
  ASSUME IpcInv, RequestStop
  PROVE  IpcInv'
<1>1. PICK x \in SoundTicks \cup FaultyTicks : SendStop(Close(x, "Stop", 0))
  BY DEF RequestStop
<1> DEFINE z == Close(x, "Stop", 0)
<1>2. IpcState(now, stream, hc, wc, hd, wd, x, w, hpc, wpc, overtaken, started) /\ ~x.detached
  BY Ticked0 DEF HostKeeps, SameTables, RequestStop, HostIsIdle
<1>3. HostKeeps(x, z)
  BY <1>2, CloseKeeps DEF Reasons, IpcState, HostOK
<1> HIDE DEF z
<1>4. IpcState(now, stream, hc, wc, hd, wd, z, w, hpc, wpc, overtaken, started) /\ ~z.detached
  BY <1>2, <1>3, HostReplaced DEF HostKeeps, SameTables
<1>5. SendStop(z)
  BY <1>1 DEF z
<1> QED
  BY <1>4, <1>5, SendStopInv DEF RequestStop

LEMMA SendState ==
  ASSUME NEW x, IpcState(now, stream, hc, wc, hd, wd, x, w, hpc, wpc, overtaken, started),
         HasRoom(hd, setup.hd, 0),
         NEW r \in Message, WellFormed(r, "hd"), r.token = x.tokenFloor + 1,
         NEW z, HostSound(z), z.plans = x.plans, z.planFloor = x.planFloor,
         z.tokenFloor = x.tokenFloor + 1, z.stopSent = x.stopSent, z.stopIndex = x.stopIndex,
         z.terminated = x.terminated, z.detached = x.detached
  PROVE  IpcState(now, stream, hc, wc, Put(hd, r), wd, z, w, hpc, wpc, overtaken, started)
<1>1. HostOK(x) /\ LaneOK(hd, "hd", setup.hd) /\ setup.hd \in Nat
  BY SetupFacts DEF IpcState, ClockOK, Positive
<1>2. hd.q \in Seq(Message) /\ Len(hd.q) \in Nat /\ DOMAIN hd.q = 1 .. Len(hd.q)
  BY <1>1 DEF LaneOK, MessageLane
<1>3. Len(hd.q) < setup.hd
  BY <1>1, <1>2 DEF HasRoom
<1>4. HostOK(z)
  BY <1>1 DEF HostOK
<1>5. /\ LaneOK(Put(hd, r), "hd", setup.hd)
      /\ DOMAIN Put(hd, r).q = 1 .. Len(hd.q) + 1
      /\ \A i \in DOMAIN hd.q : Put(hd, r).q[i] = hd.q[i]
      /\ Put(hd, r).q[Len(hd.q) + 1] = r
  BY <1>1, <1>3, PutLane
<1>6. StopOK(z, w, hc)
  BY DEF IpcState, StopOK
<1>7. ASSUME NEW n \in Positive
       PROVE  LifeOf(z, w, hc.q, wc.q, overtaken, n) /\ Unused(z, w, hc.q, wc.q, n)
  BY <1>7, SameTablesLife DEF IpcState
<1>8. TokensOK(z, w, Put(hd, r).q, started)
  <2>1. TokensOK(x, w, hd.q, started) /\ x.tokenFloor \in Nat /\ w.tokenFloor \in Nat
    BY <1>1 DEF IpcState, HostOK, WorkerOK
  <2>2. ASSUME NEW i \in DOMAIN Put(hd, r).q PROVE Put(hd, r).q[i].token <= z.tokenFloor
    <3>1. CASE i \in DOMAIN hd.q
      <4>1. hd.q[i].token \in Nat /\ hd.q[i].token <= x.tokenFloor
        <5>1. hd.q[i] \in Message
          BY <1>2, <3>1
        <5>2. hd.q[i].token \in Nat
          BY <5>1 DEF Message
        <5> QED
          BY <2>1, <3>1, <5>2 DEF TokensOK
      <4> QED
        BY <1>5, <2>1, <3>1, <4>1
    <3>2. CASE i \notin DOMAIN hd.q
      <4>1. Put(hd, r).q[i] = r
        BY <1>2, <1>5, <3>2
      <4> QED
        BY <2>1, <4>1
    <3> QED
      BY <3>1, <3>2
  <2> QED
    BY <2>1, <2>2 DEF TokensOK
<1> QED
  BY <1>4, <1>5, <1>6, <1>7, <1>8, Zenon DEF IpcState

LEMMA SendCommandInv ==
  ASSUME IpcInv, NEW p \in h.plans, NEW deadline \in 2 .. setup.ticks + 1, SendCommand(p, deadline)
  PROVE  IpcInv'
<1>1. PICK x \in SoundTicks :
       LET c == [plan |-> p.plan, token |-> x.tokenFloor + 1, until |-> deadline]
           retired == LingerMoved(x, {o \in Range(x.outstanding) : ~Live(o, now)}, FALSE)
       IN  /\ HostOpen(x) /\ Live(c, now)
           /\ IF Len(retired.outstanding) < setup.maxOutstanding /\ HasRoom(hd, setup.hd, 0)
              THEN /\ hd' = Put(hd, Record("command", c.plan, c.token, deadline, 0, 0))
                   /\ HostBecomes([retired EXCEPT !.tokenFloor = c.token, !.outstanding = Append(@, c)])
              ELSE HostBecomes(retired) /\ UNCHANGED hd
  BY DEF SendCommand
<1> DEFINE c == [plan |-> p.plan, token |-> x.tokenFloor + 1, until |-> deadline]
           retired == LingerMoved(x, {o \in Range(x.outstanding) : ~Live(o, now)}, FALSE)
           r == Record("command", c.plan, c.token, deadline, 0, 0)
           z == [retired EXCEPT !.tokenFloor = c.token, !.outstanding = Append(@, c)]
           go == Len(retired.outstanding) < setup.maxOutstanding /\ HasRoom(hd, setup.hd, 0)
<1>2. IF go THEN hd' = Put(hd, r) /\ h' = z ELSE h' = retired /\ hd' = hd
  BY <1>1 DEF HostBecomes
<1>3. IpcState(now, stream, hc, wc, hd, wd, x, w, hpc, wpc, overtaken, started) /\ HostOK(x) /\ HostOK(h)
  BY Ticked0 DEF IpcInv, IpcState
<1>4. HostKeeps(x, retired)
  BY <1>3, LingerMovedKeeps DEF HostOK
<1>5. p \in HostPlan /\ deadline \in Positive /\ x.tokenFloor \in Nat
  BY <1>3, SetupFacts DEF HostOK, PlansOK, IpcState, ClockOK, Positive
<1>6. r \in Message /\ WellFormed(r, "hd") /\ r.token = x.tokenFloor + 1
  BY <1>5 DEF Message, Record, WellFormed, Shape, KindOnLane, Kinds, Positive, HostPlan
<1>7. c.token = x.tokenFloor + 1
  OBVIOUS
<1> HIDE DEF c, retired, r
<1>8. IpcState(now, stream, hc, wc, hd, wd, retired, w, hpc, wpc, overtaken, started) /\ HostSound(retired)
      /\ retired.tokenFloor = x.tokenFloor
  BY <1>3, <1>4, HostReplaced DEF HostKeeps, SameTables
<1>9. CASE go
  <2>1. /\ HostSound(z) /\ z.plans = retired.plans /\ z.planFloor = retired.planFloor
        /\ z.tokenFloor = retired.tokenFloor + 1 /\ z.stopSent = retired.stopSent
        /\ z.stopIndex = retired.stopIndex
        /\ z.terminated = retired.terminated /\ z.detached = retired.detached
    BY <1>7, <1>8 DEF HostSound, HostFields
  <2> HIDE DEF z
  <2>2. IpcState(now, stream, hc, wc, Put(hd, r), wd, z, w, hpc, wpc, overtaken, started)
    BY <1>6, <1>8, <1>9, <2>1, SendState
  <2> QED
    BY <1>2, <1>9, <2>2, IpcKept DEF SendCommand
<1>10. CASE ~go
  BY <1>2, <1>8, <1>10, IpcKept DEF SendCommand
<1> QED
  BY <1>9, <1>10

\* The host reads a control record: the retirement of a plan takes it off the list.
LEMMA ControlState ==
  ASSUME NEW x, IpcState(now, stream, hc, wc, hd, wd, x, w, hpc, wpc, overtaken, started), wc.q # <<>>,
         NEW r, r = Head(wc.q), NEW faulty \in BOOLEAN, NEW z, Handled(x, z, r, faulty),
         NEW lost, overtaken \subseteq lost, faulty /\ r.kind # "gap" => r.plan \in lost
  PROVE  IpcState(now, stream, hc, Take(wc), hd, wd, z, w, hpc, wpc, lost, started)
<1>1. HostOK(x) /\ LaneOK(wc, "wc", setup.wc) /\ setup.wc \in Nat /\ GapOK(w, wc)
  BY SetupFacts DEF IpcState, ClockOK, Positive
<1>2. wc.q \in Seq(Message) /\ Len(wc.q) \in Nat /\ DOMAIN wc.q = 1 .. Len(wc.q)
  BY <1>1 DEF LaneOK, MessageLane
<1>3. /\ LaneOK(Take(wc), "wc", setup.wc) /\ Len(Take(wc).q) = Len(wc.q) - 1
      /\ \A i \in DOMAIN Take(wc).q : Take(wc).q[i] = wc.q[i + 1] /\ i + 1 \in DOMAIN wc.q
      /\ r \in Message /\ WellFormed(r, "wc")
  BY <1>1, TakeLane
<1>4. \A kind, n : Mentions(wc.q, kind, n) <=> Mentions(Take(wc).q, kind, n) \/ (r.kind = kind /\ r.plan = n)
  BY <1>1, TakeMentions
<1>5. SequencesOK(Take(wc))
  BY <1>3 DEF IpcState, SequencesOK
<1>6. GapOK(w, Take(wc))
  BY <1>1, <1>2, <1>3 DEF GapOK, HasRoom
<1>7. r.kind = "gap" \/ r.kind = "acknowledge"
  BY <1>3 DEF WellFormed, Shape, KindOnLane
<1> DEFINE gone == IF r.kind = "gap" \/ faulty THEN {} ELSE Retires(x, r)
<1>8. /\ HostSound(z) /\ z.plans = x.plans \ gone /\ z.planFloor = x.planFloor /\ z.tokenFloor = x.tokenFloor
      /\ z.stopSent = x.stopSent /\ z.stopIndex = x.stopIndex
      /\ z.terminated = x.terminated /\ z.detached = x.detached
  BY DEF Handled
<1>9. \A p : p \in gone <=> ~(r.kind = "gap" \/ faulty) /\ p \in x.plans /\ p.plan = r.plan /\ p.revoking
  BY DEF Retires
<1> HIDE DEF gone
<1>10. HostOK(z)
  <2>1. PlansOK(x.plans, x.planFloor)
    BY <1>1 DEF HostOK
  <2>2. z.plans \subseteq x.plans
    BY <1>8
  <2>3. IsFiniteSet(z.plans) /\ Cardinality(z.plans) <= setup.maxPlans
    <3>1. IsFiniteSet(x.plans) /\ Cardinality(x.plans) <= setup.maxPlans /\ setup.maxPlans \in Nat
      BY <2>1, SetupFacts DEF PlansOK, IpcState, ClockOK, Positive
    <3>2. IsFiniteSet(z.plans) /\ Cardinality(z.plans) <= Cardinality(x.plans)
      BY <2>2, <3>1, FS_Subset
    <3>3. Cardinality(z.plans) \in Nat /\ Cardinality(x.plans) \in Nat
      BY <3>1, <3>2, FS_CardinalityType
    <3> QED
      BY <3>1, <3>2, <3>3
  <2>4. PlansOK(z.plans, x.planFloor)
    BY <2>1, <2>2, <2>3 DEF PlansOK, OnePerPlan
  <2>5. x.detached => z.plans = {}
    BY <1>1, <2>2 DEF HostOK
  <2> QED
    BY <1>1, <1>8, <2>4, <2>5 DEF HostOK
<1>11. StopOK(z, w, hc)
  BY <1>8 DEF IpcState, StopOK
<1>12. ASSUME NEW n \in Positive
       PROVE  LifeOf(z, w, hc.q, Take(wc).q, lost, n) /\ Unused(z, w, hc.q, Take(wc).q, n)
  <2>1. LifeOf(x, w, hc.q, wc.q, overtaken, n) /\ Unused(x, w, hc.q, wc.q, n)
    BY <1>12 DEF IpcState
  <2>2. Mentions(wc.q, "acknowledge", n) <=> Mentions(Take(wc).q, "acknowledge", n) \/ (r.kind = "acknowledge" /\ r.plan = n)
    BY <1>4
  <2>3. n \in overtaken => n \in lost
    OBVIOUS
  <2>4. /\ Lists(z, n) => Lists(x, n)
        /\ Revokes(z, n) => Revokes(x, n)
        /\ (n # r.plan \/ r.kind = "gap" \/ faulty) =>
              (Lists(z, n) <=> Lists(x, n)) /\ (Revokes(z, n) <=> Revokes(x, n))
        /\ n = r.plan /\ ~(r.kind = "gap" \/ faulty) => ~Revokes(z, n)
    <3>1. \A p : p \in z.plans <=> p \in x.plans /\ p \notin gone
      BY <1>8
    <3>2. /\ Lists(z, n) => Lists(x, n)
          /\ Revokes(z, n) => Revokes(x, n)
      BY <3>1, Zenon DEF Lists, Revokes
    <3>3. (n # r.plan \/ r.kind = "gap" \/ faulty) =>
              (Lists(z, n) <=> Lists(x, n)) /\ (Revokes(z, n) <=> Revokes(x, n))
      BY <1>9, <3>1, Zenon DEF Lists, Revokes
    <3>4. n = r.plan /\ ~(r.kind = "gap" \/ faulty) => ~Revokes(z, n)
      BY <1>9, <3>1, Zenon DEF Revokes
    <3> QED
      BY <3>2, <3>3, <3>4
  <2>5. CASE n # r.plan \/ r.kind = "gap"
    <3>1. LifeOf(z, w, hc.q, Take(wc).q, lost, n)
      <4>1. Mentions(wc.q, "acknowledge", n) <=> Mentions(Take(wc).q, "acknowledge", n)
        BY <2>2, <2>5
      <4> QED
        BY <1>8, <2>1, <2>3, <2>4, <2>5, <4>1, Zenon DEF LifeOf, Life
    <3> QED
      BY <1>8, <2>1, <2>2, <3>1 DEF Unused
  <2>6. CASE n = r.plan /\ r.kind # "gap" /\ faulty
    <3>0. n \in lost
      BY <2>6
    <3>1. LifeOf(z, w, hc.q, Take(wc).q, lost, n)
      BY <1>7, <1>8, <2>1, <2>2, <2>4, <2>6, <3>0, Zenon DEF LifeOf, Life
    <3> QED
      BY <1>8, <2>1, <2>2, <3>1 DEF Unused
  <2>7. CASE n = r.plan /\ r.kind # "gap" /\ ~faulty
    <3>1. Mentions(wc.q, "acknowledge", n)
      BY <1>7, <2>2, <2>7
    <3>2. ~Mentions(hc.q, "publish", n) /\ ~Mentions(hc.q, "revoke", n) /\ ~Holds(w, n) /\ ~Revoked(w, n)
          /\ (Lists(x, n) => Revokes(x, n))
      BY <2>1, <3>1, Zenon DEF LifeOf, Life
    <3>3. ~Revokes(z, n) /\ ~Lists(z, n)
      <4>1. ~Revokes(z, n)
        BY <2>4, <2>7
      <4>2. ASSUME Lists(z, n) PROVE FALSE
        <5>1. PICK p \in z.plans : p.plan = n
          BY <4>2 DEF Lists
        <5>2. PICK q \in x.plans : q.plan = n /\ q.revoking
          <6>1. Revokes(x, n)
            BY <2>4, <3>2, <4>2
          <6> QED
            BY <6>1 DEF Revokes
        <5>3. p \in x.plans /\ OnePerPlan(x.plans)
          BY <1>1, <1>8, <5>1 DEF HostOK, PlansOK
        <5>4. p = q
          BY <5>1, <5>2, <5>3 DEF OnePerPlan
        <5> QED
          BY <4>1, <5>1, <5>2, <5>4 DEF Revokes
      <4> QED
        BY <4>1, <4>2
    <3>4. LifeOf(z, w, hc.q, Take(wc).q, lost, n)
      BY <3>2, <3>3, Zenon DEF LifeOf, Life
    <3> QED
      BY <1>8, <2>1, <2>2, <3>4 DEF Unused
  <2> QED
    BY <2>5, <2>6, <2>7
<1>13. TokensOK(z, w, hd.q, started)
  BY <1>8 DEF IpcState, TokensOK
<1> QED
  BY <1>3, <1>5, <1>6, <1>10, <1>11, <1>12, <1>13, Zenon DEF IpcState

LEMMA HeadOfControl ==
  ASSUME IpcInv, wc.q # <<>>
  PROVE  /\ Head(wc.q) \in Message /\ Head(wc.q).sequence # 0 /\ Head(wc.q).sequence <= setup.maxSequence
         /\ setup.maxSequence \in Nat
<1>1. LaneOK(wc, "wc", setup.wc) /\ setup.wc \in Nat /\ SequencesOK(wc) /\ setup.maxSequence \in Nat
  BY SetupFacts DEF IpcInv, IpcState, ClockOK, Positive
<1>2. Head(wc.q) = wc.q[1] /\ Head(wc.q) \in Message /\ WellFormed(Head(wc.q), "wc") /\ Len(wc.q) > 0
  BY <1>1, TakeLane
<1>3. 1 \in DOMAIN wc.q
  BY <1>1, <1>2 DEF LaneOK, MessageLane
<1> QED
  BY <1>1, <1>2, <1>3 DEF SequencesOK, WellFormed, Shape

LEMMA HeadOfData ==
  ASSUME IpcInv, wd.q # <<>>
  PROVE  /\ Head(wd.q) \in Message /\ Head(wd.q).sequence # 0 /\ Head(wd.q).sequence <= setup.maxSequence
         /\ setup.maxSequence \in Nat
<1>1. LaneOK(wd, "wd", setup.wd) /\ setup.wd \in Nat /\ SequencesOK(wd) /\ setup.maxSequence \in Nat
  BY SetupFacts DEF IpcInv, IpcState, ClockOK, Positive
<1>2. Head(wd.q) = wd.q[1] /\ Head(wd.q) \in Message /\ WellFormed(Head(wd.q), "wd") /\ Len(wd.q) > 0
  BY <1>1, TakeLane
<1>3. 1 \in DOMAIN wd.q
  BY <1>1, <1>2 DEF LaneOK, MessageLane
<1> QED
  BY <1>1, <1>2, <1>3 DEF SequencesOK, WellFormed, Shape

LEMMA PollControlInv ==
  ASSUME IpcInv, PollControl
  PROVE  IpcInv'
<1> DEFINE r == Head(wc.q)
           faulty == Impossible(r, h.lastControl, hpc.reading)
           z == HostHandleControl(h, r, hpc.reading, TRUE)
           reads == wc.q # <<>> /\ ~DrainsData
<1>1. PcOK(hpc, wpc, w)
  BY DEF IpcInv, IpcState
<1>2. CASE reads
  <2>1. /\ h' = z /\ wc' = Take(wc) /\ hpc' = HostIdle
        /\ overtaken' = IF faulty THEN overtaken \cup {r.plan} ELSE overtaken
    BY <1>2 DEF PollControl, HostBecomes
  <2>2. Handled(h, z, r, faulty)
    <3>1. r \in Message /\ r.sequence # 0 /\ r.sequence <= setup.maxSequence /\ setup.maxSequence \in Nat /\ HostSound(h)
      BY <1>2, HeadOfControl DEF IpcInv, IpcState, HostOK
    <3>2. Handled(h, z, r, TRUE /\ faulty)
      BY <3>1, HandleControlHandles
    <3> HIDE DEF r, faulty, z
    <3> QED
      BY <3>2 DEF Handled
  <2>3. faulty \in BOOLEAN
    BY DEF Impossible
  <2>4. wc.q # <<>> /\ overtaken \subseteq overtaken' /\ (faulty => r.plan \in overtaken')
    BY <1>2, <2>1
  <2>r. r = Head(wc.q)
    OBVIOUS
  <2> HIDE DEF r, faulty, z
  <2>5. IpcState(now, stream, hc, Take(wc), hd, wd, z, w, hpc, wpc, overtaken', started)
    BY <2>2, <2>3, <2>4, <2>r, ControlState DEF IpcInv
  <2>6. IpcState(now, stream, hc, Take(wc), hd, wd, z, w, HostIdle, wpc, overtaken', started)
    BY <2>5, HpcReplaced DEF HostIdle
  <2> QED
    BY <2>1, <2>6, IpcKept DEF PollControl
<1>3. CASE ~reads
  <2>1. /\ DOMAIN hpc' = {"at", "head", "reading"} /\ hpc'.at \in {"idle", "head", "control", "data"}
        /\ h' = h /\ wc' = wc /\ overtaken' = overtaken
    <3>1. h' = h /\ wc' = wc /\ overtaken' = overtaken /\ hpc' \in {HostIdle, [hpc EXCEPT !.at = "data"]}
      BY <1>3 DEF PollControl
    <3>2. DOMAIN hpc = {"at", "head", "reading"}
      BY <1>1 DEF PcOK
    <3> QED
      BY <3>1, <3>2 DEF HostIdle
  <2>2. IpcState(now, stream, hc, wc, hd, wd, h, w, hpc', wpc, overtaken, started)
    BY <2>1, HpcReplaced DEF IpcInv
  <2> QED
    BY <2>1, <2>2, IpcKept DEF PollControl
<1> QED
  BY <1>2, <1>3

LEMMA PollFencedInv ==
  ASSUME IpcInv, PollFenced
  PROVE  IpcInv'
<1>1. PICK x \in FaultyTicks : h' = HostHandleControl(x, Head(wc.q), 0, FALSE)
  BY DEF PollFenced, HostBecomes
<1>2. IpcState(now, stream, hc, wc, hd, wd, x, w, hpc, wpc, overtaken, started) /\ HostSound(x)
  BY Ticked0 DEF IpcState, HostOK
<1>3. Handled(x, h', Head(wc.q), FALSE)
  <2>1. Handled(x, h', Head(wc.q), FALSE /\ Impossible(Head(wc.q), x.lastControl, 0))
    BY <1>1, <1>2, HeadOfControl, HandleControlHandles DEF PollFenced
  <2> QED
    BY <2>1
<1>4. IpcState(now, stream, hc, Take(wc), hd, wd, h', w, hpc, wpc, overtaken, started)
  BY <1>2, <1>3, ControlState DEF PollFenced
<1> QED
  BY <1>4, IpcKept DEF PollFenced

LEMMA PollDataInv ==
  ASSUME IpcInv, PollData
  PROVE  IpcInv'
<1>1. HostKeeps(h, h')
  BY HeadOfData, HandleDataKeeps DEF PollData, HostBecomes, IpcInv, IpcState, HostOK
<1>2. IpcState(now, stream, hc, wc, hd, wd, h', w, hpc, wpc, overtaken, started)
  BY <1>1, HostReplaced DEF IpcInv
<1>3. IpcState(now, stream, hc, wc, hd, wd, h', w, HostIdle, wpc, overtaken, started)
  BY <1>2, HpcReplaced DEF HostIdle
<1>4. LaneOK(Take(wd), "wd", setup.wd) /\ SequencesOK(Take(wd))
  <2>1. LaneOK(wd, "wd", setup.wd) /\ setup.wd \in Nat /\ SequencesOK(wd) /\ wd.q # <<>>
    BY SetupFacts DEF IpcInv, IpcState, ClockOK, Positive, PollData
  <2>2. /\ LaneOK(Take(wd), "wd", setup.wd)
        /\ \A i \in DOMAIN Take(wd).q : Take(wd).q[i] = wd.q[i + 1] /\ i + 1 \in DOMAIN wd.q
    BY <2>1, TakeLane
  <2> QED
    BY <2>1, <2>2 DEF SequencesOK
<1>5. IpcState(now, stream, hc, wc, hd, Take(wd), h', w, HostIdle, wpc, overtaken, started)
  BY <1>3, <1>4, Zenon DEF IpcState
<1> QED
  BY <1>5, IpcKept DEF PollData

-----------------------------------------------------------------------------
(* The worker's methods.                                                   *)

Worker(s) ==
  /\ DOMAIN s = {"w", "wc"}
  /\ WorkerOK(s.w) /\ LaneOK(s.wc, "wc", setup.wc) /\ SequencesOK(s.wc) /\ GapOK(s.w, s.wc)

\* A method that closes the fence, or nothing: plans and floors stay, and so do the
\* retirements on the lane.
SameHoldings(x, y) ==
  /\ y.adopted = x.adopted /\ y.refused = x.refused /\ y.tokenFloor = x.tokenFloor
  /\ y.detached = x.detached /\ y.alive = x.alive
  /\ y.active = x.active \/ y.active = NoCommand
  /\ x.fence # "None" => y.fence # "None"
SameAcks(q, r) == \A n : Mentions(r, "acknowledge", n) <=> Mentions(q, "acknowledge", n)
OneMoreAck(q, r, plan) == \A n : Mentions(r, "acknowledge", n) <=> Mentions(q, "acknowledge", n) \/ n = plan
WorkerKeeps(s, t) == Worker(t) /\ SameHoldings(s.w, t.w) /\ SameAcks(s.wc.q, t.wc.q)
WorkerPosts(s, t, plan) == Worker(t) /\ SameHoldings(s.w, t.w) /\ OneMoreAck(s.wc.q, t.wc.q, plan)

LEMMA WorkerKeepsSelf ==
  ASSUME NEW s, Worker(s)
  PROVE  WorkerKeeps(s, s)
  BY DEF WorkerKeeps, SameHoldings, SameAcks

LEMMA WorkerKeepsTrans ==
  ASSUME NEW s, NEW t, NEW u, WorkerKeeps(s, t), WorkerKeeps(t, u)
  PROVE  WorkerKeeps(s, u)
<1>1. SameHoldings(s.w, u.w)
  BY DEF WorkerKeeps, SameHoldings
<1>2. SameAcks(s.wc.q, u.wc.q)
  BY DEF WorkerKeeps, SameAcks
<1> QED
  BY <1>1, <1>2 DEF WorkerKeeps

LEMMA KeepsThenPosts ==
  ASSUME NEW s, NEW t, NEW u, NEW plan, WorkerKeeps(s, t), WorkerPosts(t, u, plan)
  PROVE  WorkerPosts(s, u, plan)
<1>1. SameHoldings(s.w, u.w)
  BY DEF WorkerKeeps, WorkerPosts, SameHoldings
<1>2. OneMoreAck(s.wc.q, u.wc.q, plan)
  BY DEF WorkerKeeps, WorkerPosts, SameAcks, OneMoreAck
<1> QED
  BY <1>1, <1>2 DEF WorkerPosts

\* A command can always be dropped.
LEMMA ActiveKept ==
  ASSUME NEW x, NEW y, ActiveOK(x), y.adopted = x.adopted, y.active = x.active, y.fence = x.fence
  PROVE  ActiveOK(y)
<1>1. \A plan : PlanHeld(y, plan) <=> PlanHeld(x, plan)
  BY DEF PlanHeld
<1> QED
  BY <1>1 DEF ActiveOK

LEMMA ActiveDropped ==
  ASSUME NEW y, y.active = NoCommand
  PROVE  ActiveOK(y)
  BY DEF ActiveOK

\* Fields the invariant does not look at.
SameWorker(x, y) ==
  /\ DOMAIN y = WorkerFields
  /\ y.fence = x.fence /\ y.gapLatched = x.gapLatched /\ y.gapWritten = x.gapWritten
  /\ y.alive = x.alive /\ y.detached = x.detached /\ y.tokenFloor = x.tokenFloor
  /\ y.nextSequence = x.nextSequence /\ y.adopted = x.adopted /\ y.refused = x.refused /\ y.active = x.active

LEMMA SameWorkerKeeps ==
  ASSUME NEW s, NEW t, Worker(s), DOMAIN t = {"w", "wc"}, t.wc = s.wc, SameWorker(s.w, t.w), t.w.last \in Nat
  PROVE  WorkerKeeps(s, t)
<1>1. ActiveOK(t.w)
  BY ActiveKept DEF Worker, WorkerOK, SameWorker
<1>2. WorkerOK(t.w)
  BY <1>1 DEF Worker, WorkerOK, SameWorker
<1>3. GapOK(t.w, t.wc)
  BY DEF Worker, SameWorker, GapOK
<1>4. Worker(t)
  BY <1>2, <1>3 DEF Worker
<1>5. SameHoldings(s.w, t.w) /\ SameAcks(s.wc.q, t.wc.q)
  BY DEF SameHoldings, SameAcks, SameWorker
<1> QED
  BY <1>4, <1>5 DEF WorkerKeeps

LEMMA FlushGapNothing ==
  ASSUME NEW s, s.w.gapLatched => s.w.gapWritten
  PROVE  FlushGap(s) = s
  BY DEF FlushGap

LEMMA TickedKeeps ==
  ASSUME NEW s, Worker(s), now \in Nat
  PROVE  WorkerKeeps(s, Ticked(s)) /\ Ticked(s) = [s EXCEPT !.w.last = now]
<1> DEFINE t == [s EXCEPT !.w.last = now]
<1>1. DOMAIN t = {"w", "wc"} /\ t.wc = s.wc /\ SameWorker(s.w, t.w) /\ t.w.last \in Nat
  BY DEF Worker, WorkerOK, SameWorker, WorkerFields
<1>2. FlushGap(t) = t
  BY <1>1, FlushGapNothing DEF Worker, GapOK, SameWorker
<1> QED
  BY <1>1, <1>2, SameWorkerKeeps DEF Ticked

LEMMA AfterSequenceKeeps ==
  ASSUME NEW s, Worker(s), setup.maxSequence \in Positive
  PROVE  WorkerKeeps(s, [s EXCEPT !.w = AfterSequence(@)])
<1> DEFINE y == AfterSequence(s.w)
           t == [s EXCEPT !.w = y]
<1>1. /\ DOMAIN y = WorkerFields
      /\ y.fence = s.w.fence /\ y.gapLatched = s.w.gapLatched /\ y.gapWritten = s.w.gapWritten
      /\ y.alive = s.w.alive /\ y.detached = s.w.detached /\ y.tokenFloor = s.w.tokenFloor
      /\ y.adopted = s.w.adopted /\ y.refused = s.w.refused /\ y.active = s.w.active /\ y.last = s.w.last
      /\ y.nextSequence \in 1 .. setup.maxSequence
  BY DEF Worker, WorkerOK, WorkerFields, AfterSequence, Positive
<1>t. t.w = y /\ t.wc = s.wc /\ DOMAIN t = {"w", "wc"}
  BY DEF Worker
<1> HIDE DEF y, t
<1>2. WorkerOK(y)
  <2>1. ActiveOK(y)
    BY <1>1, ActiveKept DEF Worker, WorkerOK
  <2> QED
    BY <1>1, <2>1 DEF Worker, WorkerOK
<1>3. GapOK(y, s.wc)
  BY <1>1 DEF Worker, GapOK
<1>4. Worker(t)
  BY <1>2, <1>3, <1>t DEF Worker
<1>5. SameHoldings(s.w, t.w) /\ SameAcks(s.wc.q, t.wc.q)
  BY <1>1, <1>t DEF SameHoldings, SameAcks
<1>6. WorkerKeeps(s, t)
  BY <1>4, <1>5 DEF WorkerKeeps
<1> QED
  BY <1>6 DEF t, y

LEMMA RaiseGapKeeps ==
  ASSUME NEW s, Worker(s), setup.wc \in Nat, setup.maxSequence \in Nat, NEW reason \in Reasons, reason # "None",
         NEW sequence \in 1 .. setup.maxSequence, NEW time \in Positive
  PROVE  WorkerKeeps(s, RaiseGap(s, reason, sequence, time)) /\ RaiseGap(s, reason, sequence, time).w.fence # "None"
<1> DEFINE closed == WorkerClose(s.w, reason)
           r == Record("gap", 0, 0, 0, sequence, time)
           t == [s EXCEPT !.w = IF closed.gapLatched THEN closed ELSE [closed EXCEPT !.gapLatched = TRUE, !.gap = r]]
<1>1. /\ DOMAIN closed = WorkerFields /\ closed.fence \in Reasons \ {"None"} /\ closed.active = NoCommand
      /\ closed.gapLatched = s.w.gapLatched /\ closed.gapWritten = s.w.gapWritten
      /\ closed.alive = s.w.alive /\ closed.detached = s.w.detached /\ closed.tokenFloor = s.w.tokenFloor
      /\ closed.adopted = s.w.adopted /\ closed.refused = s.w.refused /\ closed.last = s.w.last
      /\ closed.nextSequence = s.w.nextSequence
  BY DEF Worker, WorkerOK, WorkerFields, WorkerClose
<1>2. r \in Message /\ WellFormed(r, "wc") /\ r.kind = "gap" /\ r.sequence = sequence
  BY DEF Message, Record, WellFormed, Shape, KindOnLane, Kinds, Positive
<1>3. RaiseGap(s, reason, sequence, time) = FlushGap(t)
  BY DEF RaiseGap
<1> HIDE DEF closed, r
<1>4. /\ DOMAIN t = {"w", "wc"} /\ t.wc = s.wc /\ DOMAIN t.w = WorkerFields
      /\ t.w.fence \in Reasons \ {"None"} /\ t.w.active = NoCommand
      /\ t.w.gapLatched = TRUE /\ t.w.gapWritten = s.w.gapWritten /\ (~s.w.gapLatched => t.w.gap = r)
      /\ t.w.alive = s.w.alive /\ t.w.detached = s.w.detached /\ t.w.tokenFloor = s.w.tokenFloor
      /\ t.w.adopted = s.w.adopted /\ t.w.refused = s.w.refused /\ t.w.last = s.w.last
      /\ t.w.nextSequence = s.w.nextSequence
  BY <1>1 DEF Worker, WorkerOK, WorkerFields
<1> HIDE DEF t
<1>5. WorkerOK(t.w)
  <2>1. ActiveOK(t.w)
    BY <1>4, ActiveDropped
  <2> QED
    BY <1>4, <2>1 DEF Worker, WorkerOK
<1>6. CASE s.w.gapWritten
  <2>1. FlushGap(t) = t
    BY <1>4, <1>6, FlushGapNothing
  <2>2. Worker(t)
    BY <1>4, <1>5, <1>6 DEF Worker, GapOK
  <2>3. SameHoldings(s.w, t.w) /\ SameAcks(s.wc.q, t.wc.q)
    BY <1>4 DEF SameHoldings, SameAcks
  <2> QED
    BY <1>3, <1>4, <2>1, <2>2, <2>3 DEF WorkerKeeps
<1>7. CASE ~s.w.gapWritten
  <2> DEFINE done == PutControl(t, t.w.gap)
             u == [done EXCEPT !.w.gapWritten = TRUE, !.w.gapIndex = Produced(t.wc)]
  <2>1. ~s.w.gapLatched /\ HasRoom(s.wc, setup.wc, 0) /\ t.w.gap = r
    BY <1>4, <1>7 DEF Worker, GapOK
  <2>2. FlushGap(t) = u
    BY <1>4, <1>7, <2>1 DEF FlushGap
  <2>3. /\ DOMAIN done = {"w", "wc"} /\ done.wc = Put(s.wc, r)
        /\ done.w = t.w \/ done.w = [t.w EXCEPT !.progress = [read |-> t.wc.read, tick |-> r.time]]
    BY <1>4, <2>1 DEF PutControl
  <2> HIDE DEF done
  <2>4. /\ DOMAIN u = {"w", "wc"} /\ u.wc = Put(s.wc, r) /\ DOMAIN u.w = WorkerFields
        /\ u.w.fence = t.w.fence /\ u.w.active = NoCommand
        /\ u.w.gapLatched = TRUE /\ u.w.gapWritten = TRUE
        /\ u.w.alive = t.w.alive /\ u.w.detached = t.w.detached /\ u.w.tokenFloor = t.w.tokenFloor
        /\ u.w.adopted = t.w.adopted /\ u.w.refused = t.w.refused /\ u.w.last = t.w.last
        /\ u.w.nextSequence = t.w.nextSequence
    BY <1>4, <2>3 DEF WorkerFields
  <2> HIDE DEF u
  <2>5. WorkerOK(u.w)
    <3>1. ActiveOK(u.w)
      BY <2>4, ActiveDropped
    <3> QED
      BY <1>5, <2>4, <3>1 DEF WorkerOK
  <2>6. LaneOK(s.wc, "wc", setup.wc) /\ Len(s.wc.q) \in Nat /\ Len(s.wc.q) < setup.wc /\ SequencesOK(s.wc)
        /\ DOMAIN s.wc.q = 1 .. Len(s.wc.q)
    BY <2>1 DEF Worker, LaneOK, MessageLane, HasRoom
  <2>7. /\ LaneOK(u.wc, "wc", setup.wc) /\ DOMAIN u.wc.q = 1 .. Len(s.wc.q) + 1
        /\ \A i \in DOMAIN s.wc.q : u.wc.q[i] = s.wc.q[i]
        /\ u.wc.q[Len(s.wc.q) + 1] = r
    BY <1>2, <2>4, <2>6, PutLane
  <2>8. SequencesOK(u.wc)
    <3> SUFFICES ASSUME NEW i \in DOMAIN u.wc.q PROVE u.wc.q[i].sequence <= setup.maxSequence
      BY DEF SequencesOK
    <3>1. CASE i \in DOMAIN s.wc.q
      BY <2>6, <2>7, <3>1 DEF SequencesOK
    <3>2. CASE i \notin DOMAIN s.wc.q
      <4>1. u.wc.q[i] = r
        BY <2>6, <2>7, <3>2
      <4> QED
        BY <1>2, <4>1
    <3> QED
      BY <3>1, <3>2
  <2>9. Worker(u)
    BY <2>4, <2>5, <2>7, <2>8 DEF Worker, GapOK
  <2>10. SameHoldings(s.w, u.w)
    BY <1>4, <2>4 DEF SameHoldings
  <2>11. Adds(s.wc.q, r, Put(s.wc, r).q)
    <3>1. LaneOK(s.wc, "wc", setup.wc) /\ Len(s.wc.q) < setup.wc /\ r \in Message /\ WellFormed(r, "wc")
      BY <1>2, <2>6
    <3> QED
      BY <3>1, PutMentions
  <2>12. SameAcks(s.wc.q, u.wc.q)
    BY <1>2, <2>4, <2>11 DEF SameAcks, Adds
  <2> QED
    BY <1>3, <1>4, <2>2, <2>4, <2>9, <2>10, <2>12 DEF WorkerKeeps
<1> QED
  BY <1>6, <1>7

LEMMA TrustedTickType ==
  ASSUME NEW x, x.last \in Nat
  PROVE  TrustedTick(x) \in Positive
  BY DEF TrustedTick, Positive

LEMMA RaiseLocalGapKeeps ==
  ASSUME NEW s, Worker(s), setup \in Setups, NEW reason \in Reasons, reason # "None"
  PROVE  WorkerKeeps(s, RaiseLocalGap(s, reason))
<1>0. setup.wc \in Nat /\ setup.maxSequence \in Nat /\ setup.maxSequence \in Positive
  BY SetupFacts DEF Positive
<1>1. CASE s.w.gapLatched
  <2>1. FlushGap(s) = s
    BY FlushGapNothing DEF Worker, GapOK
  <2> QED
    BY <1>1, <2>1, WorkerKeepsSelf DEF RaiseLocalGap
<1>2. CASE ~s.w.gapLatched
  <2> DEFINE t == [s EXCEPT !.w = AfterSequence(@)]
             sequence == s.w.nextSequence
             time == TrustedTick(s.w)
  <2>1. RaiseLocalGap(s, reason) = RaiseGap(t, reason, sequence, time)
    BY <1>2 DEF RaiseLocalGap
  <2>2. WorkerKeeps(s, t)
    BY <1>0, AfterSequenceKeeps
  <2>3. sequence \in 1 .. setup.maxSequence /\ time \in Positive
    BY TrustedTickType DEF Worker, WorkerOK
  <2> HIDE DEF t, sequence, time
  <2>4. WorkerKeeps(t, RaiseGap(t, reason, sequence, time))
    BY <1>0, <2>2, <2>3, RaiseGapKeeps DEF WorkerKeeps
  <2> QED
    BY <2>1, <2>2, <2>4, WorkerKeepsTrans
<1> QED
  BY <1>1, <1>2

LEMMA PutAck ==
  ASSUME NEW s, Worker(s), setup \in Setups, HasRoom(s.wc, setup.wc, 1), NEW r \in Message,
         WellFormed(r, "wc"), r.kind = "acknowledge", r.sequence <= setup.maxSequence
  PROVE  WorkerPosts(s, PutControl(s, r), r.plan)
<1> DEFINE u == PutControl(s, r)
<1>0. setup.wc \in Nat /\ setup.maxSequence \in Nat
  BY SetupFacts DEF Positive
<1>1. /\ DOMAIN u = {"w", "wc"} /\ u.wc = Put(s.wc, r)
      /\ u.w = s.w \/ u.w = [s.w EXCEPT !.progress = [read |-> s.wc.read, tick |-> r.time]]
  BY DEF PutControl
<1>2. SameWorker(s.w, u.w) /\ u.w.last = s.w.last
  BY <1>1 DEF Worker, WorkerOK, WorkerFields, SameWorker
<1> HIDE DEF u
<1>3. WorkerOK(u.w)
  <2>1. ActiveOK(u.w)
    BY <1>2, ActiveKept DEF Worker, WorkerOK, SameWorker
  <2> QED
    BY <1>2, <2>1 DEF Worker, WorkerOK, SameWorker
<1>4. LaneOK(s.wc, "wc", setup.wc) /\ Len(s.wc.q) \in Nat /\ Len(s.wc.q) < setup.wc /\ SequencesOK(s.wc)
      /\ DOMAIN s.wc.q = 1 .. Len(s.wc.q) /\ Len(s.wc.q) + 1 < setup.wc
  BY <1>0 DEF Worker, LaneOK, MessageLane, HasRoom
<1>5. /\ LaneOK(u.wc, "wc", setup.wc) /\ DOMAIN u.wc.q = 1 .. Len(s.wc.q) + 1
      /\ Len(u.wc.q) = Len(s.wc.q) + 1
      /\ \A i \in DOMAIN s.wc.q : u.wc.q[i] = s.wc.q[i]
      /\ u.wc.q[Len(s.wc.q) + 1] = r
  BY <1>0, <1>1, <1>4, PutLane
<1>6. SequencesOK(u.wc)
  <2> SUFFICES ASSUME NEW i \in DOMAIN u.wc.q PROVE u.wc.q[i].sequence <= setup.maxSequence
    BY DEF SequencesOK
  <2>1. CASE i \in DOMAIN s.wc.q
    BY <1>4, <1>5, <2>1 DEF SequencesOK
  <2>2. CASE i \notin DOMAIN s.wc.q
    <3>1. u.wc.q[i] = r
      BY <1>4, <1>5, <2>2
    <3> QED
      BY <3>1
  <2> QED
    BY <2>1, <2>2
<1>7. GapOK(u.w, u.wc)
  BY <1>0, <1>2, <1>4, <1>5 DEF Worker, GapOK, HasRoom, SameWorker
<1>8. Worker(u)
  BY <1>1, <1>3, <1>5, <1>6, <1>7 DEF Worker
<1>9. Adds(s.wc.q, r, Put(s.wc, r).q)
  <2>1. LaneOK(s.wc, "wc", setup.wc) /\ Len(s.wc.q) < setup.wc
    BY <1>4
  <2> QED
    BY <1>0, <2>1, PutMentions
<1>10. OneMoreAck(s.wc.q, u.wc.q, r.plan)
  BY <1>1, <1>9, Zenon DEF OneMoreAck, Adds
<1>11. SameHoldings(s.w, u.w)
  BY <1>2 DEF SameHoldings, SameWorker
<1>12. WorkerPosts(s, u, r.plan)
  BY <1>8, <1>10, <1>11 DEF WorkerPosts
<1> QED
  BY <1>12 DEF u

LEMMA PostRetiredPosts ==
  ASSUME NEW s, Worker(s), setup \in Setups, NEW plan \in Positive, NEW until \in Positive, NEW time \in Positive
  PROVE  LET posted == PostRetired(s, plan, until, time)
         IN  /\ posted = [s |-> posted.s, ok |-> posted.ok] /\ posted.ok \in BOOLEAN
             /\ posted.ok => WorkerPosts(s, posted.s, plan)
             /\ ~posted.ok => WorkerKeeps(s, posted.s)
<1> DEFINE posted == PostRetired(s, plan, until, time)
<1>0. setup.wc \in Nat /\ setup.maxSequence \in Positive
  BY SetupFacts DEF Positive
<1>1. CASE ~HasRoom(s.wc, setup.wc, ReservedSlots)
  <2>1. posted = [s |-> RaiseLocalGap(s, "ControlSaturated"), ok |-> FALSE]
    BY <1>1 DEF PostRetired
  <2>2. WorkerKeeps(s, RaiseLocalGap(s, "ControlSaturated"))
    BY RaiseLocalGapKeeps DEF Reasons
  <2> HIDE DEF posted
  <2>3. posted.s = RaiseLocalGap(s, "ControlSaturated") /\ posted.ok = FALSE
    BY <2>1
  <2>4. posted = [s |-> posted.s, ok |-> posted.ok]
    BY <2>1, <2>3
  <2>5. WorkerKeeps(s, posted.s)
    BY <2>2, <2>3
  <2> QED
    BY <2>3, <2>4, <2>5 DEF posted
<1>2. CASE HasRoom(s.wc, setup.wc, ReservedSlots) /\ ~CanAllocate(s.w)
  <2> DEFINE t == RaiseGap(s, "Counter", setup.maxSequence, time)
  <2>1. posted = [s |-> t, ok |-> FALSE]
    BY <1>2 DEF PostRetired
  <2>2. WorkerKeeps(s, t)
    <3>1. setup.maxSequence \in 1 .. setup.maxSequence /\ setup.maxSequence \in Nat /\ "Counter" \in Reasons
      BY <1>0 DEF Positive, Reasons
    <3> QED
      BY <1>0, <3>1, RaiseGapKeeps
  <2> HIDE DEF posted, t
  <2>3. posted.s = t /\ posted.ok = FALSE
    BY <2>1
  <2>4. posted = [s |-> posted.s, ok |-> posted.ok]
    BY <2>1, <2>3
  <2>5. WorkerKeeps(s, posted.s)
    BY <2>2, <2>3
  <2> QED
    BY <2>3, <2>4, <2>5 DEF posted
<1>3. CASE HasRoom(s.wc, setup.wc, ReservedSlots) /\ CanAllocate(s.w)
  <2> DEFINE a == [s EXCEPT !.w = AfterSequence(@)]
             r == Record("acknowledge", plan, 0, until, s.w.nextSequence, time)
             t == PutControl(a, r)
  <2>1. posted = [s |-> t, ok |-> TRUE]
    BY <1>3 DEF PostRetired
  <2>2. WorkerKeeps(s, a) /\ a.wc = s.wc
    BY <1>0, AfterSequenceKeeps DEF Worker
  <2>3. r \in Message /\ WellFormed(r, "wc") /\ r.kind = "acknowledge" /\ r.sequence <= setup.maxSequence /\ r.plan = plan
    <3>1. s.w.nextSequence \in 1 .. setup.maxSequence
      BY DEF Worker, WorkerOK
    <3> QED
      BY <1>0, <3>1 DEF Message, Record, WellFormed, Shape, KindOnLane, Kinds, Positive
  <2> HIDE DEF posted, a, r
  <2>4. WorkerPosts(a, t, plan)
    BY <1>3, <2>2, <2>3, PutAck DEF WorkerKeeps, ReservedSlots
  <2>5. WorkerPosts(s, t, plan)
    BY <2>2, <2>4, KeepsThenPosts
  <2> HIDE DEF t
  <2>6. posted.s = t /\ posted.ok = TRUE
    BY <2>1
  <2>7. posted = [s |-> posted.s, ok |-> posted.ok]
    BY <2>1, <2>6
  <2>8. WorkerPosts(s, posted.s, plan)
    BY <2>5, <2>6
  <2> QED
    BY <2>6, <2>7, <2>8 DEF posted
<1> QED
  BY <1>1, <1>2, <1>3

LEMMA ClockFaultKeeps ==
  ASSUME NEW s, Worker(s), setup \in Setups
  PROVE  WorkerKeeps(s, ClockFault(s))
<1> DEFINE t == [s EXCEPT !.w.closed = TRUE]
<1>1. DOMAIN t = {"w", "wc"} /\ t.wc = s.wc /\ SameWorker(s.w, t.w) /\ t.w.last \in Nat
  BY DEF Worker, WorkerOK, SameWorker, WorkerFields
<1>2. ClockFault(s) = RaiseLocalGap(t, "Clock")
  BY DEF ClockFault
<1> HIDE DEF t
<1>3. WorkerKeeps(s, t)
  BY <1>1, SameWorkerKeeps
<1>4. WorkerKeeps(t, RaiseLocalGap(t, "Clock"))
  BY <1>3, RaiseLocalGapKeeps DEF WorkerKeeps, Reasons
<1> QED
  BY <1>2, <1>3, <1>4, WorkerKeepsTrans

LEMMA ZeroFaultKeeps ==
  ASSUME NEW s, Worker(s), setup \in Setups
  PROVE  WorkerKeeps(s, ZeroFault(s))
  BY RaiseLocalGapKeeps DEF ZeroFault, Reasons

LEMMA HereIs ==
  ASSUME IpcInv
  PROVE  Worker(Here) /\ Here.w = w /\ Here.wc = wc /\ setup \in Setups
  BY DEF Here, IpcInv, IpcState, ClockOK, Worker

LEMMA ServicedKeeps ==
  ASSUME IpcInv
  PROVE  WorkerKeeps(Here, Serviced)
<1> DEFINE t == [Here EXCEPT !.w.progress = Progress(wc, @, wpc.reading)]
<1>1. DOMAIN t = {"w", "wc"} /\ t.wc = wc /\ SameWorker(w, t.w) /\ t.w.last \in Nat
  BY HereIs DEF Here, Worker, WorkerOK, SameWorker, WorkerFields
<1>2. Serviced \in {Here, RaiseLocalGap(t, "ControlDeadline"), t}
  BY Zenon DEF Serviced
<1> HIDE DEF t
<1>3. WorkerKeeps(Here, t)
  BY <1>1, HereIs, SameWorkerKeeps
<1>4. WorkerKeeps(t, RaiseLocalGap(t, "ControlDeadline"))
  BY <1>3, HereIs, RaiseLocalGapKeeps DEF WorkerKeeps, Reasons
<1>5. WorkerKeeps(Here, RaiseLocalGap(t, "ControlDeadline"))
  BY <1>3, <1>4, WorkerKeepsTrans
<1> QED
  BY <1>2, <1>3, <1>5, HereIs, WorkerKeepsSelf

-----------------------------------------------------------------------------
(* The worker's steps.                                                     *)

LEMMA WorkerReplaced ==
  ASSUME NEW tick, NEW number, NEW a, NEW b, NEW c, NEW d, NEW x, NEW y, NEW hp, NEW wp, NEW lost, NEW done,
         IpcState(tick, number, a, b, c, d, x, y, hp, wp, lost, done),
         NEW s, s.w = y, s.wc = b, NEW t, WorkerKeeps(s, t)
  PROVE  IpcState(tick, number, a, t.wc, c, d, x, t.w, hp, wp, lost, done)
<1>1. /\ WorkerOK(t.w) /\ LaneOK(t.wc, "wc", setup.wc) /\ SequencesOK(t.wc) /\ GapOK(t.w, t.wc)
      /\ SameHoldings(y, t.w) /\ SameAcks(b.q, t.wc.q)
  BY DEF WorkerKeeps, Worker
<1>2. PcOK(hp, wp, t.w)
  BY <1>1 DEF IpcState, PcOK, SameHoldings
<1>3. StopOK(x, t.w, a)
  BY <1>1 DEF IpcState, StopOK, SameHoldings
<1>4. ASSUME NEW n \in Positive
      PROVE  LifeOf(x, t.w, a.q, t.wc.q, lost, n) /\ Unused(x, t.w, a.q, t.wc.q, n)
  <2>1. LifeOf(x, y, a.q, b.q, lost, n) /\ Unused(x, y, a.q, b.q, n)
    BY <1>4 DEF IpcState
  <2>2. /\ Holds(t.w, n) <=> Holds(y, n)
        /\ Revoked(t.w, n) <=> Revoked(y, n)
        /\ Mentions(t.wc.q, "acknowledge", n) <=> Mentions(b.q, "acknowledge", n)
        /\ t.w.alive = y.alive /\ t.w.detached = y.detached
    BY <1>1 DEF Holds, Revoked, SameHoldings, SameAcks
  <2>3. LifeOf(x, t.w, a.q, t.wc.q, lost, n)
    BY <2>1, <2>2, Zenon DEF LifeOf, Life
  <2> QED
    BY <2>1, <2>2, <2>3 DEF Unused
<1>5. TokensOK(x, t.w, c.q, done)
  BY <1>1 DEF IpcState, TokensOK, SameHoldings
<1> QED
  BY <1>1, <1>2, <1>3, <1>4, <1>5, Zenon DEF IpcState

WpcFields == {"at", "op", "plan", "budget", "reading", "fenced"}

LEMMA WpcReplaced ==
  ASSUME NEW tick, NEW number, NEW a, NEW b, NEW c, NEW d, NEW x, NEW y, NEW hp, NEW wp, NEW lost, NEW done,
         IpcState(tick, number, a, b, c, d, x, y, hp, wp, lost, done), NEW z,
         DOMAIN z = WpcFields, z.at \in {"idle", "drain", "act"},
         z.at # "idle" => z.reading \in Positive /\ y.alive /\ ~y.detached
  PROVE  IpcState(tick, number, a, b, c, d, x, y, hp, z, lost, done)
  BY Zenon DEF IpcState, PcOK, WpcFields

LEMMA ServeInv ==
  ASSUME IpcInv, NEW op, NEW plan, Serve(op, plan)
  PROVE  IpcInv' /\ (w'.active = w.active \/ w'.active = NoCommand)
<1>1. now \in Nat /\ now \in Positive /\ WorkerOK(w) /\ w.alive /\ ~w.detached
  BY SetupFacts DEF IpcInv, IpcState, ClockOK, Positive, Serve, WorkerIsIdle, Higher
<1>2. PICK t \in {Ticked(Here), ClockFault(Here), ZeroFault(Here)} : w' = t.w /\ wc' = t.wc
  BY DEF Serve, WorkerBecomes, ClockRefuses
<1>3. WorkerKeeps(Here, t)
  BY <1>1, <1>2, HereIs, TickedKeeps, ClockFaultKeeps, ZeroFaultKeeps
<1>4. IpcState(now, stream, hc, wc', hd, wd, h, w', hpc, wpc, overtaken, started)
  BY <1>2, <1>3, HereIs, WorkerReplaced DEF IpcInv
<1>5. w'.alive = w.alive /\ w'.detached = w.detached /\ (w'.active = w.active \/ w'.active = NoCommand)
  BY <1>2, <1>3, HereIs DEF WorkerKeeps, SameHoldings
<1>6. DOMAIN wpc' = WpcFields /\ wpc'.at = "drain" /\ wpc'.reading \in Positive
  BY <1>1, TrustedTickType DEF Serve, WpcFields, WorkerOK
<1>7. IpcState(now, stream, hc, wc', hd, wd, h, w', hpc, wpc', overtaken, started)
  BY <1>1, <1>4, <1>5, <1>6, WpcReplaced
<1> QED
  BY <1>5, <1>7, IpcKept DEF Serve

LEMMA DrainEndsInv ==
  ASSUME IpcInv, DrainEnds
  PROVE  IpcInv' /\ w' = w
<1>1. PcOK(hpc, wpc, w) /\ wpc.at = "drain"
  BY DEF IpcInv, IpcState, DrainEnds
<1>2. DOMAIN wpc' = WpcFields /\ wpc'.at = "act" /\ wpc'.reading = wpc.reading
  BY <1>1 DEF PcOK, DrainEnds, WpcFields
<1>3. IpcState(now, stream, hc, wc, hd, wd, h, w, hpc, wpc', overtaken, started)
  BY <1>1, <1>2, WpcReplaced DEF IpcInv, PcOK
<1> QED
  BY <1>3, IpcKept DEF DrainEnds, lanes

\* The worker has done its part and is idle again.
LEMMA Returned ==
  ASSUME NEW tick, NEW number, NEW a, NEW b, NEW c, NEW d, NEW x, NEW y, NEW hp, NEW wp, NEW lost, NEW done,
         IpcState(tick, number, a, b, c, d, x, y, hp, wp, lost, done)
  PROVE  IpcState(tick, number, a, b, c, d, x, y, hp, WorkerIdle, lost, done)
<1>1. DOMAIN WorkerIdle = WpcFields /\ WorkerIdle.at = "idle"
  BY DEF WorkerIdle, WpcFields
<1> QED
  BY <1>1, WpcReplaced

LEMMA ServiceOnlyInv ==
  ASSUME IpcInv, ServiceOnly
  PROVE  IpcInv' /\ (w'.active = w.active \/ w'.active = NoCommand)
<1>1. WorkerKeeps(Here, Serviced) /\ w' = Serviced.w /\ wc' = Serviced.wc
  BY ServicedKeeps DEF ServiceOnly, WorkerBecomes
<1>2. IpcState(now, stream, hc, wc', hd, wd, h, w', hpc, wpc, overtaken, started)
  BY <1>1, HereIs, WorkerReplaced DEF IpcInv
<1>3. IpcState(now, stream, hc, wc', hd, wd, h, w', hpc, WorkerIdle, overtaken, started)
  BY <1>2, Returned
<1>4. w'.active = w.active \/ w'.active = NoCommand
  BY <1>1, HereIs DEF WorkerKeeps, SameHoldings
<1> QED
  BY <1>3, <1>4, IpcKept DEF ServiceOnly, Returns

LEMMA DropActiveKeeps ==
  ASSUME NEW s, Worker(s), NEW v, v = s.w.active \/ v = NoCommand, NEW t, t = [s EXCEPT !.w.active = v]
  PROVE  WorkerKeeps(s, t)
<1>1. /\ DOMAIN t = {"w", "wc"} /\ t.wc = s.wc /\ DOMAIN t.w = WorkerFields
      /\ t.w.active = v /\ t.w.fence = s.w.fence
      /\ t.w.gapLatched = s.w.gapLatched /\ t.w.gapWritten = s.w.gapWritten
      /\ t.w.alive = s.w.alive /\ t.w.detached = s.w.detached /\ t.w.tokenFloor = s.w.tokenFloor
      /\ t.w.nextSequence = s.w.nextSequence /\ t.w.adopted = s.w.adopted /\ t.w.refused = s.w.refused
      /\ t.w.last = s.w.last
  BY DEF Worker, WorkerOK, WorkerFields
<1>2. ActiveOK(t.w)
  BY <1>1, ActiveKept, ActiveDropped DEF Worker, WorkerOK
<1>3. WorkerOK(t.w)
  BY <1>1, <1>2 DEF Worker, WorkerOK
<1>4. GapOK(t.w, t.wc)
  BY <1>1 DEF Worker, GapOK
<1>5. Worker(t)
  BY <1>1, <1>3, <1>4 DEF Worker
<1>6. SameHoldings(s.w, t.w) /\ SameAcks(s.wc.q, t.wc.q)
  BY <1>1 DEF SameHoldings, SameAcks
<1> QED
  BY <1>5, <1>6 DEF WorkerKeeps

LEMMA AdmitOutputInv ==
  ASSUME IpcInv, AdmitOutput
  PROVE  IpcInv' /\ (w'.active = w.active \/ w'.active = NoCommand)
<1> DEFINE s == Serviced
           v == IF WorkerOpen(s.w) /\ PlanHeld(s.w, s.w.active.plan) /\ ~Live(s.w.active, wpc.reading)
                THEN NoCommand ELSE s.w.active
           t == [s EXCEPT !.w.active = v]
<1>1. w' = t.w /\ wc' = t.wc
  BY DEF AdmitOutput, WorkerBecomes
<1>2. WorkerKeeps(Here, s)
  BY ServicedKeeps
<1>3. v = s.w.active \/ v = NoCommand
  OBVIOUS
<1> HIDE DEF s, v
<1>4. WorkerKeeps(s, t)
  BY <1>2, <1>3, DropActiveKeeps DEF WorkerKeeps
<1> HIDE DEF t
<1>5. WorkerKeeps(Here, t)
  BY <1>2, <1>4, WorkerKeepsTrans
<1>6. IpcState(now, stream, hc, wc', hd, wd, h, w', hpc, wpc, overtaken, started)
  BY <1>1, <1>5, HereIs, WorkerReplaced DEF IpcInv
<1>7. IpcState(now, stream, hc, wc', hd, wd, h, w', hpc, WorkerIdle, overtaken, started)
  BY <1>6, Returned
<1>8. w'.active = w.active \/ w'.active = NoCommand
  BY <1>1, <1>5, HereIs DEF WorkerKeeps, SameHoldings
<1> QED
  BY <1>7, <1>8, IpcKept DEF AdmitOutput, Returns

\* The worker's retirement of a plan it holds: the retirement takes the plan's place.
LEMMA RetireState ==
  ASSUME NEW a, NEW x, NEW y, NEW b, NEW lost, NEW n0 \in Positive, NEW a2, NEW y2, NEW b2,
         \A n \in Positive : LifeOf(x, y, a.q, b.q, lost, n) /\ Unused(x, y, a.q, b.q, n),
         x.planFloor \in Nat,
         Holds(y, n0), ~Mentions(a.q, "publish", n0), ~Mentions(a2.q, "revoke", n0),
         Mentions(a.q, "revoke", n0) \/ Revoked(y, n0),
         \A n : Mentions(a2.q, "publish", n) <=> Mentions(a.q, "publish", n),
         \A n : n # n0 => (Mentions(a2.q, "revoke", n) <=> Mentions(a.q, "revoke", n)),
         y2.alive = y.alive, y2.detached = y.detached, OneMoreAck(b.q, b2.q, n0),
         \A n : Holds(y2, n) <=> Holds(y, n) /\ n # n0,
         \A n : n # n0 => (Revoked(y2, n) <=> Revoked(y, n))
  PROVE  \A n \in Positive : LifeOf(x, y2, a2.q, b2.q, lost, n) /\ Unused(x, y2, a2.q, b2.q, n)
<1> TAKE n \in Positive
<1>1. LifeOf(x, y, a.q, b.q, lost, n) /\ Unused(x, y, a.q, b.q, n)
  OBVIOUS
<1>2. Mentions(b2.q, "acknowledge", n) <=> Mentions(b.q, "acknowledge", n) \/ n = n0
  BY DEF OneMoreAck
<1>3. Mentions(a2.q, "publish", n) <=> Mentions(a.q, "publish", n)
  OBVIOUS
<1>4. Holds(y2, n) <=> Holds(y, n) /\ n # n0
  OBVIOUS
<1>5. CASE n = n0
  <2>1. ~Revoked(y2, n)
    BY <1>4, <1>5 DEF Revoked, Holds
  <2>2. LifeOf(x, y2, a2.q, b2.q, lost, n)
    BY <1>1, <1>2, <1>3, <1>4, <1>5, <2>1, Zenon DEF LifeOf, Life
  <2>3. ~(n > x.planFloor)
    BY <1>1, <1>5 DEF Unused
  <2> QED
    BY <2>2, <2>3 DEF Unused
<1>6. CASE n # n0
  <2>1. (Mentions(a2.q, "revoke", n) <=> Mentions(a.q, "revoke", n)) /\ (Revoked(y2, n) <=> Revoked(y, n))
    BY <1>6
  <2>2. LifeOf(x, y2, a2.q, b2.q, lost, n)
    BY <1>1, <1>2, <1>3, <1>4, <1>6, <2>1, Zenon DEF LifeOf, Life
  <2> QED
    BY <1>1, <1>2, <1>3, <1>4, <1>6, <2>1, <2>2 DEF Unused
<1> QED
  BY <1>5, <1>6

\* Taking plans off the worker's lists.
LEMMA FewerPlans ==
  ASSUME NEW adopted, NEW refused, AdoptedOK(adopted, refused), NEW A, A \subseteq adopted,
         NEW R, R \subseteq refused, setup.maxPlans \in Nat
  PROVE  AdoptedOK(A, R)
<1>1. IsFiniteSet(A) /\ IsFiniteSet(R) /\ Cardinality(A) <= Cardinality(adopted)
  BY FS_Subset DEF AdoptedOK
<1>2. Cardinality(A) \in Nat /\ Cardinality(adopted) \in Nat
  BY <1>1, FS_CardinalityType DEF AdoptedOK
<1>3. Cardinality(A) <= setup.maxPlans
  BY <1>1, <1>2 DEF AdoptedOK
<1> QED
  BY <1>1, <1>3 DEF AdoptedOK, OnePerPlan

LEMMA AcknowledgeRevocationInv ==
  ASSUME IpcInv, AcknowledgeRevocation
  PROVE  IpcInv' /\ (w'.active = w.active \/ w'.active = NoCommand)
<1>0. WorkerKeeps(Here, Serviced) /\ setup \in Setups /\ setup.maxPlans \in Nat
  <2>1. WorkerKeeps(Here, Serviced) /\ setup \in Setups
    BY ServicedKeeps, HereIs
  <2>2. setup.maxPlans \in Nat
    BY <2>1, SetupFacts DEF Positive
  <2> QED
    BY <2>1, <2>2
<1>2. wpc.reading \in Positive
  BY DEF IpcInv, IpcState, PcOK, AcknowledgeRevocation
<1>3. SUFFICES /\ IpcState(now, stream, hc, wc', hd, wd, h, w', hpc, wpc, overtaken, started)
               /\ w'.active = w.active \/ w'.active = NoCommand
  <2>1. IpcState(now, stream, hc, wc', hd, wd, h, w', hpc, WorkerIdle, overtaken, started)
    BY <1>3, Returned, ZenonT(40)
  <2>2. /\ now' = now /\ stream' = stream /\ hc' = hc /\ hd' = hd /\ wd' = wd /\ h' = h /\ hpc' = hpc
        /\ wpc' = WorkerIdle /\ overtaken' = overtaken /\ started' = started /\ setup' = setup
    BY DEF AcknowledgeRevocation, Returns
  <2> QED
    <3>1. IpcInv'
      BY <2>1, <2>2, IpcKept
    <3> QED
      BY <1>3, <3>1, Zenon
<1>4. ASSUME NEW t, WorkerKeeps(Here, t), w' = t.w, wc' = t.wc
      PROVE  /\ IpcState(now, stream, hc, wc', hd, wd, h, w', hpc, wpc, overtaken, started)
             /\ w'.active = w.active \/ w'.active = NoCommand
  <2>1. IpcState(now, stream, hc, wc', hd, wd, h, w', hpc, wpc, overtaken, started)
    BY <1>4, HereIs, WorkerReplaced, Zenon DEF IpcInv
  <2>2. w'.active = w.active \/ w'.active = NoCommand
    BY <1>4, HereIs DEF WorkerKeeps, SameHoldings
  <2> QED
    BY <2>1, <2>2, Zenon
<1> DEFINE s == Serviced
           held == {p \in s.w.adopted : p.plan = wpc.plan /\ p.revoked}
           p == CHOOSE p \in held : TRUE
           posted == PostRetired(s, p.plan, p.until, wpc.reading)
<1>s. WorkerKeeps(Here, s)
  BY <1>0
<1>1. /\ w' = (IF held = {} THEN s ELSE IF posted.ok THEN [posted.s EXCEPT !.w.adopted = @ \ held] ELSE posted.s).w
      /\ wc' = (IF held = {} THEN s ELSE IF posted.ok THEN [posted.s EXCEPT !.w.adopted = @ \ held] ELSE posted.s).wc
  BY ZenonT(40) DEF AcknowledgeRevocation, WorkerBecomes
<1>5. CASE held = {}
  BY <1>0, <1>1, <1>4, <1>5
<1>6. CASE held # {}
  <2>1. p \in held /\ p \in s.w.adopted /\ p.plan = wpc.plan /\ p.revoked
    BY <1>6
  <2>2. AdoptedOK(s.w.adopted, s.w.refused) /\ p \in WorkerPlan /\ p.plan \in Positive /\ p.until \in Positive
    BY <1>s, <2>1 DEF WorkerKeeps, Worker, WorkerOK, AdoptedOK, WorkerPlan
  <2> HIDE DEF p, s
  <2>3. /\ posted.ok \in BOOLEAN
        /\ posted.ok => WorkerPosts(s, posted.s, p.plan)
        /\ ~posted.ok => WorkerKeeps(s, posted.s)
    BY <1>0, <1>s, <1>2, <2>2, PostRetiredPosts DEF WorkerKeeps
  <2>4. CASE ~posted.ok
    <3>1. WorkerKeeps(Here, posted.s)
      BY <1>s, <2>3, <2>4, WorkerKeepsTrans
    <3> HIDE DEF held, posted
    <3>2. w' = posted.s.w /\ wc' = posted.s.wc
      BY <1>1, <1>6, <2>4
    <3> QED
      BY <1>4, <3>1, <3>2
  <2>5. CASE posted.ok
    <3> DEFINE u == posted.s
               t == [u EXCEPT !.w.adopted = @ \ held]
    <3>1. WorkerPosts(Here, u, p.plan)
      BY <1>s, <2>3, <2>5, KeepsThenPosts
    <3>2. w' = t.w /\ wc' = t.wc
      BY <1>1, <1>6, <2>5
    <3>h. \A q : q \in held <=> q \in s.w.adopted /\ q.plan = p.plan /\ q.revoked
      BY <2>1
    <3> HIDE DEF u, held
    <3>3. /\ DOMAIN w' = WorkerFields /\ wc' = u.wc /\ w'.adopted = u.w.adopted \ held
          /\ w'.active = u.w.active /\ w'.fence = u.w.fence
          /\ w'.gapLatched = u.w.gapLatched /\ w'.gapWritten = u.w.gapWritten
          /\ w'.alive = u.w.alive /\ w'.detached = u.w.detached /\ w'.tokenFloor = u.w.tokenFloor
          /\ w'.nextSequence = u.w.nextSequence /\ w'.refused = u.w.refused /\ w'.last = u.w.last
      BY <3>1, <3>2 DEF WorkerPosts, Worker, WorkerOK, WorkerFields
    <3>4. /\ Worker(u) /\ SameHoldings(w, u.w) /\ OneMoreAck(wc.q, u.wc.q, p.plan)
          /\ s.w.adopted = w.adopted /\ s.w.refused = w.refused
      BY <1>s, <3>1, HereIs DEF WorkerPosts, WorkerKeeps, SameHoldings
    <3> HIDE DEF t
    <3>5. AdoptedOK(w'.adopted, w'.refused)
      BY <1>0, <3>3, <3>4, FewerPlans DEF Worker, WorkerOK
    <3>6. ActiveOK(w')
      <4>1. ASSUME NEW plan, PlanHeld(u.w, plan) PROVE PlanHeld(w', plan)
        <5>1. PICK q \in u.w.adopted : q.plan = plan /\ ~q.revoked
          BY <4>1 DEF PlanHeld
        <5>2. q \in w'.adopted
          BY <3>3, <3>h, <5>1
        <5> QED
          BY <5>1, <5>2 DEF PlanHeld
      <4> QED
        BY <3>3, <3>4, <4>1 DEF Worker, WorkerOK, ActiveOK
    <3>7. WorkerOK(w')
      BY <3>3, <3>4, <3>5, <3>6 DEF Worker, WorkerOK
    <3>8. GapOK(w', wc') /\ LaneOK(wc', "wc", setup.wc) /\ SequencesOK(wc')
      BY <3>3, <3>4 DEF Worker, GapOK
    <3>9. /\ \A n : Holds(w', n) <=> Holds(w, n) /\ n # p.plan
          /\ \A n : n # p.plan => (Revoked(w', n) <=> Revoked(w, n))
      <4>1. w'.adopted = w.adopted \ held /\ w'.refused = w.refused
        BY <3>3, <3>4 DEF SameHoldings
      <4>2. \A q : q \in held <=> q \in w.adopted /\ q.plan = p.plan
        <5>1. OnePerPlan(w.adopted) /\ p \in w.adopted /\ p.revoked
          BY <2>1, <2>2, <3>4 DEF AdoptedOK
        <5> QED
          BY <3>4, <3>h, <5>1 DEF OnePerPlan
      <4>3. \A q \in w.refused : q.plan # p.plan
        BY <2>1, <2>2, <3>4 DEF AdoptedOK
      <4>4. \A q : q \in w'.adopted <=> q \in w.adopted /\ q.plan # p.plan
        BY <4>1, <4>2
      <4>5. ASSUME NEW n PROVE Holds(w', n) <=> Holds(w, n) /\ n # p.plan
        BY <4>1, <4>3, <4>4, Zenon DEF Holds
      <4>6. ASSUME NEW n, n # p.plan PROVE Revoked(w', n) <=> Revoked(w, n)
        BY <4>4, <4>6, Zenon DEF Revoked
      <4> QED
        BY <4>5, <4>6
    <3>10. Holds(w, p.plan) /\ Revoked(w, p.plan)
      BY <2>1, <3>4 DEF Holds, Revoked
    <3>11. ~Mentions(hc.q, "publish", p.plan) /\ ~Mentions(hc.q, "revoke", p.plan)
      <4>1. LifeOf(h, w, hc.q, wc.q, overtaken, p.plan)
        BY <2>2 DEF IpcInv, IpcState
      <4> QED
        BY <3>10, <4>1, Zenon DEF LifeOf, Life
    <3>12. \A n \in Positive : LifeOf(h, w', hc.q, wc'.q, overtaken, n) /\ Unused(h, w', hc.q, wc'.q, n)
      <4>1. /\ \A n \in Positive : LifeOf(h, w, hc.q, wc.q, overtaken, n) /\ Unused(h, w, hc.q, wc.q, n)
            /\ h.planFloor \in Nat
        BY DEF IpcInv, IpcState, HostOK
      <4>2. w'.alive = w.alive /\ w'.detached = w.detached /\ OneMoreAck(wc.q, wc'.q, p.plan)
        BY <3>3, <3>4 DEF SameHoldings
      <4> QED
        BY <2>2, <3>9, <3>10, <3>11, <4>1, <4>2, RetireState
    <3>13. PcOK(hpc, wpc, w') /\ StopOK(h, w', hc) /\ TokensOK(h, w', hd.q, started)
      <4>1. /\ w'.alive = w.alive /\ w'.detached = w.detached /\ (w.fence # "None" => w'.fence # "None")
            /\ w'.tokenFloor = w.tokenFloor
        BY <3>3, <3>4 DEF SameHoldings
      <4> QED
        BY <4>1 DEF IpcInv, IpcState, PcOK, StopOK, TokensOK
    <3>14. IpcState(now, stream, hc, wc', hd, wd, h, w', hpc, wpc, overtaken, started)
      BY <3>7, <3>8, <3>12, <3>13, Zenon DEF IpcInv, IpcState
    <3> QED
      BY <3>3, <3>4, <3>14 DEF SameHoldings
  <2> QED
    BY <2>3, <2>4, <2>5
<1> QED
  BY <1>5, <1>6

\* The worker's fence is closed when the stop has been taken off the lane.
LEMMA TakeStop ==
  ASSUME NEW lane, setup.hc \in Nat, LaneOK(lane, "hc", setup.hc), lane.q # <<>>,
         NEW x, NEW y, NEW z, StopOK(x, y, lane), x.stopIndex \in Nat, z.alive = y.alive,
         y.fence # "None" => z.fence # "None", Head(lane.q).kind = "stop" => z.fence # "None"
  PROVE  StopOK(x, z, Take(lane))
<1>1. lane.q \in Seq(Message) /\ Len(lane.q) \in Nat /\ DOMAIN lane.q = 1 .. Len(lane.q) /\ lane.read \in Nat
  BY DEF LaneOK, MessageLane
<1>2. /\ Take(lane).read = lane.read + 1 /\ Len(Take(lane).q) = Len(lane.q) - 1 /\ Len(lane.q) > 0
      /\ DOMAIN Take(lane).q = 1 .. Len(lane.q) - 1
      /\ \A i \in DOMAIN Take(lane).q : Take(lane).q[i] = lane.q[i + 1]
      /\ Head(lane.q) = lane.q[1]
  BY TakeLane
<1>3. ~x.stopSent => HasRoom(Take(lane), setup.hc, 0)
  BY <1>1, <1>2 DEF HasRoom, LaneOK
<1>4. ASSUME x.stopSent, lane.read + 1 <= x.stopIndex
      PROVE  /\ x.stopIndex - (lane.read + 1) + 1 <= Len(Take(lane).q)
             /\ Take(lane).q[x.stopIndex - (lane.read + 1) + 1].kind = "stop"
  <2>1. /\ x.stopIndex - lane.read + 1 <= Len(lane.q)
        /\ lane.q[x.stopIndex - lane.read + 1].kind = "stop"
    BY <1>1, <1>4 DEF StopOK
  <2>2. /\ x.stopIndex - (lane.read + 1) + 1 \in DOMAIN Take(lane).q
        /\ x.stopIndex - (lane.read + 1) + 1 <= Len(Take(lane).q)
        /\ (x.stopIndex - (lane.read + 1) + 1) + 1 = x.stopIndex - lane.read + 1
    BY <1>1, <1>2, <1>4, <2>1
  <2> QED
    BY <1>2, <2>1, <2>2
<1>5. ASSUME x.stopSent, ~(lane.read + 1 <= x.stopIndex)
      PROVE  z.fence # "None"
  <2>1. CASE lane.read = x.stopIndex
    <3>1. x.stopIndex - lane.read + 1 = 1
      BY <1>1, <2>1
    <3>2. lane.q[1].kind = "stop"
      BY <1>1, <1>5, <2>1, <3>1 DEF StopOK
    <3> QED
      BY <1>2, <3>2
  <2>2. CASE lane.read # x.stopIndex
    <3>1. ~(lane.read <= x.stopIndex)
      BY <1>1, <1>5, <2>2
    <3> QED
      BY <1>5, <3>1 DEF StopOK
  <2> QED
    BY <2>1, <2>2
<1>6. ~(x.detached /\ z.alive)
  BY DEF StopOK
<1> QED
  BY <1>2, <1>3, <1>4, <1>5, <1>6 DEF StopOK

\* A record of host control was handled: y is the worker it leaves, b its control lane.
LEMMA DrainState ==
  ASSUME IpcInv, hc.q # <<>>, NEW y, NEW b,
         WorkerOK(y), LaneOK(b, "wc", setup.wc), SequencesOK(b), GapOK(y, b),
         y.alive = w.alive, y.detached = w.detached, y.tokenFloor = w.tokenFloor,
         w.fence # "None" => y.fence # "None", Head(hc.q).kind = "stop" => y.fence # "None",
         \A n \in Positive : LifeOf(h, y, Take(hc).q, b.q, overtaken, n) /\ Unused(h, y, Take(hc).q, b.q, n)
  PROVE  IpcState(now, stream, Take(hc), b, hd, wd, h, y, hpc, wpc, overtaken, started)
<1>1. HostOK(h) /\ LaneOK(hc, "hc", setup.hc) /\ StopOK(h, w, hc) /\ InOrder(hc.q) /\ setup.hc \in Nat
  BY SetupFacts DEF IpcInv, IpcState, ClockOK
<1>2. LaneOK(Take(hc), "hc", setup.hc) /\ InOrder(Take(hc).q)
  BY <1>1, TakeLane, TakeInOrder
<1>3. StopOK(h, y, Take(hc))
  BY <1>1, TakeStop DEF HostOK
<1>4. PcOK(hpc, wpc, y) /\ TokensOK(h, y, hd.q, started)
  BY DEF IpcInv, IpcState, PcOK, TokensOK
<1> QED
  BY <1>2, <1>3, <1>4, Zenon DEF IpcInv, IpcState

\* What the head of host control says of the plan it is about.
LEMMA HeadOfHostControl ==
  ASSUME IpcInv, hc.q # <<>>, wpc.at = "drain"
  PROVE  /\ Head(hc.q) \in Message /\ Head(hc.q).kind \in {"publish", "revoke", "stop"}
         /\ Head(hc.q).kind # "stop" => Head(hc.q).plan \in Positive /\ Head(hc.q).until \in Positive
         /\ w.alive /\ ~w.detached /\ ~h.detached
         /\ wpc.reading \in Positive /\ DOMAIN wpc = WpcFields
<1>1. LaneOK(hc, "hc", setup.hc) /\ setup.hc \in Nat /\ StopOK(h, w, hc) /\ PcOK(hpc, wpc, w)
  BY SetupFacts DEF IpcInv, IpcState, ClockOK
<1>2. Head(hc.q) \in Message /\ WellFormed(Head(hc.q), "hc")
  BY <1>1, TakeLane
<1>3. Head(hc.q).kind \in {"publish", "revoke", "stop"}
  BY <1>2 DEF WellFormed, Shape, KindOnLane
<1>4. Head(hc.q).kind # "stop" => Head(hc.q).plan \in Positive /\ Head(hc.q).until \in Positive
  BY <1>2, <1>3 DEF WellFormed, Shape, KindOnLane, Message, Positive
<1>5. w.alive /\ ~w.detached /\ wpc.reading \in Positive /\ DOMAIN wpc = WpcFields
  BY <1>1 DEF PcOK, WpcFields
<1> QED
  BY <1>1, <1>2, <1>3, <1>4, <1>5 DEF StopOK

LEMMA StopHandled ==
  ASSUME IpcInv, hc.q # <<>>, wpc.at = "drain", NEW r, r = Head(hc.q), r.kind = "stop", NEW t, t = HandleStop(r).s
  PROVE  /\ IpcState(now, stream, Take(hc), t.wc, hd, wd, h, t.w, hpc, wpc, overtaken, started)
         /\ t.w.active = NoCommand
<1>1. Worker(Here) /\ LaneOK(hc, "hc", setup.hc) /\ setup.hc \in Nat /\ WorkerOK(w)
  BY HereIs, SetupFacts DEF IpcInv, IpcState
<1>2. /\ t.wc = wc /\ DOMAIN t.w = WorkerFields
      /\ t.w.active = NoCommand /\ t.w.fence \in Reasons \ {"None"}
      /\ t.w.gapLatched = w.gapLatched /\ t.w.gapWritten = w.gapWritten
      /\ t.w.alive = w.alive /\ t.w.detached = w.detached /\ t.w.tokenFloor = w.tokenFloor
      /\ t.w.nextSequence = w.nextSequence /\ t.w.adopted = w.adopted /\ t.w.refused = w.refused
      /\ t.w.last = w.last
  BY <1>1 DEF HandleStop, Here, WorkerClose, WorkerOK, WorkerFields, Reasons
<1>3. WorkerOK(t.w)
  <2>1. ActiveOK(t.w)
    BY <1>2, ActiveDropped
  <2> QED
    BY <1>1, <1>2, <2>1 DEF WorkerOK
<1>4. LaneOK(t.wc, "wc", setup.wc) /\ SequencesOK(t.wc) /\ GapOK(t.w, t.wc)
  BY <1>2 DEF IpcInv, IpcState, GapOK
<1>5. ASSUME NEW n \in Positive
      PROVE  LifeOf(h, t.w, Take(hc).q, wc.q, overtaken, n) /\ Unused(h, t.w, Take(hc).q, wc.q, n)
  <2>1. LifeOf(h, w, hc.q, wc.q, overtaken, n) /\ Unused(h, w, hc.q, wc.q, n)
    BY <1>5 DEF IpcInv, IpcState
  <2>2. /\ Mentions(Take(hc).q, "publish", n) <=> Mentions(hc.q, "publish", n)
        /\ Mentions(Take(hc).q, "revoke", n) <=> Mentions(hc.q, "revoke", n)
    BY <1>1, TakeMentions
  <2>3. (Holds(t.w, n) <=> Holds(w, n)) /\ (Revoked(t.w, n) <=> Revoked(w, n))
    BY <1>2 DEF Holds, Revoked
  <2>4. LifeOf(h, t.w, Take(hc).q, wc.q, overtaken, n)
    BY <1>2, <2>1, <2>2, <2>3, Zenon DEF LifeOf, Life
  <2> QED
    BY <2>1, <2>2, <2>3, <2>4 DEF Unused
<1>6. IpcState(now, stream, Take(hc), t.wc, hd, wd, h, t.w, hpc, wpc, overtaken, started)
  BY <1>2, <1>3, <1>4, <1>5, DrainState
<1> QED
  BY <1>2, <1>6

\* One plan of the worker's becomes a revoked one.
LEMMA AdoptedRevoked ==
  ASSUME NEW adopted, NEW refused, AdoptedOK(adopted, refused), setup.maxPlans \in Nat,
         NEW p \in adopted, NEW s \in WorkerPlan, s.plan = p.plan
  PROVE  AdoptedOK((adopted \ {p}) \cup {s}, refused)
<1>1. IsFiniteSet(adopted) /\ Cardinality(adopted) \in Nat /\ Cardinality(adopted) <= setup.maxPlans
  BY FS_CardinalityType DEF AdoptedOK
<1>2. IsFiniteSet(adopted \ {p}) /\ Cardinality(adopted \ {p}) = Cardinality(adopted) - 1
  BY <1>1, FS_RemoveElement
<1>3. /\ IsFiniteSet((adopted \ {p}) \cup {s})
      /\ \/ Cardinality((adopted \ {p}) \cup {s}) = Cardinality(adopted \ {p})
         \/ Cardinality((adopted \ {p}) \cup {s}) = Cardinality(adopted \ {p}) + 1
  BY <1>2, FS_AddElement
<1>4. Cardinality((adopted \ {p}) \cup {s}) <= setup.maxPlans
  BY <1>1, <1>2, <1>3
<1>5. OnePerPlan((adopted \ {p}) \cup {s})
  <2>1. OnePerPlan(adopted \ {p}) /\ \A q \in adopted \ {p} : q.plan # s.plan
    BY DEF AdoptedOK, OnePerPlan
  <2> QED
    BY <2>1, OneMorePlan
<1>6. \A q \in (adopted \ {p}) \cup {s}, o \in refused : q.plan # o.plan
  BY DEF AdoptedOK
<1> QED
  BY <1>3, <1>4, <1>5, <1>6 DEF AdoptedOK

LEMMA RevokedHeld ==
  ASSUME IpcInv, hc.q # <<>>, wpc.at = "drain", NEW r, r = Head(hc.q), r.kind = "revoke",
         NEW p \in w.adopted, p.plan = r.plan, NEW s \in WorkerPlan, s.plan = p.plan, s.revoked = TRUE,
         NEW y, DOMAIN y = WorkerFields, y.adopted = (w.adopted \ {p}) \cup {s},
         y.active = IF w.active.plan = r.plan THEN NoCommand ELSE w.active,
         y.fence = w.fence, y.gapLatched = w.gapLatched, y.gapWritten = w.gapWritten,
         y.alive = w.alive, y.detached = w.detached, y.tokenFloor = w.tokenFloor,
         y.nextSequence = w.nextSequence, y.refused = w.refused, y.last = w.last
  PROVE  IpcState(now, stream, Take(hc), wc, hd, wd, h, y, hpc, wpc, overtaken, started)
<1>1. /\ LaneOK(hc, "hc", setup.hc) /\ setup.hc \in Nat /\ WorkerOK(w) /\ setup.maxPlans \in Nat /\ InOrder(hc.q)
      /\ LaneOK(wc, "wc", setup.wc) /\ SequencesOK(wc) /\ GapOK(w, wc)
  BY HereIs, SetupFacts DEF IpcInv, IpcState, Positive
<1>2. r.plan \in Positive
  BY HeadOfHostControl
<1>3. AdoptedOK(y.adopted, y.refused)
  BY <1>1, AdoptedRevoked DEF WorkerOK
<1>4. \A q \in w.adopted : q.plan = p.plan => q = p
  BY <1>1 DEF WorkerOK, AdoptedOK, OnePerPlan
<1>5. ActiveOK(y)
  <2>1. CASE w.active.plan = r.plan
    BY <2>1, ActiveDropped
  <2>2. CASE w.active.plan # r.plan
    <3>1. ActiveOK(w) /\ y.active = w.active
      BY <1>1, <2>2 DEF WorkerOK
    <3>2. PlanHeld(w, w.active.plan) => PlanHeld(y, w.active.plan)
      BY <2>2 DEF PlanHeld
    <3> QED
      BY <3>1, <3>2 DEF ActiveOK
  <2> QED
    BY <2>1, <2>2
<1>6. WorkerOK(y)
  BY <1>1, <1>3, <1>5 DEF WorkerOK
<1>7. GapOK(y, wc)
  BY <1>1 DEF GapOK
<1>8. \A q : q \in y.adopted <=> (q \in w.adopted /\ q # p) \/ q = s
  BY Zenon
<1>9. /\ \A n : Holds(y, n) <=> Holds(w, n)
      /\ \A n : n # r.plan => (Revoked(y, n) <=> Revoked(w, n))
      /\ Revoked(y, r.plan) /\ Holds(w, r.plan)
  <2>1. ASSUME NEW n PROVE Holds(y, n) <=> Holds(w, n)
    BY <1>8, ZenonT(40) DEF Holds
  <2>2. ASSUME NEW n, n # r.plan PROVE Revoked(y, n) <=> Revoked(w, n)
    BY <1>8, <2>2, Zenon DEF Revoked
  <2>3. Revoked(y, r.plan) /\ Holds(w, r.plan)
    BY <1>8 DEF Holds, Revoked
  <2> QED
    BY <2>1, <2>2, <2>3
<1>10. /\ \A n : Mentions(Take(hc).q, "publish", n) <=> Mentions(hc.q, "publish", n)
       /\ \A n : n # r.plan => (Mentions(Take(hc).q, "revoke", n) <=> Mentions(hc.q, "revoke", n))
       /\ Mentions(hc.q, "revoke", r.plan)
  <2>1. Adds(Take(hc).q, r, hc.q)
    BY <1>1, TakeAdds
  <2> QED
    BY <2>1 DEF Adds
<1>11. ~Mentions(Take(hc).q, "revoke", r.plan)
  BY <1>1, <1>2, TakeInOrder DEF Positive
<1>12. ASSUME NEW n \in Positive
       PROVE  LifeOf(h, y, Take(hc).q, wc.q, overtaken, n) /\ Unused(h, y, Take(hc).q, wc.q, n)
  <2>1. LifeOf(h, w, hc.q, wc.q, overtaken, n) /\ Unused(h, w, hc.q, wc.q, n)
    BY <1>12 DEF IpcInv, IpcState
  <2>2. (Mentions(Take(hc).q, "publish", n) <=> Mentions(hc.q, "publish", n)) /\ (Holds(y, n) <=> Holds(w, n))
    BY <1>9, <1>10
  <2>3. CASE n = r.plan
    <3>1. LifeOf(h, y, Take(hc).q, wc.q, overtaken, n)
      BY <1>9, <1>10, <1>11, <2>1, <2>2, <2>3, Zenon DEF LifeOf, Life
    <3> QED
      BY <1>11, <2>1, <2>2, <2>3, <3>1 DEF Unused
  <2>4. CASE n # r.plan
    <3>1. /\ Mentions(Take(hc).q, "revoke", n) <=> Mentions(hc.q, "revoke", n)
          /\ Revoked(y, n) <=> Revoked(w, n)
      BY <1>9, <1>10, <2>4
    <3>2. LifeOf(h, y, Take(hc).q, wc.q, overtaken, n)
      BY <2>1, <2>2, <3>1, Zenon DEF LifeOf, Life
    <3> QED
      BY <2>1, <2>2, <3>1, <3>2 DEF Unused
  <2> QED
    BY <2>3, <2>4
<1> QED
  BY <1>1, <1>6, <1>7, <1>12, DrainState

LEMMA RevokedRefused ==
  ASSUME IpcInv, hc.q # <<>>, wpc.at = "drain", NEW r, r = Head(hc.q), r.kind = "revoke",
         NEW p \in w.refused, p.plan = r.plan,
         NEW u, WorkerPosts(Here, u, r.plan),
         NEW y, DOMAIN y = WorkerFields, y.refused = {q \in u.w.refused : q.plan # r.plan},
         y.adopted = u.w.adopted, y.active = u.w.active, y.fence = u.w.fence,
         y.gapLatched = u.w.gapLatched, y.gapWritten = u.w.gapWritten,
         y.alive = u.w.alive, y.detached = u.w.detached, y.tokenFloor = u.w.tokenFloor,
         y.nextSequence = u.w.nextSequence, y.last = u.w.last
  PROVE  IpcState(now, stream, Take(hc), u.wc, hd, wd, h, y, hpc, wpc, overtaken, started)
<1>1. /\ LaneOK(hc, "hc", setup.hc) /\ setup.hc \in Nat /\ WorkerOK(w) /\ setup.maxPlans \in Nat /\ InOrder(hc.q)
      /\ h.planFloor \in Nat
  BY HereIs, SetupFacts DEF IpcInv, IpcState, Positive, HostOK
<1>2. r.plan \in Positive
  BY HeadOfHostControl
<1>3. Worker(u) /\ SameHoldings(w, u.w) /\ OneMoreAck(wc.q, u.wc.q, r.plan)
  BY HereIs DEF WorkerPosts
<1>4. WorkerOK(u.w) /\ LaneOK(u.wc, "wc", setup.wc) /\ SequencesOK(u.wc) /\ GapOK(u.w, u.wc)
  BY <1>3 DEF Worker
<1>5. WorkerOK(y)
  <2>1. AdoptedOK(y.adopted, y.refused)
    BY <1>1, <1>4, FewerPlans DEF WorkerOK
  <2>2. ActiveOK(y)
    BY <1>4, ActiveKept DEF WorkerOK
  <2> QED
    BY <1>4, <2>1, <2>2 DEF WorkerOK
<1>6. GapOK(y, u.wc)
  BY <1>4 DEF GapOK
<1>7. /\ y.alive = w.alive /\ y.detached = w.detached /\ y.tokenFloor = w.tokenFloor
      /\ w.fence # "None" => y.fence # "None"
      /\ y.adopted = w.adopted /\ y.refused = {q \in w.refused : q.plan # r.plan}
  BY <1>3 DEF SameHoldings
<1>8. \A q \in w.adopted : q.plan # r.plan
  BY <1>1 DEF WorkerOK, AdoptedOK
<1>9. \A q : q \in y.refused <=> q \in w.refused /\ q.plan # r.plan
  BY <1>7
<1>10. /\ \A n : Holds(y, n) <=> Holds(w, n) /\ n # r.plan
       /\ \A n : n # r.plan => (Revoked(y, n) <=> Revoked(w, n))
       /\ Holds(w, r.plan)
  <2>1. ASSUME NEW n PROVE Holds(y, n) <=> Holds(w, n) /\ n # r.plan
    BY <1>7, <1>8, <1>9, ZenonT(40) DEF Holds
  <2>2. ASSUME NEW n PROVE Revoked(y, n) <=> Revoked(w, n)
    BY <1>7, Zenon DEF Revoked
  <2>3. Holds(w, r.plan)
    BY DEF Holds
  <2> QED
    BY <2>1, <2>2, <2>3
<1>11. /\ \A n : Mentions(Take(hc).q, "publish", n) <=> Mentions(hc.q, "publish", n)
       /\ \A n : n # r.plan => (Mentions(Take(hc).q, "revoke", n) <=> Mentions(hc.q, "revoke", n))
       /\ Mentions(hc.q, "revoke", r.plan)
  <2>1. Adds(Take(hc).q, r, hc.q)
    BY <1>1, TakeAdds
  <2> QED
    BY <2>1 DEF Adds
<1>12. ~Mentions(Take(hc).q, "revoke", r.plan)
  BY <1>1, <1>2, TakeInOrder DEF Positive
<1>13. /\ \A n \in Positive : LifeOf(h, w, hc.q, wc.q, overtaken, n) /\ Unused(h, w, hc.q, wc.q, n)
       /\ ~Mentions(hc.q, "publish", r.plan)
  <2>1. \A n \in Positive : LifeOf(h, w, hc.q, wc.q, overtaken, n) /\ Unused(h, w, hc.q, wc.q, n)
    BY DEF IpcInv, IpcState
  <2>2. LifeOf(h, w, hc.q, wc.q, overtaken, r.plan)
    BY <1>2, <2>1
  <2>3. ~Mentions(hc.q, "publish", r.plan)
    BY <1>10, <2>2, Zenon DEF LifeOf, Life
  <2> QED
    BY <2>1, <2>3
<1>14. \A n \in Positive : LifeOf(h, y, Take(hc).q, u.wc.q, overtaken, n) /\ Unused(h, y, Take(hc).q, u.wc.q, n)
  BY <1>1, <1>2, <1>3, <1>7, <1>10, <1>11, <1>12, <1>13, RetireState, ZenonT(60)
<1> QED
  BY <1>4, <1>5, <1>6, <1>7, <1>14, DrainState

\* Every plan the worker refused, and the one being published, is one of the host's.
LEMMA RefusedFit ==
  ASSUME IpcInv, hc.q # <<>>, wpc.at = "drain", Head(hc.q).kind = "publish"
  PROVE  Cardinality(w.refused) < setup.maxPlans
<1> DEFINE r == Head(hc.q)
<1>1. /\ LaneOK(hc, "hc", setup.hc) /\ setup.hc \in Nat /\ AdoptedOK(w.adopted, w.refused) /\ setup.maxPlans \in Nat
      /\ PlansOK(h.plans, h.planFloor)
  BY HereIs, SetupFacts DEF IpcInv, IpcState, Positive, HostOK, WorkerOK
<1>2. r.plan \in Positive /\ w.alive /\ ~h.detached
  BY HeadOfHostControl
<1>3. ASSUME NEW n \in Positive, Mentions(hc.q, "publish", n) \/ Holds(w, n)
      PROVE  Lists(h, n)
  <2>1. LifeOf(h, w, hc.q, wc.q, overtaken, n)
    BY <1>3 DEF IpcInv, IpcState
  <2> QED
    BY <1>2, <1>3, <2>1, Zenon DEF LifeOf, Life
<1>4. Mentions(hc.q, "publish", r.plan)
  <2>1. Adds(Take(hc).q, r, hc.q)
    BY <1>1, TakeAdds
  <2> QED
    BY <2>1 DEF Adds
<1>5. ~Holds(w, r.plan)
  <2>1. LifeOf(h, w, hc.q, wc.q, overtaken, r.plan)
    BY <1>2 DEF IpcInv, IpcState
  <2> QED
    BY <1>4, <2>1, Zenon DEF LifeOf, Life
<1> HIDE DEF r
<1>6. PICK p \in h.plans : p.plan = r.plan
  BY <1>2, <1>3, <1>4 DEF Lists
<1> DEFINE others == h.plans \ {p}
           f == [o \in w.refused |-> CHOOSE q \in h.plans : q.plan = o.plan]
<1>7. ASSUME NEW o \in w.refused
      PROVE  f[o] \in others /\ f[o].plan = o.plan
  <2>1. o.plan \in Positive /\ Holds(w, o.plan)
    BY <1>1 DEF AdoptedOK, RefusedPlan, Holds
  <2>2. \E q \in h.plans : q.plan = o.plan
    BY <1>3, <2>1 DEF Lists
  <2>3. f[o] \in h.plans /\ f[o].plan = o.plan
    BY <2>2
  <2>4. o.plan # r.plan
    BY <1>5, <2>1
  <2> QED
    BY <1>6, <2>3, <2>4
<1>8. f \in Injection(w.refused, others)
  <2>1. f \in [w.refused -> others]
    BY <1>7
  <2> HIDE DEF f, others
  <2>2. ASSUME NEW o \in w.refused, NEW q \in w.refused, f[o] = f[q] PROVE o = q
    <3>1. f[o].plan = o.plan /\ f[q].plan = q.plan
      BY <1>7
    <3>2. o.plan = q.plan
      BY <2>2, <3>1
    <3> QED
      BY <1>1, <3>2 DEF AdoptedOK, OnePerPlan
  <2>3. DOMAIN f = w.refused
    BY <2>1
  <2>4. IsInjective(f)
    BY <2>2, <2>3, Zenon DEF IsInjective
  <2> QED
    BY <2>1, <2>4, Zenon DEF Injection
<1>9. IsFiniteSet(h.plans) /\ Cardinality(h.plans) \in Nat /\ Cardinality(h.plans) <= setup.maxPlans
  BY <1>1, FS_CardinalityType DEF PlansOK
<1>10. IsFiniteSet(others) /\ Cardinality(others) = Cardinality(h.plans) - 1
  BY <1>6, <1>9, FS_RemoveElement
<1> HIDE DEF f, others
<1>11. IsFiniteSet(w.refused) /\ Cardinality(w.refused) <= Cardinality(others)
  BY <1>8, <1>10, FS_Injection
<1>12. Cardinality(w.refused) \in Nat
  BY <1>11, FS_CardinalityType
<1> QED
  BY <1>1, <1>9, <1>10, <1>11, <1>12

\* What a publication changes of what the worker holds.
HoldsAlso(x, y, plan) == \A n : Holds(y, n) <=> Holds(x, n) \/ n = plan
SameRevoked(x, y) == \A n : Revoked(y, n) <=> Revoked(x, n)

\* A publication that is handled: the worker has the plan, in one of its lists.
LEMMA PublishedState ==
  ASSUME IpcInv, hc.q # <<>>, wpc.at = "drain", NEW r, r = Head(hc.q), r.kind = "publish",
         NEW y, DOMAIN y = WorkerFields, AdoptedOK(y.adopted, y.refused), w.adopted \subseteq y.adopted,
         HoldsAlso(w, y, r.plan), SameRevoked(w, y),
         y.active = w.active, y.fence = w.fence, y.gapLatched = w.gapLatched, y.gapWritten = w.gapWritten,
         y.alive = w.alive, y.detached = w.detached, y.tokenFloor = w.tokenFloor,
         y.nextSequence = w.nextSequence, y.last = w.last
  PROVE  IpcState(now, stream, Take(hc), wc, hd, wd, h, y, hpc, wpc, overtaken, started)
<1>1. /\ LaneOK(hc, "hc", setup.hc) /\ setup.hc \in Nat /\ WorkerOK(w) /\ InOrder(hc.q)
      /\ LaneOK(wc, "wc", setup.wc) /\ SequencesOK(wc) /\ GapOK(w, wc) /\ h.planFloor \in Nat
  BY HereIs, SetupFacts DEF IpcInv, IpcState, Positive, HostOK
<1>2. r.plan \in Positive
  BY HeadOfHostControl
<1>3. ActiveOK(y)
  <2>1. \A plan : PlanHeld(w, plan) => PlanHeld(y, plan)
    BY DEF PlanHeld
  <2> QED
    BY <1>1, <2>1 DEF WorkerOK, ActiveOK
<1>4. WorkerOK(y)
  BY <1>1, <1>3 DEF WorkerOK
<1>5. GapOK(y, wc)
  BY <1>1 DEF GapOK
<1>6. /\ \A n : Mentions(Take(hc).q, "revoke", n) <=> Mentions(hc.q, "revoke", n)
      /\ \A n : n # r.plan => (Mentions(Take(hc).q, "publish", n) <=> Mentions(hc.q, "publish", n))
      /\ Mentions(hc.q, "publish", r.plan)
  <2>1. Adds(Take(hc).q, r, hc.q)
    BY <1>1, TakeAdds
  <2> QED
    BY <2>1 DEF Adds
<1>7. ~Mentions(Take(hc).q, "publish", r.plan)
  BY <1>1, <1>2, TakeInOrder DEF Positive
<1>8. ASSUME NEW n \in Positive
      PROVE  LifeOf(h, y, Take(hc).q, wc.q, overtaken, n) /\ Unused(h, y, Take(hc).q, wc.q, n)
  <2>1. LifeOf(h, w, hc.q, wc.q, overtaken, n) /\ Unused(h, w, hc.q, wc.q, n)
    BY <1>8 DEF IpcInv, IpcState
  <2>2. /\ Mentions(Take(hc).q, "revoke", n) <=> Mentions(hc.q, "revoke", n)
        /\ Revoked(y, n) <=> Revoked(w, n)
        /\ Holds(y, n) <=> Holds(w, n) \/ n = r.plan
    BY <1>6 DEF HoldsAlso, SameRevoked
  <2>3. CASE n = r.plan
    <3>1. LifeOf(h, y, Take(hc).q, wc.q, overtaken, n)
      BY <1>6, <1>7, <2>1, <2>2, <2>3, Zenon DEF LifeOf, Life
    <3>2. ~(n > h.planFloor)
      BY <1>6, <2>1, <2>3 DEF Unused
    <3> QED
      BY <3>1, <3>2 DEF Unused
  <2>4. CASE n # r.plan
    <3>1. Mentions(Take(hc).q, "publish", n) <=> Mentions(hc.q, "publish", n)
      BY <1>6, <2>4
    <3>2. LifeOf(h, y, Take(hc).q, wc.q, overtaken, n)
      BY <2>1, <2>2, <2>4, <3>1, Zenon DEF LifeOf, Life
    <3> QED
      BY <2>1, <2>2, <2>4, <3>1, <3>2 DEF Unused
  <2> QED
    BY <2>3, <2>4
<1> QED
  BY <1>1, <1>4, <1>5, <1>8, DrainState

LEMMA PublishHandled ==
  ASSUME IpcInv, hc.q # <<>>, wpc.at = "drain", NEW r, r = Head(hc.q), r.kind = "publish",
         NEW t, t = HandlePublish(r).s
  PROVE  /\ IpcState(now, stream, Take(hc), t.wc, hd, wd, h, t.w, hpc, wpc, overtaken, started)
         /\ t.w.active = w.active
<1>1. /\ WorkerOK(w) /\ AdoptedOK(w.adopted, w.refused) /\ setup.maxPlans \in Nat
      /\ LaneOK(hc, "hc", setup.hc) /\ setup.hc \in Nat
  BY HereIs, SetupFacts DEF IpcInv, IpcState, Positive, WorkerOK
<1>2. r.plan \in Positive /\ r.until \in Positive /\ Cardinality(w.refused) < setup.maxPlans
  BY HeadOfHostControl, RefusedFit
<1>3. ~Holds(w, r.plan)
  <2>1. LifeOf(h, w, hc.q, wc.q, overtaken, r.plan)
    BY <1>2 DEF IpcInv, IpcState
  <2>2. Adds(Take(hc).q, r, hc.q)
    BY <1>1, TakeAdds
  <2>3. Mentions(hc.q, "publish", r.plan)
    BY <2>2 DEF Adds
  <2> QED
    BY <2>1, <2>3, Zenon DEF LifeOf, Life
<1> DEFINE o == [plan |-> r.plan, until |-> r.until]
           a == [plan |-> r.plan, until |-> r.until, revoked |-> FALSE]
           remembered == [Here EXCEPT !.w.refused = @ \cup {o}]
           adopts == [Here EXCEPT !.w.planFloor = r.plan, !.w.adopted = @ \cup {a}]
<1>4. t = remembered \/ (t = adopts /\ Cardinality(w.adopted) # setup.maxPlans)
  BY <1>2 DEF HandlePublish
<1>5. /\ remembered.wc = wc /\ DOMAIN remembered.w = WorkerFields
      /\ remembered.w.active = w.active /\ remembered.w.fence = w.fence
      /\ remembered.w.gapLatched = w.gapLatched /\ remembered.w.gapWritten = w.gapWritten
      /\ remembered.w.alive = w.alive /\ remembered.w.detached = w.detached
      /\ remembered.w.tokenFloor = w.tokenFloor
      /\ remembered.w.nextSequence = w.nextSequence /\ remembered.w.last = w.last
      /\ remembered.w.adopted = w.adopted /\ remembered.w.refused = w.refused \cup {o}
  BY <1>1 DEF Here, WorkerOK, WorkerFields
<1>6. /\ adopts.wc = wc /\ DOMAIN adopts.w = WorkerFields
      /\ adopts.w.active = w.active /\ adopts.w.fence = w.fence
      /\ adopts.w.gapLatched = w.gapLatched /\ adopts.w.gapWritten = w.gapWritten
      /\ adopts.w.alive = w.alive /\ adopts.w.detached = w.detached
      /\ adopts.w.tokenFloor = w.tokenFloor
      /\ adopts.w.nextSequence = w.nextSequence /\ adopts.w.last = w.last
      /\ adopts.w.adopted = w.adopted \cup {a} /\ adopts.w.refused = w.refused
  BY <1>1 DEF Here, WorkerOK, WorkerFields
<1>7. /\ o \in RefusedPlan /\ o.plan = r.plan /\ a \in WorkerPlan /\ a.plan = r.plan /\ a.revoked = FALSE
  BY <1>2 DEF RefusedPlan, WorkerPlan
<1>8. \A q \in w.adopted \cup w.refused : q.plan # r.plan
  BY <1>3 DEF Holds
<1> HIDE DEF o, a, remembered, adopts
<1>9. CASE t = remembered
  <2>1. AdoptedOK(w.adopted, w.refused \cup {o})
    <3>1. IsFiniteSet(w.refused \cup {o})
      BY <1>1, FS_AddElement DEF AdoptedOK
    <3>2. OnePerPlan(w.refused \cup {o})
      BY <1>1, <1>7, <1>8, OneMorePlan DEF AdoptedOK
    <3> QED
      BY <1>1, <1>7, <1>8, <3>1, <3>2 DEF AdoptedOK
  <2>2. HoldsAlso(w, t.w, r.plan)
    <3>1. \A q : q \in t.w.adopted \cup t.w.refused <=> q \in w.adopted \cup w.refused \/ q = o
      BY <1>5, <1>9, Zenon
    <3> QED
      BY <1>7, <3>1, Zenon DEF Holds, HoldsAlso
  <2>3. SameRevoked(w, t.w)
    BY <1>5, <1>9 DEF Revoked, SameRevoked
  <2>4. IpcState(now, stream, Take(hc), wc, hd, wd, h, t.w, hpc, wpc, overtaken, started)
    BY <1>5, <1>9, <2>1, <2>2, <2>3, PublishedState
  <2> QED
    BY <1>5, <1>9, <2>4
<1>10. CASE t = adopts /\ Cardinality(w.adopted) # setup.maxPlans
  <2>1. AdoptedOK(w.adopted \cup {a}, w.refused)
    <3>1. /\ IsFiniteSet(w.adopted) /\ Cardinality(w.adopted) \in Nat /\ Cardinality(w.adopted) < setup.maxPlans
      BY <1>1, <1>10, FS_CardinalityType DEF AdoptedOK
    <3>2. /\ IsFiniteSet(w.adopted \cup {a})
          /\ \/ Cardinality(w.adopted \cup {a}) = Cardinality(w.adopted)
             \/ Cardinality(w.adopted \cup {a}) = Cardinality(w.adopted) + 1
      BY <3>1, FS_AddElement
    <3>3. Cardinality(w.adopted \cup {a}) <= setup.maxPlans
      BY <1>1, <3>1, <3>2
    <3>4. OnePerPlan(w.adopted \cup {a})
      BY <1>1, <1>7, <1>8, OneMorePlan DEF AdoptedOK
    <3> QED
      BY <1>1, <1>7, <1>8, <3>2, <3>3, <3>4 DEF AdoptedOK
  <2>2. HoldsAlso(w, t.w, r.plan)
    <3>1. \A q : q \in t.w.adopted \cup t.w.refused <=> q \in w.adopted \cup w.refused \/ q = a
      BY <1>6, <1>10, Zenon
    <3> QED
      BY <1>7, <3>1, Zenon DEF Holds, HoldsAlso
  <2>3. SameRevoked(w, t.w)
    <3>1. \A q : q \in t.w.adopted <=> q \in w.adopted \/ q = a
      BY <1>6, <1>10, Zenon
    <3> QED
      BY <1>7, <3>1, Zenon DEF Revoked, SameRevoked
  <2>4. IpcState(now, stream, Take(hc), wc, hd, wd, h, t.w, hpc, wpc, overtaken, started)
    BY <1>6, <1>10, <2>1, <2>2, <2>3, PublishedState
  <2> QED
    BY <1>6, <1>10, <2>4
<1> QED
  BY <1>4, <1>9, <1>10

\* A revocation: the worker's plan becomes revoked, or the one it refused is retired at
\* once if the retirement can be posted.
LEMMA RevokeHandled ==
  ASSUME IpcInv, hc.q # <<>>, wpc.at = "drain", NEW r, r = Head(hc.q), r.kind = "revoke",
         NEW done, done = HandleRevoke(r)
  PROVE  /\ done.ok \in BOOLEAN
         /\ done.ok => IpcState(now, stream, Take(hc), done.s.wc, hd, wd, h, done.s.w, hpc, wpc, overtaken, started)
         /\ ~done.ok => IpcState(now, stream, hc, done.s.wc, hd, wd, h, done.s.w, hpc, wpc, overtaken, started)
         /\ done.s.w.active = w.active \/ done.s.w.active = NoCommand
<1>1. /\ WorkerOK(w) /\ AdoptedOK(w.adopted, w.refused) /\ setup \in Setups
      /\ LaneOK(hc, "hc", setup.hc) /\ setup.hc \in Nat /\ InOrder(hc.q)
  BY HereIs, SetupFacts DEF IpcInv, IpcState, WorkerOK
<1>2. r.plan \in Positive /\ r.until \in Positive /\ wpc.reading \in Positive /\ w.alive /\ ~w.detached
  BY HeadOfHostControl
<1> DEFINE held == {p \in w.adopted : p.plan = r.plan}
           refused == {p \in w.refused : p.plan = r.plan}
           posted == PostRetired(Here, r.plan, r.until, wpc.reading)
           marked == {[p EXCEPT !.revoked = TRUE] : p \in held}
           v == IF w.active.plan = r.plan THEN NoCommand ELSE w.active
<1>3. held # {} \/ refused # {}
  <2>1. LifeOf(h, w, hc.q, wc.q, overtaken, r.plan)
    BY <1>2 DEF IpcInv, IpcState
  <2>2. Adds(Take(hc).q, r, hc.q)
    BY <1>1, TakeAdds
  <2>3. /\ Mentions(hc.q, "revoke", r.plan)
        /\ Mentions(hc.q, "publish", r.plan) <=> Mentions(Take(hc).q, "publish", r.plan)
    BY <2>2 DEF Adds
  <2>4. ~Mentions(Take(hc).q, "publish", r.plan)
    BY <1>1, <1>2, TakeInOrder DEF Positive
  <2>5. Holds(w, r.plan)
    BY <1>2, <2>1, <2>3, <2>4, Zenon DEF LifeOf, Life
  <2> QED
    BY <2>5 DEF Holds
<1>4. CASE held # {}
  <2> DEFINE t == [Here EXCEPT !.w.adopted = (@ \ held) \cup marked, !.w.active = v]
  <2>1. done = [s |-> t, ok |-> TRUE]
    BY <1>4 DEF HandleRevoke, Here
  <2>2. PICK p \in w.adopted : p.plan = r.plan
    BY <1>4
  <2> DEFINE s == [p EXCEPT !.revoked = TRUE]
  <2>3. held = {p}
    BY <1>1, <2>2 DEF AdoptedOK, OnePerPlan
  <2>4. marked = {s}
    BY <2>3
  <2>5. s \in WorkerPlan /\ s.plan = p.plan /\ s.revoked = TRUE
    BY <1>1, <2>2 DEF AdoptedOK, WorkerPlan
  <2> HIDE DEF held, marked, s, v
  <2>6. /\ t.wc = wc /\ DOMAIN t.w = WorkerFields
        /\ t.w.adopted = (w.adopted \ {p}) \cup {s} /\ t.w.active = v
        /\ t.w.fence = w.fence /\ t.w.gapLatched = w.gapLatched /\ t.w.gapWritten = w.gapWritten
        /\ t.w.alive = w.alive /\ t.w.detached = w.detached /\ t.w.tokenFloor = w.tokenFloor
        /\ t.w.nextSequence = w.nextSequence /\ t.w.refused = w.refused /\ t.w.last = w.last
    BY <1>1, <2>3, <2>4 DEF Here, WorkerOK, WorkerFields
  <2> HIDE DEF t
  <2>7. t.w.active = IF w.active.plan = r.plan THEN NoCommand ELSE w.active
    BY <2>6 DEF v
  <2>8. IpcState(now, stream, Take(hc), wc, hd, wd, h, t.w, hpc, wpc, overtaken, started)
    BY <2>2, <2>5, <2>6, <2>7, RevokedHeld, ZenonT(40)
  <2>9. done.s = t /\ done.ok = TRUE
    BY <2>1
  <2> QED
    BY <2>6, <2>7, <2>8, <2>9
<1>5. CASE held = {} /\ refused # {}
  <2>1. done = IF posted.ok THEN [posted EXCEPT !.s.w.refused = @ \ refused] ELSE posted
    BY <1>5, Zenon DEF HandleRevoke
  <2>2. Worker(Here) /\ Here.w = w /\ Here.wc = wc
    BY HereIs
  <2>3. /\ posted = [s |-> posted.s, ok |-> posted.ok] /\ posted.ok \in BOOLEAN
        /\ posted.ok => WorkerPosts(Here, posted.s, r.plan)
        /\ ~posted.ok => WorkerKeeps(Here, posted.s)
    BY <1>1, <1>2, <2>2, PostRetiredPosts
  <2> HIDE DEF posted
  <2>4. CASE ~posted.ok
    <3>1. IpcState(now, stream, hc, posted.s.wc, hd, wd, h, posted.s.w, hpc, wpc, overtaken, started)
      BY <2>2, <2>3, <2>4, WorkerReplaced DEF IpcInv
    <3>2. posted.s.w.active = w.active \/ posted.s.w.active = NoCommand
      BY <2>2, <2>3, <2>4 DEF WorkerKeeps, SameHoldings
    <3>3. done = posted
      BY <2>1, <2>4
    <3> QED
      BY <2>3, <2>4, <3>1, <3>2, <3>3
  <2>5. CASE posted.ok
    <3> DEFINE u == posted.s
               t == [u EXCEPT !.w.refused = @ \ refused]
    <3>1. done.ok = TRUE /\ done.s = t
      <4>1. done = [posted EXCEPT !.s.w.refused = @ \ refused]
        BY <2>1, <2>5
      <4>2. DOMAIN posted = {"s", "ok"}
        BY <2>3
      <4> QED
        BY <2>3, <2>5, <4>1, <4>2
    <3>2. WorkerPosts(Here, u, r.plan)
      BY <2>3, <2>5
    <3>3. Worker(u) /\ SameHoldings(w, u.w)
      BY <2>2, <3>2 DEF WorkerPosts
    <3> HIDE DEF u
    <3>4. /\ t.wc = u.wc /\ DOMAIN t.w = WorkerFields /\ t.w.refused = u.w.refused \ refused
          /\ t.w.adopted = u.w.adopted /\ t.w.active = u.w.active /\ t.w.fence = u.w.fence
          /\ t.w.gapLatched = u.w.gapLatched /\ t.w.gapWritten = u.w.gapWritten
          /\ t.w.alive = u.w.alive /\ t.w.detached = u.w.detached /\ t.w.tokenFloor = u.w.tokenFloor
          /\ t.w.nextSequence = u.w.nextSequence /\ t.w.last = u.w.last
      BY <3>3 DEF Worker, WorkerOK, WorkerFields
    <3>5. u.w.refused \ refused = {q \in u.w.refused : q.plan # r.plan}
      BY <3>3 DEF SameHoldings
    <3>6. PICK p \in w.refused : p.plan = r.plan
      BY <1>5
    <3> HIDE DEF t
    <3>7. IpcState(now, stream, Take(hc), u.wc, hd, wd, h, t.w, hpc, wpc, overtaken, started)
      BY <3>2, <3>4, <3>5, <3>6, RevokedRefused
    <3>8. t.w.active = w.active \/ t.w.active = NoCommand
      BY <3>3, <3>4 DEF SameHoldings
    <3> QED
      BY <3>1, <3>4, <3>7, <3>8
  <2> QED
    BY <2>3, <2>4, <2>5
<1> QED
  BY <1>3, <1>4, <1>5

LEMMA DrainControlInv ==
  ASSUME IpcInv, DrainControl
  PROVE  IpcInv' /\ (w'.active = w.active \/ w'.active = NoCommand)
<1> DEFINE r == Head(hc.q)
           done == HandleControl(r)
<1>1. wpc.at = "drain" /\ hc.q # <<>>
  BY DEF DrainControl
<1>2. /\ w' = done.s.w /\ wc' = done.s.wc
      /\ IF done.ok THEN hc' = Take(hc) /\ wpc' = [wpc EXCEPT !.budget = @ - 1]
         ELSE wpc' = [wpc EXCEPT !.at = "act"] /\ hc' = hc
      /\ UNCHANGED <<setup, now, stream, hd, wd, h, hpc, fenceHead, started, overtaken>>
  BY DEF DrainControl, WorkerBecomes
<1>3. /\ r.kind \in {"publish", "revoke", "stop"} /\ w.alive /\ ~w.detached
      /\ wpc.reading \in Positive /\ DOMAIN wpc = WpcFields
  BY <1>1, HeadOfHostControl
<1>4. /\ done.ok \in BOOLEAN
      /\ done.ok => IpcState(now, stream, Take(hc), done.s.wc, hd, wd, h, done.s.w, hpc, wpc, overtaken, started)
      /\ ~done.ok => IpcState(now, stream, hc, done.s.wc, hd, wd, h, done.s.w, hpc, wpc, overtaken, started)
      /\ done.s.w.active = w.active \/ done.s.w.active = NoCommand
  <2>1. CASE r.kind = "stop"
    <3>1. done = HandleStop(r)
      BY <2>1 DEF HandleControl
    <3>2. done.ok = TRUE
      BY <3>1 DEF HandleStop
    <3> QED
      BY <1>1, <2>1, <3>1, <3>2, StopHandled
  <2>2. CASE r.kind = "revoke"
    <3>1. done = HandleRevoke(r)
      BY <2>2 DEF HandleControl
    <3> HIDE DEF done
    <3> QED
      BY <1>1, <2>2, <3>1, RevokeHandled
  <2>3. CASE r.kind = "publish"
    <3>1. done = HandlePublish(r)
      BY <2>3 DEF HandleControl
    <3>2. done.ok = TRUE
      BY <3>1 DEF HandlePublish
    <3> QED
      BY <1>1, <2>3, <3>1, <3>2, PublishHandled
  <2> QED
    BY <1>3, <2>1, <2>2, <2>3
<1> HIDE DEF done
<1>5. IpcState(now, stream, hc', wc', hd, wd, h, w', hpc, wpc, overtaken, started)
  BY <1>2, <1>4
<1>6. DOMAIN wpc' = WpcFields /\ wpc'.at \in {"drain", "act"} /\ wpc'.reading = wpc.reading
  BY <1>1, <1>2, <1>3, <1>4 DEF WpcFields
<1>7. w'.alive /\ ~w'.detached
  BY <1>1, <1>5 DEF IpcState, PcOK
<1>8. IpcState(now, stream, hc', wc', hd, wd, h, w', hpc, wpc', overtaken, started)
  BY <1>3, <1>5, <1>6, <1>7, WpcReplaced
<1>9. IpcInv'
  BY <1>2, <1>8, IpcKept
<1> QED
  BY <1>2, <1>4, <1>9, Zenon

\* A command was read: z is the worker it leaves, done the tokens delivered by then.
LEMMA CommandState ==
  ASSUME NEW b, NEW y, IpcState(now, stream, hc, b, hd, wd, h, y, hpc, wpc, overtaken, started), hd.q # <<>>,
         NEW r, r = Head(hd.q),
         NEW z, DOMAIN z = WorkerFields, z.adopted = y.adopted, z.refused = y.refused, z.fence = y.fence,
         z.gapLatched = y.gapLatched, z.gapWritten = y.gapWritten, z.alive = y.alive, z.detached = y.detached,
         z.nextSequence = y.nextSequence, z.last = y.last,
         z.tokenFloor = IF r.token > y.tokenFloor THEN r.token ELSE y.tokenFloor,
         \/ z.active = NoCommand
         \/ z.active = Command(r) /\ y.fence = "None" /\ PlanHeld(y, r.plan),
         NEW done, done = started \/ (done = started \cup {r.token} /\ r.token > y.tokenFloor)
  PROVE  IpcState(now, stream, hc, b, Take(hd), wd, h, z, hpc, wpc, overtaken, done)
<1>1. /\ LaneOK(hd, "hd", setup.hd) /\ setup.hd \in Nat /\ WorkerOK(y) /\ GapOK(y, b) /\ PcOK(hpc, wpc, y)
      /\ StopOK(h, y, hc) /\ TokensOK(h, y, hd.q, started) /\ h.tokenFloor \in Nat /\ y.tokenFloor \in Nat
  BY SetupFacts DEF IpcState, ClockOK, HostOK, WorkerOK, Positive
<1>2. hd.q \in Seq(Message) /\ Len(hd.q) \in Nat /\ DOMAIN hd.q = 1 .. Len(hd.q)
  BY <1>1 DEF LaneOK, MessageLane
<1>3. /\ LaneOK(Take(hd), "hd", setup.hd) /\ Len(hd.q) > 0
      /\ \A i \in DOMAIN Take(hd).q : Take(hd).q[i] = hd.q[i + 1] /\ i + 1 \in DOMAIN hd.q
      /\ r = hd.q[1] /\ r \in Message /\ WellFormed(r, "hd")
  BY <1>1, TakeLane
<1>4. r.token \in Nat /\ r.token <= h.tokenFloor
  <2>1. 1 \in DOMAIN hd.q
    BY <1>2, <1>3
  <2> QED
    BY <1>1, <1>3, <2>1 DEF TokensOK, Message
<1>5. z.tokenFloor \in Nat /\ z.tokenFloor <= h.tokenFloor /\ z.tokenFloor >= y.tokenFloor /\ z.tokenFloor >= r.token
  BY <1>1, <1>4 DEF TokensOK
<1>6. TokensOK(h, z, Take(hd).q, done)
  <2>1. \A i \in DOMAIN Take(hd).q : Take(hd).q[i].token <= h.tokenFloor
    BY <1>1, <1>3 DEF TokensOK
  <2>2. started \subseteq 0 .. z.tokenFloor
    BY <1>1, <1>5 DEF TokensOK
  <2>3. r.token \in 0 .. z.tokenFloor
    BY <1>4, <1>5
  <2>4. done \subseteq 0 .. z.tokenFloor
    BY <2>2, <2>3, Zenon
  <2> QED
    BY <1>5, <2>1, <2>4 DEF TokensOK
<1>7. ActiveOK(z)
  <2>1. CASE z.active = NoCommand
    BY <2>1, ActiveDropped
  <2>2. CASE z.active = Command(r) /\ y.fence = "None" /\ PlanHeld(y, r.plan)
    <3>1. Command(r) \in [plan : Positive, token : Positive, until : Positive] /\ Command(r).plan = r.plan
      BY <1>3 DEF WellFormed, Shape, KindOnLane, Command, Positive, Message
    <3>2. PlanHeld(z, r.plan)
      BY <2>2 DEF PlanHeld
    <3> QED
      BY <2>2, <3>1, <3>2 DEF ActiveOK
  <2> QED
    BY <2>1, <2>2
<1>8. WorkerOK(z)
  BY <1>1, <1>5, <1>7 DEF WorkerOK
<1>9. GapOK(z, b) /\ PcOK(hpc, wpc, z) /\ StopOK(h, z, hc)
  BY <1>1 DEF GapOK, PcOK, StopOK
<1>10. ASSUME NEW n \in Positive
       PROVE  LifeOf(h, z, hc.q, b.q, overtaken, n) /\ Unused(h, z, hc.q, b.q, n)
  <2>1. LifeOf(h, y, hc.q, b.q, overtaken, n) /\ Unused(h, y, hc.q, b.q, n)
    BY <1>10 DEF IpcState
  <2>2. (Holds(z, n) <=> Holds(y, n)) /\ (Revoked(z, n) <=> Revoked(y, n))
    BY DEF Holds, Revoked
  <2>3. LifeOf(h, z, hc.q, b.q, overtaken, n)
    BY <2>1, <2>2, Zenon DEF LifeOf, Life
  <2> QED
    BY <2>1, <2>2, <2>3 DEF Unused
<1> QED
  BY <1>3, <1>6, <1>8, <1>9, <1>10, Zenon DEF IpcState

LEMMA NextCommandInv ==
  ASSUME IpcInv, NextCommand
  PROVE  IpcInv' /\ (w'.active = w.active \/ w'.active = NoCommand \/ w'.active.token \notin started)
<1>0. /\ WorkerKeeps(Here, Serviced) /\ wpc' = WorkerIdle
      /\ UNCHANGED <<setup, now, stream, hc, wd, h, hpc, fenceHead, overtaken>>
  BY ServicedKeeps DEF NextCommand, Returns
<1> DEFINE s == Serviced
           busy == s.w.active # NoCommand /\ Live(s.w.active, wpc.reading)
           x == [s.w EXCEPT !.active = NoCommand]
           r == Head(hd.q)
           unread == ~WorkerOpen(s.w) \/ busy \/ hd.q = <<>>
<1>1. CASE unread
  <2> DEFINE t == [s EXCEPT !.w = IF WorkerOpen(s.w) /\ ~busy THEN x ELSE s.w]
  <2>1. w' = t.w /\ wc' = t.wc /\ hd' = hd /\ started' = started
    BY <1>1 DEF NextCommand, WorkerBecomes
  <2>4. WorkerKeeps(Here, s)
    BY <1>0
  <2> HIDE DEF s
  <2>5. WorkerKeeps(s, t)
    <3>1. CASE WorkerOpen(s.w) /\ ~busy
      <4>1. t = [s EXCEPT !.w.active = NoCommand]
        BY <3>1
      <4> HIDE DEF t
      <4> QED
        BY <2>4, <4>1, DropActiveKeeps DEF WorkerKeeps
    <3>2. CASE ~(WorkerOpen(s.w) /\ ~busy)
      <4>1. Worker(s) /\ DOMAIN s = {"w", "wc"} /\ DOMAIN s.w = WorkerFields /\ s.w.last \in Nat
        BY <2>4 DEF WorkerKeeps, Worker, WorkerOK
      <4>2. t.w = s.w /\ t.wc = s.wc /\ DOMAIN t = {"w", "wc"}
        BY <3>2, <4>1
      <4> HIDE DEF t
      <4>3. SameWorker(s.w, t.w) /\ t.w.last \in Nat
        BY <4>1, <4>2 DEF SameWorker
      <4> QED
        BY <4>1, <4>2, <4>3, SameWorkerKeeps
    <3> QED
      BY <3>1, <3>2
  <2> HIDE DEF t
  <2>6. WorkerKeeps(Here, t)
    BY <2>4, <2>5, WorkerKeepsTrans
  <2>7. IpcState(now, stream, hc, wc', hd, wd, h, w', hpc, wpc, overtaken, started)
    BY <2>1, <2>6, HereIs, WorkerReplaced DEF IpcInv
  <2>8. IpcState(now, stream, hc, wc', hd, wd, h, w', hpc, WorkerIdle, overtaken, started)
    BY <2>7, Returned
  <2>9. w'.active = w.active \/ w'.active = NoCommand
    BY <2>1, <2>6, HereIs DEF WorkerKeeps, SameHoldings
  <2>10. IpcInv'
    BY <1>0, <2>1, <2>8, IpcKept
  <2> QED
    BY <2>9, <2>10, Zenon
<1>2. CASE ~unread
  <2> DEFINE floor == IF r.token > x.tokenFloor THEN r.token ELSE x.tokenFloor
             v == IF Deliverable(x, r) THEN Command(r) ELSE NoCommand
             t == [s EXCEPT !.w = [x EXCEPT !.tokenFloor = floor, !.active = v]]
  <2>1. /\ hd' = Take(hd) /\ w' = t.w /\ wc' = t.wc
        /\ started' = IF Deliverable(x, r) THEN started \cup {r.token} ELSE started
    BY <1>2 DEF NextCommand, WorkerBecomes
  <2>2. WorkerKeeps(Here, s)
    BY <1>0
  <2>3. s.w.fence = "None" /\ hd.q # <<>>
    BY <1>2 DEF WorkerOpen
  <2> HIDE DEF s
  <2>4. DOMAIN s = {"w", "wc"} /\ DOMAIN s.w = WorkerFields /\ SameHoldings(w, s.w)
    BY <2>2, HereIs DEF WorkerKeeps, Worker, WorkerOK
  <2>5. x.tokenFloor = s.w.tokenFloor /\ x.adopted = s.w.adopted
    BY <2>4 DEF WorkerFields
  <2>6. Deliverable(x, r) => r.token > s.w.tokenFloor /\ PlanHeld(s.w, r.plan)
    BY <2>5 DEF Deliverable, PlanHeld
  <2> HIDE DEF floor, v
  <2>7. /\ w'.tokenFloor = floor /\ w'.active = v /\ wc' = s.wc
        /\ DOMAIN w' = WorkerFields /\ w'.adopted = s.w.adopted /\ w'.refused = s.w.refused
        /\ w'.fence = s.w.fence /\ w'.gapLatched = s.w.gapLatched /\ w'.gapWritten = s.w.gapWritten
        /\ w'.alive = s.w.alive /\ w'.detached = s.w.detached
        /\ w'.nextSequence = s.w.nextSequence /\ w'.last = s.w.last
    BY <2>1, <2>4 DEF WorkerFields
  <2>8. floor = IF r.token > s.w.tokenFloor THEN r.token ELSE s.w.tokenFloor
    BY <2>5 DEF floor
  <2>9. v = NoCommand \/ (v = Command(r) /\ PlanHeld(s.w, r.plan) /\ r.token > s.w.tokenFloor)
    BY <2>6 DEF v
  <2>10. started' = started \/ (started' = started \cup {r.token} /\ r.token > s.w.tokenFloor)
    BY <2>1, <2>6
  <2> HIDE DEF t, x, r
  <2>11. IpcState(now, stream, hc, s.wc, hd, wd, h, s.w, hpc, wpc, overtaken, started)
    BY <2>2, HereIs, WorkerReplaced DEF IpcInv
  <2>12. IpcState(now, stream, hc, s.wc, Take(hd), wd, h, w', hpc, wpc, overtaken, started')
    BY <2>3, <2>7, <2>8, <2>9, <2>10, <2>11, CommandState DEF r
  <2>13. IpcState(now, stream, hc, s.wc, Take(hd), wd, h, w', hpc, WorkerIdle, overtaken, started')
    BY <2>12, Returned
  <2>14. IpcInv'
    BY <1>0, <2>1, <2>7, <2>13, IpcKept
  <2>15. ASSUME v = Command(r), r.token > s.w.tokenFloor
         PROVE  v.token \notin started
    <3>1. started \subseteq 0 .. s.w.tokenFloor /\ s.w.tokenFloor \in Nat
      BY <2>11 DEF IpcState, WorkerOK, TokensOK
    <3>2. v.token = r.token
      BY <2>15 DEF Command
    <3>3. r.token \notin 0 .. s.w.tokenFloor
      BY <2>15, <3>1
    <3> QED
      BY <3>1, <3>2, <3>3
  <2> QED
    BY <2>7, <2>9, <2>14, <2>15, Zenon
<1> QED
  BY <1>1, <1>2

LEMMA DataState ==
  ASSUME NEW b, NEW y, IpcState(now, stream, hc, b, hd, wd, h, y, hpc, wpc, overtaken, started),
         HasRoom(wd, setup.wd, 0), NEW r \in Message, WellFormed(r, "wd"), r.sequence <= setup.maxSequence
  PROVE  IpcState(now, stream, hc, b, hd, Put(wd, r), h, y, hpc, wpc, overtaken, started)
<1>1. LaneOK(wd, "wd", setup.wd) /\ SequencesOK(wd) /\ setup.wd \in Nat
  BY SetupFacts DEF IpcState, ClockOK, Positive
<1>2. wd.q \in Seq(Message) /\ Len(wd.q) \in Nat /\ DOMAIN wd.q = 1 .. Len(wd.q)
  BY <1>1 DEF LaneOK, MessageLane
<1>3. Len(wd.q) < setup.wd
  BY <1>1, <1>2 DEF HasRoom
<1>4. /\ LaneOK(Put(wd, r), "wd", setup.wd)
      /\ DOMAIN Put(wd, r).q = 1 .. Len(wd.q) + 1
      /\ \A i \in DOMAIN wd.q : Put(wd, r).q[i] = wd.q[i]
      /\ Put(wd, r).q[Len(wd.q) + 1] = r
  BY <1>1, <1>3, PutLane
<1>5. SequencesOK(Put(wd, r))
  BY <1>1, <1>2, <1>4 DEF SequencesOK
<1> QED
  BY <1>4, <1>5, Zenon DEF IpcState

LEMMA WriteDataInv ==
  ASSUME IpcInv, NEW s, WorkerKeeps(Here, s), NEW kind, NEW c, WriteData(s, kind, c),
         \/ kind = "raw" /\ c = NoCommand
         \/ kind = "completion" /\ c \in [plan : Positive, token : Positive, until : Positive],
         UNCHANGED <<setup, now, stream, hc, hd, h, hpc, wpc, fenceHead, started, overtaken>>
  PROVE  IpcInv' /\ (w'.active = w.active \/ w'.active = NoCommand)
<1>0. /\ setup \in Setups /\ setup.wc \in Nat /\ setup.maxSequence \in Nat /\ setup.maxSequence \in Positive
      /\ setup.maxSequence \in 1 .. setup.maxSequence /\ now \in Positive
  BY HereIs, SetupFacts DEF IpcInv, IpcState, ClockOK, Positive, Higher
<1>1. Worker(s) /\ s.w.nextSequence \in 1 .. setup.maxSequence
  BY DEF WorkerKeeps, Worker, WorkerOK
<1>2. ASSUME NEW t, WorkerKeeps(s, t), w' = t.w, wc' = t.wc
      PROVE  /\ IpcState(now, stream, hc, wc', hd, wd, h, w', hpc, wpc, overtaken, started)
             /\ w'.active = w.active \/ w'.active = NoCommand
  <2>1. WorkerKeeps(Here, t)
    BY <1>2, WorkerKeepsTrans
  <2>2. IpcState(now, stream, hc, wc', hd, wd, h, w', hpc, wpc, overtaken, started)
    BY <1>2, <2>1, HereIs, WorkerReplaced DEF IpcInv
  <2>3. w'.active = w.active \/ w'.active = NoCommand
    BY <1>2, <2>1, HereIs DEF WorkerKeeps, SameHoldings
  <2> QED
    BY <2>2, <2>3
<1> DEFINE u == [s EXCEPT !.w = AfterSequence(@)]
           n == s.w.nextSequence
           r == Record(kind, c.plan, c.token, c.until, n, now)
<1>3. WorkerKeeps(s, u)
  BY <1>0, <1>1, AfterSequenceKeeps
<1>4. CASE ~CanAllocate(s.w)
  <2> DEFINE t == RaiseGap(s, "Counter", setup.maxSequence, now)
  <2>1. w' = t.w /\ wc' = t.wc /\ wd' = wd
    BY <1>4 DEF WriteData, WorkerBecomes
  <2>2. WorkerKeeps(s, t)
    BY <1>0, <1>1, RaiseGapKeeps DEF Reasons
  <2> HIDE DEF t
  <2>3. /\ IpcState(now, stream, hc, wc', hd, wd, h, w', hpc, wpc, overtaken, started)
        /\ w'.active = w.active \/ w'.active = NoCommand
    BY <1>2, <2>1, <2>2
  <2>4. IpcInv'
    BY <2>1, <2>3, IpcKept
  <2> QED
    BY <2>3, <2>4, Zenon
<1>5. CASE CanAllocate(s.w) /\ HasRoom(wd, setup.wd, 0)
  <2>1. wd' = Put(wd, r) /\ w' = u.w /\ wc' = u.wc
    BY <1>5 DEF WriteData, WorkerBecomes
  <2>2. r \in Message /\ WellFormed(r, "wd") /\ r.sequence <= setup.maxSequence
    <3>1. CASE kind = "raw" /\ c = NoCommand
      BY <1>0, <1>1, <3>1 DEF Message, Record, WellFormed, Shape, KindOnLane, Kinds, Positive, NoCommand
    <3>2. CASE kind = "completion" /\ c \in [plan : Positive, token : Positive, until : Positive]
      BY <1>0, <1>1, <3>2 DEF Message, Record, WellFormed, Shape, KindOnLane, Kinds, Positive
    <3> QED
      BY <3>1, <3>2
  <2> HIDE DEF u, r
  <2>3. /\ IpcState(now, stream, hc, wc', hd, wd, h, w', hpc, wpc, overtaken, started)
        /\ w'.active = w.active \/ w'.active = NoCommand
    BY <1>2, <1>3, <2>1
  <2>4. IpcState(now, stream, hc, wc', hd, Put(wd, r), h, w', hpc, wpc, overtaken, started)
    BY <1>5, <2>2, <2>3, DataState
  <2>5. IpcInv'
    BY <2>1, <2>4, IpcKept
  <2> QED
    BY <2>3, <2>5, Zenon
<1>6. CASE CanAllocate(s.w) /\ ~HasRoom(wd, setup.wd, 0)
  <2> DEFINE t == RaiseGap(u, "DataFull", n, now)
  <2>1. w' = t.w /\ wc' = t.wc /\ wd' = wd
    BY <1>6 DEF WriteData, WorkerBecomes
  <2> HIDE DEF u, n
  <2>2. n \in 1 .. setup.maxSequence
    BY <1>1 DEF n
  <2>3. WorkerKeeps(u, t)
    BY <1>0, <1>3, <2>2, RaiseGapKeeps DEF Reasons, WorkerKeeps
  <2> HIDE DEF t
  <2>4. WorkerKeeps(s, t)
    BY <1>3, <2>3, WorkerKeepsTrans
  <2>5. /\ IpcState(now, stream, hc, wc', hd, wd, h, w', hpc, wpc, overtaken, started)
        /\ w'.active = w.active \/ w'.active = NoCommand
    BY <1>2, <2>1, <2>4
  <2>6. IpcInv'
    BY <2>1, <2>5, IpcKept
  <2> QED
    BY <2>5, <2>6, Zenon
<1> QED
  BY <1>4, <1>5, <1>6

\* The worker becomes what one of its methods leaves, and nothing else changes.
LEMMA MethodInv ==
  ASSUME IpcInv, NEW t, WorkerKeeps(Here, t), w' = t.w, wc' = t.wc,
         UNCHANGED <<setup, now, stream, hc, hd, wd, h, hpc, wpc, started, overtaken>>
  PROVE  IpcInv' /\ (w'.active = w.active \/ w'.active = NoCommand)
<1>1. IpcState(now, stream, hc, wc', hd, wd, h, w', hpc, wpc, overtaken, started)
  BY HereIs, WorkerReplaced DEF IpcInv
<1>2. w'.active = w.active \/ w'.active = NoCommand
  BY HereIs DEF WorkerKeeps, SameHoldings
<1>3. IpcInv'
  BY <1>1, IpcKept
<1> QED
  BY <1>2, <1>3, Zenon

LEMMA ObserveRawInv ==
  ASSUME IpcInv, ObserveRaw
  PROVE  IpcInv' /\ (w'.active = w.active \/ w'.active = NoCommand)
<1>1. /\ Worker(Here) /\ now \in Nat /\ setup \in Setups
      /\ UNCHANGED <<setup, now, stream, hc, hd, h, hpc, wpc, fenceHead, started, overtaken>>
  BY HereIs DEF IpcInv, IpcState, ClockOK, ObserveRaw
<1>2. /\ WorkerKeeps(Here, Ticked(Here)) /\ WorkerKeeps(Here, ClockFault(Here))
      /\ WorkerKeeps(Here, ZeroFault(Here))
  BY <1>1, TickedKeeps, ClockFaultKeeps, ZeroFaultKeeps
<1>3. CASE WriteData(Ticked(Here), "raw", NoCommand)
  BY <1>1, <1>2, <1>3, WriteDataInv
<1>4. CASE WorkerBecomes(Ticked(Here)) /\ UNCHANGED wd
  BY <1>1, <1>2, <1>4, MethodInv DEF WorkerBecomes
<1>5. CASE WorkerBecomes(ClockFault(Here)) /\ UNCHANGED wd
  BY <1>1, <1>2, <1>5, MethodInv DEF WorkerBecomes
<1>6. CASE WorkerBecomes(ZeroFault(Here)) /\ UNCHANGED wd
  BY <1>1, <1>2, <1>6, MethodInv DEF WorkerBecomes
<1> QED
  BY <1>3, <1>4, <1>5, <1>6 DEF ObserveRaw, ClockRefuses

LEMMA CompleteInv ==
  ASSUME IpcInv, Complete
  PROVE  IpcInv' /\ (w'.active = w.active \/ w'.active = NoCommand)
<1>1. /\ Worker(Here) /\ now \in Nat /\ WorkerOK(w)
      /\ UNCHANGED <<setup, now, stream, hc, hd, h, hpc, wpc, fenceHead, started, overtaken>>
  BY HereIs DEF IpcInv, IpcState, ClockOK, Complete
<1>2. w.active \in [plan : Positive, token : Positive, until : Positive]
  BY <1>1 DEF WorkerOK, ActiveOK, Complete
<1> DEFINE u == Ticked(Here)
           s == [u EXCEPT !.w.active = NoCommand]
<1>3. WorkerKeeps(Here, u)
  BY <1>1, TickedKeeps
<1>4. IF Live(w.active, now) THEN WriteData(s, "completion", w.active)
      ELSE WorkerBecomes(s) /\ UNCHANGED wd
  BY DEF Complete
<1> HIDE DEF u
<1>5. WorkerKeeps(u, s)
  BY <1>3, DropActiveKeeps DEF WorkerKeeps
<1> HIDE DEF s
<1>6. WorkerKeeps(Here, s)
  BY <1>3, <1>5, WorkerKeepsTrans
<1>7. CASE Live(w.active, now)
  BY <1>1, <1>2, <1>4, <1>6, <1>7, WriteDataInv
<1>8. CASE ~Live(w.active, now)
  BY <1>1, <1>4, <1>6, <1>8, MethodInv DEF WorkerBecomes
<1> QED
  BY <1>7, <1>8

LEMMA WorkerTeardownInv ==
  ASSUME IpcInv, WorkerTeardown
  PROVE  IpcInv' /\ w'.active = w.active
<1>1. /\ WorkerOK(w) /\ setup.maxPlans \in Nat /\ hc.q = <<>> /\ wpc.at = "idle"
      /\ \A p \in w.adopted : ~p.revoked
  BY HereIs, SetupFacts DEF IpcInv, IpcState, WorkerTeardown, FenceAcknowledged, WorkerIsIdle, Positive
<1>2. w.active = NoCommand /\ w.fence # "None"
  BY <1>1 DEF WorkerOK, ActiveOK, WorkerTeardown, WorkerOpen, WorkerIsIdle
<1>3. /\ DOMAIN w' = WorkerFields /\ w'.detached = TRUE /\ w'.adopted = {} /\ w'.refused = {}
      /\ w'.active = w.active /\ w'.fence = w.fence
      /\ w'.gapLatched = w.gapLatched /\ w'.gapWritten = w.gapWritten
      /\ w'.alive = w.alive /\ w'.tokenFloor = w.tokenFloor
      /\ w'.nextSequence = w.nextSequence /\ w'.last = w.last
  BY <1>1 DEF WorkerTeardown, WorkerOK, WorkerFields
<1>4. WorkerOK(w')
  <2>1. AdoptedOK({}, {})
    BY <1>1, FewerPlans DEF WorkerOK
  <2>2. ActiveOK(w')
    BY <1>2, <1>3, ActiveDropped
  <2> QED
    BY <1>1, <1>3, <2>1, <2>2 DEF WorkerOK
<1>5. GapOK(w', wc) /\ PcOK(hpc, wpc, w') /\ StopOK(h, w', hc) /\ TokensOK(h, w', hd.q, started)
  BY <1>1, <1>3 DEF IpcInv, IpcState, GapOK, PcOK, StopOK, TokensOK
<1>6. ASSUME NEW n \in Positive
      PROVE  LifeOf(h, w', hc.q, wc.q, overtaken, n) /\ Unused(h, w', hc.q, wc.q, n)
  <2>1. LifeOf(h, w, hc.q, wc.q, overtaken, n) /\ Unused(h, w, hc.q, wc.q, n)
    BY <1>6 DEF IpcInv, IpcState
  <2>2. ~Holds(w', n) /\ ~Revoked(w', n)
    BY <1>3 DEF Holds, Revoked
  <2>3. ~Mentions(hc.q, "publish", n) /\ ~Mentions(hc.q, "revoke", n)
    BY <1>1 DEF Mentions
  <2>4. LifeOf(h, w', hc.q, wc.q, overtaken, n)
    BY <1>3, <2>1, <2>2, <2>3, Zenon DEF LifeOf, Life
  <2> QED
    BY <2>1, <2>2, <2>4 DEF Unused
<1>7. IpcState(now, stream, hc, wc, hd, wd, h, w', hpc, wpc, overtaken, started)
  BY <1>4, <1>5, <1>6, Zenon DEF IpcInv, IpcState
<1>8. IpcInv'
  BY <1>7, IpcKept DEF WorkerTeardown, lanes
<1> QED
  BY <1>3, <1>8, Zenon

LEMMA WorkerDiesInv ==
  ASSUME IpcInv, WorkerDies
  PROVE  IpcInv' /\ w'.active = NoCommand
<1>1. WorkerOK(w)
  BY DEF IpcInv, IpcState
<1>2. /\ DOMAIN w' = WorkerFields /\ w'.alive = FALSE /\ w'.active = NoCommand
      /\ w'.adopted = w.adopted /\ w'.refused = w.refused /\ w'.fence = w.fence
      /\ w'.gapLatched = w.gapLatched /\ w'.gapWritten = w.gapWritten
      /\ w'.detached = w.detached /\ w'.tokenFloor = w.tokenFloor
      /\ w'.nextSequence = w.nextSequence /\ w'.last = w.last
  BY <1>1 DEF WorkerDies, WorkerOK, WorkerFields
<1>3. WorkerOK(w')
  <2>1. ActiveOK(w')
    BY <1>2, ActiveDropped
  <2> QED
    BY <1>1, <1>2, <2>1 DEF WorkerOK
<1>4. PcOK(hpc, WorkerIdle, w')
  BY DEF IpcInv, IpcState, PcOK, WorkerIdle
<1>5. GapOK(w', wc) /\ StopOK(h, w', hc) /\ TokensOK(h, w', hd.q, started)
  BY <1>2 DEF IpcInv, IpcState, GapOK, StopOK, TokensOK
<1>6. ASSUME NEW n \in Positive
      PROVE  LifeOf(h, w', hc.q, wc.q, overtaken, n) /\ Unused(h, w', hc.q, wc.q, n)
  <2>1. LifeOf(h, w, hc.q, wc.q, overtaken, n) /\ Unused(h, w, hc.q, wc.q, n)
    BY <1>6 DEF IpcInv, IpcState
  <2>2. (Holds(w', n) <=> Holds(w, n)) /\ (Revoked(w', n) <=> Revoked(w, n))
    BY <1>2 DEF Holds, Revoked
  <2>3. LifeOf(h, w', hc.q, wc.q, overtaken, n)
    BY <1>2, <2>1, <2>2, Zenon DEF LifeOf, Life
  <2> QED
    BY <2>1, <2>2, <2>3 DEF Unused
<1>7. IpcState(now, stream, hc, wc, hd, wd, h, w', hpc, WorkerIdle, overtaken, started)
  BY <1>3, <1>4, <1>5, <1>6, Zenon DEF IpcInv, IpcState
<1>8. IpcInv'
  BY <1>7, IpcKept DEF WorkerDies, Returns, lanes
<1> QED
  BY <1>2, <1>8, Zenon

LEMMA AdvanceInv ==
  ASSUME IpcInv, Advance
  PROVE  IpcInv' /\ w' = w
<1>1. ClockOK(now', stream)
  BY SetupFacts DEF IpcInv, IpcState, ClockOK, Advance, Higher
<1>2. IpcState(now', stream, hc, wc, hd, wd, h, w, hpc, wpc, overtaken, started)
  BY <1>1, Zenon DEF IpcInv, IpcState
<1> QED
  BY <1>2, IpcKept DEF Advance, lanes

-----------------------------------------------------------------------------
(* A fresh mapping.                                                        *)

LEMMA FreshLane ==
  ASSUME NEW name, NEW capacity \in Nat
  PROVE  LaneOK(EmptyLane, name, capacity) /\ SequencesOK(EmptyLane) /\ EmptyLane.q = <<>> /\ DOMAIN EmptyLane.q = {}
<1>1. EmptyLane.q = <<>> /\ EmptyLane.read = 0 /\ DOMAIN EmptyLane.q = {} /\ Len(EmptyLane.q) = 0
  BY DEF EmptyLane
<1>2. EmptyLane \in MessageLane
  BY DEF EmptyLane, MessageLane
<1> QED
  BY <1>1, <1>2 DEF LaneOK, SequencesOK

LEMMA FreshState ==
  ASSUME NEW tick, NEW number, ClockOK(tick, number), NEW pf \in Nat, NEW tf \in Nat, NEW wp, NEW hp, NEW done,
         DOMAIN hp = {"at", "head", "reading"}, hp.at \in {"idle", "head", "control", "data"}, done \subseteq 0 .. tf
  PROVE  IpcState(tick, number, EmptyLane, EmptyLane, EmptyLane, EmptyLane,
                  AttachHost(pf, tf), AttachWorker(wp, tf), hp, WorkerIdle, {}, done)
<1> DEFINE x == AttachHost(pf, tf)
           y == AttachWorker(wp, tf)
           e == EmptyLane
<1>1. /\ setup.hc \in Nat /\ setup.wc \in Nat /\ setup.hd \in Nat /\ setup.wd \in Nat
      /\ setup.hc > 1 /\ setup.wc > 1 /\ setup.maxPlans \in Positive /\ setup.maxSequence \in Positive
  BY SetupFacts DEF ClockOK, Positive
<1>2. /\ DOMAIN x = HostFields /\ x.fence.reason = "None" /\ x.explained = {} /\ x.plans = {}
      /\ x.planFloor = pf /\ x.tokenFloor = tf /\ x.stopIndex = 0
      /\ x.stopSent = FALSE /\ x.terminated = FALSE /\ x.detached = FALSE
  BY DEF AttachHost, HostFields, NoFence
<1>3. /\ DOMAIN y = WorkerFields /\ y.fence = "None" /\ y.gapLatched = FALSE /\ y.gapWritten = FALSE
      /\ y.alive = TRUE /\ y.detached = FALSE /\ y.last = 0 /\ y.tokenFloor = tf /\ y.nextSequence = 1
      /\ y.adopted = {} /\ y.refused = {} /\ y.active = NoCommand
  BY DEF AttachWorker, WorkerFields
<1>4. /\ LaneOK(e, "hc", setup.hc) /\ LaneOK(e, "wc", setup.wc) /\ LaneOK(e, "hd", setup.hd)
      /\ LaneOK(e, "wd", setup.wd) /\ SequencesOK(e) /\ e.q = <<>> /\ DOMAIN e.q = {} /\ Len(e.q) = 0
  BY <1>1, FreshLane
<1> HIDE DEF x, y, e
<1>5. IsFiniteSet({}) /\ Cardinality({}) = 0
  BY FS_EmptySet
<1>6. HostOK(x)
  <2>1. x.stopSent \in BOOLEAN /\ x.terminated \in BOOLEAN /\ x.detached \in BOOLEAN
    BY <1>2, Zenon
  <2>2. PlansOK({}, pf)
    BY <1>1, <1>5 DEF PlansOK, OnePerPlan, Positive
  <2>3. HostSound(x)
    BY <1>2 DEF HostSound, Reasons
  <2>4. PlansOK(x.plans, x.planFloor) /\ x.planFloor \in Nat /\ x.tokenFloor \in Nat /\ x.stopIndex \in Nat
    BY <1>2, <2>2
  <2> QED
    BY <1>2, <2>1, <2>3, <2>4, Zenon DEF HostOK
<1>7. WorkerOK(y)
  <2>1. ActiveOK(y)
    BY <1>3, ActiveDropped
  <2>2. AdoptedOK(y.adopted, y.refused)
    BY <1>1, <1>3, <1>5 DEF AdoptedOK, OnePerPlan, Positive
  <2> QED
    <3>1. /\ y.gapLatched \in BOOLEAN /\ y.gapWritten \in BOOLEAN
          /\ y.alive \in BOOLEAN /\ y.detached \in BOOLEAN
      BY <1>3, Zenon
    <3>2. /\ y.fence \in Reasons /\ y.last \in Nat /\ y.tokenFloor \in Nat
          /\ y.nextSequence \in 1 .. setup.maxSequence
      BY <1>1, <1>3 DEF Reasons, Positive
    <3> QED
      BY <1>3, <2>1, <2>2, <3>1, <3>2, Zenon DEF WorkerOK
<1>8. GapOK(y, e) /\ StopOK(x, y, e) /\ InOrder(e.q)
  BY <1>1, <1>2, <1>3, <1>4 DEF GapOK, StopOK, InOrder, HasRoom
<1>9. TokensOK(x, y, e.q, done)
  BY <1>2, <1>3, <1>4 DEF TokensOK
<1>10. PcOK(hp, WorkerIdle, y)
  BY DEF PcOK, WorkerIdle
<1>11. ASSUME NEW n \in Positive
       PROVE  LifeOf(x, y, e.q, e.q, {}, n) /\ Unused(x, y, e.q, e.q, n)
  <2>1. \A kind : ~Mentions(e.q, kind, n)
    BY <1>4 DEF Mentions
  <2>2. ~Holds(y, n) /\ ~Revoked(y, n) /\ ~Lists(x, n) /\ ~Revokes(x, n)
    BY <1>2, <1>3 DEF Holds, Revoked, Lists, Revokes
  <2>3. LifeOf(x, y, e.q, e.q, {}, n)
    BY <2>1, <2>2, Zenon DEF LifeOf, Life
  <2> QED
    BY <2>1, <2>2, <2>3 DEF Unused
<1>12. IpcState(tick, number, e, e, e, e, x, y, hp, WorkerIdle, {}, done)
  BY <1>4, <1>6, <1>7, <1>8, <1>9, <1>10, <1>11, Zenon DEF IpcState
<1> QED
  BY <1>12 DEF x, y, e

LEMMA SuccessorInv ==
  ASSUME IpcInv, NEW wp, NEW wt \in Nat, wt <= h.tokenFloor, Successor(wp, wt)
  PROVE  IpcInv' /\ w'.active = NoCommand
<1> DEFINE wf == Higher(wp, h.planFloor)
<1>1. /\ HostOK(h) /\ TokensOK(h, w, hd.q, started) /\ PcOK(hpc, wpc, w) /\ WorkerOK(w) /\ setup \in Setups
      /\ setup.streams \in Nat /\ stream \in 1 .. Higher(1, setup.streams)
  BY HereIs, SetupFacts DEF IpcInv, IpcState, ClockOK
<1>2. Higher(wt, h.tokenFloor) = h.tokenFloor
  BY <1>1 DEF Higher, HostOK
<1>3. ClockOK(now, stream')
  BY <1>1 DEF Successor, Higher, IpcInv, IpcState, ClockOK
<1>4. started \subseteq 0 .. h.tokenFloor
  BY <1>1 DEF TokensOK, HostOK, WorkerOK
<1>5. IpcState(now, stream', EmptyLane, EmptyLane, EmptyLane, EmptyLane,
               AttachHost(h.planFloor, h.tokenFloor), AttachWorker(wf, h.tokenFloor), hpc, WorkerIdle, {}, started)
  BY <1>1, <1>3, <1>4, FreshState DEF PcOK, HostOK
<1>6. /\ now' = now /\ hc' = EmptyLane /\ wc' = EmptyLane /\ hd' = EmptyLane /\ wd' = EmptyLane
      /\ h' = AttachHost(h.planFloor, h.tokenFloor) /\ w' = AttachWorker(wf, h.tokenFloor)
      /\ hpc' = hpc /\ wpc' = WorkerIdle /\ overtaken' = {} /\ started' = started /\ setup' = setup
  BY <1>2 DEF Successor
<1>7. IpcInv'
  BY <1>5, <1>6, IpcKept
<1>8. w'.active = NoCommand
  BY <1>6 DEF AttachWorker
<1> QED
  BY <1>7, <1>8, Zenon

LEMMA RecoveryInv ==
  ASSUME IpcInv, Resync \/ Restart
  PROVE  IpcInv' /\ w'.active = NoCommand
<1>1. /\ 0 \in Nat /\ 0 <= h.tokenFloor /\ w.tokenFloor \in Nat /\ w.tokenFloor <= h.tokenFloor
  BY DEF IpcInv, IpcState, HostOK, WorkerOK, TokensOK
<1>2. CASE Resync
  BY <1>1, <1>2, SuccessorInv DEF Resync
<1>3. CASE Restart
  BY <1>1, <1>3, SuccessorInv DEF Restart
<1> QED
  BY <1>2, <1>3

LEMMA InitIpc ==
  ASSUME Init
  PROVE  IpcInv
<1>1. setup \in Setups /\ now = 1 /\ stream = 1
  BY DEF Init
<1>2. ClockOK(now, stream)
  BY <1>1, SetupFacts DEF ClockOK, Higher
<1>3. DOMAIN hpc = {"at", "head", "reading"} /\ hpc.at \in {"idle", "head", "control", "data"}
  BY DEF Init, HostIdle
<1>4. IpcState(now, stream, EmptyLane, EmptyLane, EmptyLane, EmptyLane, AttachHost(0, 0), AttachWorker(0, 0),
               hpc, WorkerIdle, {}, {})
  BY <1>2, <1>3, FreshState
<1> QED
  BY <1>4 DEF Init, IpcInv

-----------------------------------------------------------------------------
(* The theorems about the endpoints.                                       *)

\* A delivered command is a new one.
NewOrNone == w'.active = w.active \/ w'.active = NoCommand \/ w'.active.token \notin started

LEMMA HostStep ==
  ASSUME IpcInv, HostRefuses \/ Publish \/ Revoke \/ Send \/ Poll \/ AcknowledgeGap \/ RequestStop
                   \/ ObserveWorkerTerminated \/ HostTeardown
  PROVE  IpcInv' /\ w' = w
<1>1. CASE HostRefuses
  BY <1>1, HostRefusesInv DEF HostRefuses
<1>2. CASE Publish
  <2>1. PICK expiry \in setup.expiries : PublishPlan(expiry)
    BY <1>2 DEF Publish
  <2>2. w' = w
    BY <2>1 DEF PublishPlan
  <2> QED
    BY <2>1, <2>2, PublishPlanInv
<1>3. CASE Revoke
  <2>1. PICK p \in h.plans : RevokePlan(p)
    BY <1>3 DEF Revoke
  <2>2. w' = w
    BY <2>1 DEF RevokePlan
  <2> QED
    BY <2>1, <2>2, RevokePlanInv
<1>4. CASE Send
  <2>1. PICK p \in h.plans, deadline \in 2 .. setup.ticks + 1 : SendCommand(p, deadline)
    BY <1>4 DEF Send
  <2>2. w' = w
    BY <2>1 DEF SendCommand
  <2> QED
    BY <2>1, <2>2, SendCommandInv
<1>5. CASE PollBegins
  BY <1>5, PollBeginsInv DEF PollBegins
<1>13. CASE PollHead
  BY <1>13, PollHeadInv DEF PollHead
<1>6. CASE PollControl
  BY <1>6, PollControlInv DEF PollControl
<1>7. CASE PollData
  BY <1>7, PollDataInv DEF PollData
<1>8. CASE PollFenced
  BY <1>8, PollFencedInv DEF PollFenced
<1>9. CASE AcknowledgeGap
  BY <1>9, AcknowledgeGapInv DEF AcknowledgeGap
<1>10. CASE RequestStop
  BY <1>10, RequestStopInv DEF RequestStop
<1>11. CASE ObserveWorkerTerminated
  BY <1>11, ObserveWorkerTerminatedInv DEF ObserveWorkerTerminated
<1>12. CASE HostTeardown
  BY <1>12, HostTeardownInv DEF HostTeardown
<1> QED
  BY <1>1, <1>2, <1>3, <1>4, <1>5, <1>6, <1>7, <1>8, <1>9, <1>10, <1>11, <1>12, <1>13 DEF Poll

LEMMA WorkerStep ==
  ASSUME IpcInv, ServePoll \/ ServeNext \/ ServeAdmit \/ ServeAcknowledge \/ Proceed \/ ObserveRaw \/ Complete
                   \/ WorkerTeardown \/ WorkerDies
  PROVE  IpcInv' /\ NewOrNone
<1>1. CASE ServePoll \/ ServeNext \/ ServeAdmit \/ ServeAcknowledge
  <2>1. PICK op, plan : Serve(op, plan)
    BY <1>1 DEF ServePoll, ServeNext, ServeAdmit, ServeAcknowledge
  <2> QED
    BY <2>1, ServeInv DEF NewOrNone
<1>2. CASE DrainControl
  BY <1>2, DrainControlInv DEF NewOrNone
<1>3. CASE DrainEnds
  BY <1>3, DrainEndsInv DEF NewOrNone
<1>4. CASE ServiceOnly
  BY <1>4, ServiceOnlyInv DEF NewOrNone
<1>5. CASE NextCommand
  BY <1>5, NextCommandInv DEF NewOrNone
<1>6. CASE AdmitOutput
  BY <1>6, AdmitOutputInv DEF NewOrNone
<1>7. CASE AcknowledgeRevocation
  BY <1>7, AcknowledgeRevocationInv DEF NewOrNone
<1>8. CASE ObserveRaw
  BY <1>8, ObserveRawInv DEF NewOrNone
<1>9. CASE Complete
  BY <1>9, CompleteInv DEF NewOrNone
<1>10. CASE WorkerTeardown
  BY <1>10, WorkerTeardownInv DEF NewOrNone
<1>11. CASE WorkerDies
  BY <1>11, WorkerDiesInv DEF NewOrNone
<1> QED
  BY <1>1, <1>2, <1>3, <1>4, <1>5, <1>6, <1>7, <1>8, <1>9, <1>10, <1>11 DEF Proceed

LEMMA IpcStep ==
  ASSUME IpcInv, [Next]_vars
  PROVE  IpcInv' /\ NewOrNone
<1>1. CASE UNCHANGED vars
  <2>1. /\ setup' = setup /\ now' = now /\ stream' = stream /\ hc' = hc /\ wc' = wc /\ hd' = hd /\ wd' = wd
        /\ h' = h /\ w' = w /\ hpc' = hpc /\ wpc' = wpc /\ overtaken' = overtaken /\ started' = started
    BY <1>1 DEF vars, lanes
  <2> QED
    BY <2>1, IpcKept DEF IpcInv, NewOrNone
<1>2. CASE Advance
  BY <1>2, AdvanceInv DEF NewOrNone
<1>3. CASE HostRefuses \/ Publish \/ Revoke \/ Send \/ Poll \/ AcknowledgeGap \/ RequestStop
             \/ ObserveWorkerTerminated \/ HostTeardown
  BY <1>3, HostStep DEF NewOrNone
<1>4. CASE ServePoll \/ ServeNext \/ ServeAdmit \/ ServeAcknowledge \/ Proceed \/ ObserveRaw \/ Complete
             \/ WorkerTeardown \/ WorkerDies
  BY <1>4, WorkerStep
<1>5. CASE Resync \/ Restart
  BY <1>5, RecoveryInv DEF NewOrNone
<1> QED
  BY <1>1, <1>2, <1>3, <1>4, <1>5 DEF Next

LEMMA IpcInvHolds ==
  Spec => []IpcInv
<1>1. Init => IpcInv
  BY InitIpc
<1>2. IpcInv /\ [Next]_vars => IpcInv'
  BY IpcStep
<1> QED
  BY <1>1, <1>2, PTL DEF Spec

LEMMA InvTypeOK ==
  ASSUME IpcInv
  PROVE  TypeOK
<1>1. /\ \A r \in Records(hc) : Shape(r, "hc")
      /\ \A r \in Records(wc) : Shape(r, "wc")
      /\ \A r \in Records(hd) : Shape(r, "hd")
      /\ \A r \in Records(wd) : Shape(r, "wd")
  BY DEF IpcInv, IpcState, LaneOK, WellFormed, Records
<1>2. Len(hc.q) <= setup.hc /\ Len(wc.q) <= setup.wc /\ Len(hd.q) <= setup.hd /\ Len(wd.q) <= setup.wd
  BY DEF IpcInv, IpcState, LaneOK
<1>3. setup \in Setups /\ now \in 1 .. Higher(1, setup.ticks) /\ stream \in 1 .. Higher(1, setup.streams)
  BY DEF IpcInv, IpcState, ClockOK
<1>4. /\ h.fence.reason \in Reasons /\ Cardinality(h.plans) <= setup.maxPlans
      /\ h.explained \subseteq 1 .. setup.maxSequence
  BY DEF IpcInv, IpcState, HostOK, HostSound, PlansOK
<1>5. /\ w.fence \in Reasons /\ Cardinality(w.adopted) <= setup.maxPlans
      /\ w.nextSequence \in 1 .. setup.maxSequence
  BY DEF IpcInv, IpcState, WorkerOK, AdoptedOK
<1>6. hpc.at \in {"idle", "head", "control", "data"} /\ wpc.at \in {"idle", "drain", "act"}
  BY DEF IpcInv, IpcState, PcOK
<1> QED
  BY <1>1, <1>2, <1>3, <1>4, <1>5, <1>6, Zenon DEF TypeOK

LEMMA InvPlansListed ==
  ASSUME IpcInv
  PROVE  PlansListed
<1> SUFFICES ASSUME w.alive
             PROVE  /\ w.active # NoCommand => PlanHeld(w, w.active.plan) /\ ~h.detached
                    /\ ~h.detached => ({p.plan : p \in w.adopted \cup w.refused} \cup {r.plan : r \in Records(hc)}) \ {0}
                                        \subseteq {p.plan : p \in h.plans}
  BY Zenon DEF PlansListed
<1>1. w.active # NoCommand => PlanHeld(w, w.active.plan) /\ ~h.detached
  BY DEF IpcInv, IpcState, WorkerOK, ActiveOK, StopOK
<1>2. ASSUME ~h.detached, NEW n \in Positive,
             Mentions(hc.q, "publish", n) \/ Mentions(hc.q, "revoke", n) \/ Holds(w, n)
      PROVE  n \in {p.plan : p \in h.plans}
  <2>1. LifeOf(h, w, hc.q, wc.q, overtaken, n)
    BY <1>2 DEF IpcInv, IpcState
  <2>2. Lists(h, n)
    BY <1>2, <2>1, Zenon DEF LifeOf, Life
  <2> QED
    BY <2>2 DEF Lists
<1>3. ASSUME ~h.detached, NEW p \in w.adopted \cup w.refused
      PROVE  p.plan \in {q.plan : q \in h.plans}
  <2>1. p.plan \in Positive
    BY DEF IpcInv, IpcState, WorkerOK, AdoptedOK, WorkerPlan, RefusedPlan
  <2>2. Holds(w, p.plan)
    BY DEF Holds
  <2> QED
    BY <1>2, <1>3, <2>1, <2>2
<1>4. ASSUME ~h.detached, NEW r \in Records(hc), r.plan # 0
      PROVE  r.plan \in {q.plan : q \in h.plans}
  <2>1. PICK i \in DOMAIN hc.q : r = hc.q[i]
    BY DEF Records
  <2>2. LaneOK(hc, "hc", setup.hc)
    BY DEF IpcInv, IpcState
  <2>3. r \in Message
    BY <2>1, <2>2 DEF LaneOK, MessageLane
  <2>4. r.plan \in Positive
    BY <1>4, <2>3 DEF Message, Positive
  <2>5. r.kind \in {"publish", "revoke"}
    BY <1>4, <2>1, <2>2, HostControlPlans
  <2>6. Mentions(hc.q, "publish", r.plan) \/ Mentions(hc.q, "revoke", r.plan)
    BY <2>1, <2>5 DEF Mentions
  <2> QED
    BY <1>2, <1>4, <2>4, <2>6
<1> QED
  BY <1>1, <1>3, <1>4

LEMMA InvRevocationInFlight ==
  ASSUME IpcInv
  PROVE  RevocationInFlight
<1> SUFFICES ASSUME w.alive, ~w.detached, NEW p \in h.plans, p.revoking, p.plan \notin overtaken
             PROVE  \/ \E r \in Records(hc) : r.kind = "revoke" /\ r.plan = p.plan
                    \/ \E q \in w.adopted : q.plan = p.plan /\ q.revoked
                    \/ \E r \in Records(wc) : r.kind = "acknowledge" /\ r.plan = p.plan
  BY DEF RevocationInFlight
<1>1. p.plan \in Positive
  BY DEF IpcInv, IpcState, HostOK, PlansOK, HostPlan
<1>2. LifeOf(h, w, hc.q, wc.q, overtaken, p.plan)
  BY <1>1 DEF IpcInv, IpcState
<1>3. Revokes(h, p.plan)
  BY DEF Revokes
<1>4. Mentions(hc.q, "revoke", p.plan) \/ Revoked(w, p.plan) \/ Mentions(wc.q, "acknowledge", p.plan)
  BY <1>2, <1>3, Zenon DEF LifeOf, Life
<1> QED
  BY <1>4, Zenon DEF Mentions, Revoked, Records

\* For every setup, whatever the order of the two endpoints' steps, the faults of
\* their clocks, deaths and recoveries: nothing overruns a lane or a table of plans,
\* the gap and the stop have the slot the writers of aa24WriteControl and
\* aa24PostRetired leave them, a plan is listed by the host as long as the worker may
\* use it or answer for it, and a revocation is under way until it was answered.
THEOREM ControlIsKept ==
  Spec => []ControlKept
<1>1. IpcInv => ControlKept
  <2> SUFFICES ASSUME IpcInv PROVE ControlKept
    OBVIOUS
  <2>1. ReservedSlot
    BY DEF IpcInv, IpcState, GapOK, StopOK, ReservedSlot
  <2> QED
    BY <2>1, InvTypeOK, InvPlansListed, InvRevocationInFlight DEF ControlKept
<1> QED
  BY <1>1, IpcInvHolds, PTL

\* For every setup: the worker's AA24NextCommand never delivers a token it has
\* delivered, however often the two sides resynchronise or the worker is restarted:
\* the floor it carries over is never below a token that was delivered.
THEOREM TokensAreOnce ==
  Spec => TokensOnce
<1>1. IpcInv /\ [Next]_vars => [w'.active # NoCommand /\ w'.active # w.active => w'.active.token \notin started]_vars
  BY IpcStep DEF NewOrNone
<1> QED
  BY <1>1, IpcInvHolds, PTL DEF Spec, TokensOnce
=============================================================================
