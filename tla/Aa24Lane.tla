------------------------------ MODULE Aa24Lane ------------------------------
(***************************************************************************)
(* One lane of localworker/aa24_ipc.go: a ring of slots in shared memory,  *)
(* with one producer and one consumer in different processes.              *)
(*                                                                         *)
(* A slot is written and copied word by word, in any order, and the peer   *)
(* may act between any two words; the indices are atomics.  Each side      *)
(* writes one of the two indices and keeps its own copy of both, which     *)
(* aa24Indices compares with what it loads.  A record is a value for each  *)
(* word; which records a lane carries (aa24Shape) is Aa24Ipc's subject,    *)
(* and a slot with cleared words is no record.  The counters of a lane and *)
(* its service budget are left out.                                        *)
(***************************************************************************)
EXTENDS Integers, Sequences

CONSTANTS
  Words,      \* the words of a slot
  Values,     \* what a word of a record may be
  Zero,       \* a cleared word
  Capacity,   \* slots of the lane
  Reserves,   \* slots a writer leaves free
  MaxIndex    \* the largest index, 2^64 - 1 in the code

ASSUME LaneAssumption ==
  /\ Capacity \in Nat \ {0} /\ MaxIndex \in Nat /\ Reserves \subseteq Nat
  /\ Zero \notin Values /\ Words # {}

LaneRecord == [Words -> Values]
Cleared == [x \in Words |-> Zero]

VARIABLES
  producer, consumer, slots,                         \* shared memory
  writer, localProducer, writerConsumer, unwritten,  \* the producing side and its view
  record,                                            \* the record aa24Write was given
  reader, localConsumer, readerProducer, uncopied,   \* the consuming side and its view
  copy,                                              \* aa24Peek's detached copy
  delivered                                          \* the record last read and released

laneVars == <<producer, consumer, slots, writer, localProducer, writerConsumer, unwritten, record,
              reader, localConsumer, readerProducer, uncopied, copy, delivered>>
writerVars == <<producer, slots, writer, localProducer, writerConsumer, unwritten, record>>
readerVars == <<consumer, reader, localConsumer, readerProducer, uncopied, copy, delivered>>

\* Both sides attach to a mapping whose indices are zero.
LaneInit ==
  /\ producer = 0 /\ consumer = 0 /\ slots = [i \in 0 .. Capacity - 1 |-> Cleared]
  /\ writer = "idle" /\ localProducer = 0 /\ writerConsumer = 0 /\ unwritten = {} /\ record = Cleared
  /\ reader = "idle" /\ localConsumer = 0 /\ readerProducer = 0 /\ uncopied = {} /\ copy = Cleared
  /\ delivered = Cleared

Slot(index) == index % Capacity

-----------------------------------------------------------------------------
(* aa24Indices: what a side accepts of the indices.  It loads both, and the *)
(* one it writes itself does not change in between.                        *)

Consistent(p, c) == c <= p /\ p - c <= Capacity
WriterAccepts == Consistent(producer, consumer) /\ producer = localProducer /\ consumer >= writerConsumer
ReaderAccepts == Consistent(producer, consumer) /\ consumer = localConsumer /\ producer >= readerProducer

-----------------------------------------------------------------------------
(* aa24Write                                                               *)

LaneHasRoom(reserve) == producer - consumer + reserve < Capacity

\* Mutant: the last index is not checked.
WritesPastTheEnd(r, reserve) ==
  /\ writer = "idle" /\ WriterAccepts
  /\ writerConsumer' = consumer
  /\ LaneHasRoom(reserve)
  /\ writer' = "clear" /\ unwritten' = Words /\ record' = r
  /\ UNCHANGED <<producer, slots, localProducer, readerVars>>

WriteBegins(r, reserve) ==
  /\ writer = "idle" /\ WriterAccepts
  /\ writerConsumer' = consumer
  /\ LaneHasRoom(reserve) /\ localProducer < MaxIndex
  /\ writer' = "clear" /\ unwritten' = Words /\ record' = r
  /\ UNCHANGED <<producer, slots, localProducer, readerVars>>

\* No room, or no index left: the record is refused.
WriteRefused(reserve) ==
  /\ writer = "idle" /\ WriterAccepts
  /\ writerConsumer' = consumer
  /\ LaneHasRoom(reserve) => localProducer = MaxIndex
  /\ UNCHANGED <<producer, slots, writer, localProducer, unwritten, record, readerVars>>

\* Mutant: the record is published when its first word is in place.
EncodePartly(x) ==
  /\ writer \in {"clear", "put"} /\ x \in unwritten
  /\ slots' = [slots EXCEPT ![Slot(localProducer)][x] = IF writer = "clear" THEN Zero ELSE record[x]]
  /\ IF writer = "clear"
     THEN IF unwritten # {x} THEN unwritten' = unwritten \ {x} /\ UNCHANGED writer
                             ELSE writer' = "put" /\ unwritten' = Words
     ELSE writer' = "publish" /\ unwritten' = {}
  /\ UNCHANGED <<producer, localProducer, writerConsumer, record, readerVars>>

\* aa24Encode clears the whole slot and then puts the fields.
EncodeWord(x) ==
  /\ writer \in {"clear", "put"} /\ x \in unwritten
  /\ slots' = [slots EXCEPT ![Slot(localProducer)][x] = IF writer = "clear" THEN Zero ELSE record[x]]
  /\ IF unwritten # {x}
     THEN unwritten' = unwritten \ {x} /\ UNCHANGED writer
     ELSE IF writer = "clear" THEN writer' = "put" /\ unwritten' = Words
                              ELSE writer' = "publish" /\ unwritten' = {}
  /\ UNCHANGED <<producer, localProducer, writerConsumer, record, readerVars>>

\* aa24StoreRelease of the producer index.
Publishes ==
  /\ writer = "publish"
  /\ producer' = localProducer + 1 /\ localProducer' = localProducer + 1
  /\ writer' = "idle"
  /\ UNCHANGED <<slots, writerConsumer, unwritten, record, readerVars>>

-----------------------------------------------------------------------------
(* aa24Peek, aa24Release and aa24Read                                      *)

PeekBegins ==
  /\ reader = "idle" /\ ReaderAccepts
  /\ readerProducer' = producer
  /\ IF producer = consumer THEN UNCHANGED <<reader, uncopied>> ELSE reader' = "copy" /\ uncopied' = Words
  /\ UNCHANGED <<consumer, localConsumer, copy, delivered, writerVars>>

\* Mutant: the copy is handed out when its first word is in place.
CopyPartly(x) ==
  /\ reader = "copy" /\ x \in uncopied
  /\ copy' = [copy EXCEPT ![x] = slots[Slot(localConsumer)][x]]
  /\ uncopied' = {} /\ reader' = "peeked"
  /\ UNCHANGED <<consumer, localConsumer, readerProducer, delivered, writerVars>>

CopyWord(x) ==
  /\ reader = "copy" /\ x \in uncopied
  /\ copy' = [copy EXCEPT ![x] = slots[Slot(localConsumer)][x]]
  /\ uncopied' = uncopied \ {x}
  /\ reader' = IF uncopied = {x} THEN "peeked" ELSE "copy"
  /\ UNCHANGED <<consumer, localConsumer, readerProducer, delivered, writerVars>>

\* The caller keeps the slot: it has no buffer for the record or no use for it yet.
PeekLeaves ==
  /\ reader = "peeked"
  /\ reader' = "idle"
  /\ UNCHANGED <<consumer, localConsumer, readerProducer, uncopied, copy, delivered, writerVars>>

\* Mutant: the consumer does not note the index it has stored.
ReleasesUnnoted ==
  /\ reader = "peeked" /\ copy \in LaneRecord /\ ReaderAccepts /\ producer # consumer
  /\ readerProducer' = producer
  /\ consumer' = localConsumer + 1
  /\ delivered' = copy /\ reader' = "idle"
  /\ UNCHANGED <<localConsumer, uncopied, copy, writerVars>>

\* aa24Release reloads the indices and stores the consumer index.
Releases ==
  /\ reader = "peeked" /\ copy \in LaneRecord /\ ReaderAccepts /\ producer # consumer
  /\ readerProducer' = producer
  /\ consumer' = localConsumer + 1 /\ localConsumer' = localConsumer + 1
  /\ delivered' = copy /\ reader' = "idle"
  /\ UNCHANGED <<uncopied, copy, writerVars>>

LaneNext ==
  \/ \E r \in LaneRecord, reserve \in Reserves : WriteBegins(r, reserve)
  \/ \E reserve \in Reserves : WriteRefused(reserve)
  \/ \E x \in Words : EncodeWord(x) \/ CopyWord(x)
  \/ Publishes \/ PeekBegins \/ PeekLeaves \/ Releases
LaneSpec == LaneInit /\ [][LaneNext]_laneVars

-----------------------------------------------------------------------------
(* Properties                                                              *)

LaneTypeOK ==
  /\ producer \in 0 .. MaxIndex /\ consumer \in 0 .. MaxIndex
  /\ slots \in [0 .. Capacity - 1 -> [Words -> Values \cup {Zero}]]
  /\ writer \in {"idle", "clear", "put", "publish"} /\ unwritten \subseteq Words
  /\ localProducer \in 0 .. MaxIndex /\ writerConsumer \in 0 .. MaxIndex
  /\ record \in LaneRecord \cup {Cleared}
  /\ reader \in {"idle", "copy", "peeked"} /\ uncopied \subseteq Words
  /\ localConsumer \in 0 .. MaxIndex /\ readerProducer \in 0 .. MaxIndex
  /\ {copy, delivered} \subseteq [Words -> Values \cup {Zero}]

\* Two sides that follow the protocol never meet ErrAA24Index, whichever slots
\* and indices they have written between each other's loads: the check in
\* aa24Indices only ever finds a peer that does not.
IndicesAccepted == WriterAccepts /\ ReaderAccepts

\* A peeked record is whole and is the next unread one, for as long as its caller
\* holds it: no write reaches its slot, so that a second peek finds it again.
PeekedIsHead == reader = "peeked" => producer # consumer /\ copy \in LaneRecord /\ copy = slots[Slot(consumer)]

\* What each side of a lane relies on while the other moves: typed memory, indices
\* that pass its check, and a peeked record that stays what it is.
LaneInv ==
  /\ LaneTypeOK
  /\ IndicesAccepted
  /\ PeekedIsHead

\* The ring is the bounded queue of records that the endpoints take it for: its
\* contents are the slots between the two indices, a slot joins when the producer
\* index is stored and leaves when the consumer index is, and what is read is what
\* was written, in that order.
Unread == [i \in 1 .. producer - consumer |-> slots[Slot(consumer + i - 1)]]
Fifo == INSTANCE Aa24Fifo WITH Records <- LaneRecord, Nothing <- Cleared, queue <- Unread
ImplementsFifo == Fifo!Spec
=============================================================================
