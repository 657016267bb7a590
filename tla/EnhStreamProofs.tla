-------------------------- MODULE EnhStreamProofs --------------------------
(***************************************************************************)
(* Machine-checked proofs about EnhStream, for any adapter, any bound of   *)
(* the queue, any absorption budget and any operations in any order: the   *)
(* event queue keeps its bound and its pairs, and no symbol is decoded     *)
(* with an 0xA9 it does not belong to.                                     *)
(***************************************************************************)
EXTENDS EnhStream, SequenceTheorems, WellFoundedInduction, TLAPS

-----------------------------------------------------------------------------
(* The inductive invariant.                                                *)

Items == [kind : Kinds, byte : 0 .. 255, flag : BOOLEAN]
Decoders == [escape : BOOLEAN, absorbed : 0 .. MaxAaAbsorptionsPerEscapePair]
Leads == {"none", "live", "discarded", "stale", "mispaired"}

\* Where no symbol is decoded for a reader, or the decoder is reset before.
Guarded ==
  awaitingStart \/ connDown \/ op = "StartArbitration" \/ pc \in {"started", "failed"}

LeadInv ==
  "Init" \notin setup.operations /\ ~setup.dialFails /\ ~setup.writeFails =>
    /\ lead \in {"none", "live", "discarded"}
    /\ escDecoder.escape => lead # "none"
    /\ lead = "discarded" => Guarded
    /\ lead = "discarded" => pc \notin {"initRead", "initTimedOut", "initMsgs", "initFault"}
    /\ ~escapeResetPending /\ wpc # "rollback"

\* Messages are taken from a connection that is up, only readers serve the queue,
\* and no operation is left over once readMu is free.
FlowInv ==
  /\ (pc \in {"msgs", "expired", "started", "failed"} /\ Passive) => ~connDown
  /\ pc = "idle" => op = "none"
  /\ pc = "serve" => Reading
  /\ pc = "infoFail" => op = "RequestInfo"

StreamInv == QueueInv /\ LeadInv /\ FlowInv

-----------------------------------------------------------------------------
(* Queues whose raw items have their logical item behind them.             *)

Completing(e) == e.kind = "raw" /\ e.flag
Completes(e, next) ==
  /\ next.kind \in {"byte", "wireSyn"}
  /\ next.byte = IF next.flag THEN SymbolEscape + e.byte ELSE e.byte
Paired(q) == \A i \in 1 .. Len(q) : Completing(q[i]) => i < Len(q) /\ Completes(q[i], q[i + 1])
QueueOK(q, n) == q \in Seq(Items) /\ Len(q) <= n /\ Paired(q)

LEMMA EmptyQueue ==
  ASSUME NEW n \in Nat
  PROVE  QueueOK(<<>>, n)
BY EmptySeq DEF QueueOK, Paired

LEMMA LargerQueue ==
  ASSUME NEW n \in Nat, NEW m \in Nat, n <= m, NEW q, QueueOK(q, n)
  PROVE  QueueOK(q, m)
BY DEF QueueOK

LEMMA AppendQueue ==
  ASSUME NEW n \in Nat, NEW q, QueueOK(q, n), NEW e \in Items, ~Completing(e)
  PROVE  QueueOK(Append(q, e), n + 1)
<1> DEFINE r == Append(q, e)
<1>1. q \in Seq(Items) /\ Len(q) \in Nat /\ Len(q) <= n /\ Paired(q)
  BY DEF QueueOK
<1>2. /\ r \in Seq(Items) /\ Len(r) = Len(q) + 1
      /\ \A i \in 1 .. Len(q) : r[i] = q[i]
      /\ r[Len(q) + 1] = e
  BY <1>1, AppendProperties
<1> HIDE DEF r
<1>3. Paired(r)
  <2> SUFFICES ASSUME NEW i \in 1 .. Len(r), Completing(r[i])
               PROVE  i < Len(r) /\ Completes(r[i], r[i + 1])
    BY DEF Paired
  <2>1. i \in 1 .. Len(q)
    BY <1>1, <1>2
  <2>2. i < Len(q) /\ Completes(q[i], q[i + 1])
    BY <1>1, <1>2, <2>1 DEF Paired
  <2> QED
    BY <1>1, <1>2, <2>1, <2>2
<1> QED
  BY <1>1, <1>2, <1>3 DEF QueueOK, r

LEMMA AppendPair ==
  ASSUME NEW n \in Nat, NEW q, QueueOK(q, n), NEW e \in Items, NEW next \in Items, Completes(e, next)
  PROVE  QueueOK(q \o <<e, next>>, n + 2)
<1> DEFINE r == q \o <<e, next>>
<1>1. q \in Seq(Items) /\ Len(q) \in Nat /\ Len(q) <= n /\ Paired(q)
  BY DEF QueueOK
<1>2. /\ <<e, next>> \in Seq(Items) /\ Len(<<e, next>>) = 2
      /\ <<e, next>>[1] = e /\ <<e, next>>[2] = next
  OBVIOUS
<1>3. /\ r \in Seq(Items) /\ Len(r) = Len(q) + 2
      /\ \A i \in 1 .. Len(q) + 2 : r[i] = IF i <= Len(q) THEN q[i] ELSE <<e, next>>[i - Len(q)]
  BY <1>1, <1>2, ConcatProperties
<1>4. /\ \A i \in 1 .. Len(q) : r[i] = q[i]
      /\ r[Len(q) + 1] = e /\ r[Len(q) + 2] = next
  BY <1>1, <1>2, <1>3
<1> HIDE DEF r
<1>5. Paired(r)
  <2> SUFFICES ASSUME NEW i \in 1 .. Len(r), Completing(r[i])
               PROVE  i < Len(r) /\ Completes(r[i], r[i + 1])
    BY DEF Paired
  <2>1. CASE i \in 1 .. Len(q)
    <3>1. i < Len(q) /\ Completes(q[i], q[i + 1])
      BY <1>1, <1>4, <2>1 DEF Paired
    <3> QED
      BY <1>1, <1>3, <1>4, <2>1, <3>1
  <2>2. CASE i = Len(q) + 1
    <3>1. i + 1 = Len(q) + 2 /\ i < Len(r)
      BY <1>1, <1>3, <2>2
    <3> QED
      BY <1>4, <2>2, <3>1
  <2>3. CASE i = Len(q) + 2
    BY <1>4, <2>3 DEF Completing, Completes
  <2> QED
    BY <1>1, <1>3, <2>1, <2>2, <2>3
<1> QED
  BY <1>1, <1>3, <1>5 DEF QueueOK, r

\* What is taken off the front leaves the rest paired.
LEMMA RestQueue ==
  ASSUME NEW n \in Nat, NEW q, QueueOK(q, n), NEW k \in Nat
  PROVE  QueueOK(SubSeq(q, k + 1, Len(q)), n)
<1> DEFINE r == SubSeq(q, k + 1, Len(q))
<1>1. q \in Seq(Items) /\ Len(q) \in Nat /\ Len(q) <= n /\ Paired(q)
  BY DEF QueueOK
<1>2. \A i \in k + 1 .. Len(q) : q[i] \in Items
  <2> TAKE i \in k + 1 .. Len(q)
  <2>1. i \in 1 .. Len(q)
    BY <1>1
  <2> QED
    BY <1>1, <2>1, ElementOfSeq
<1>3. /\ r \in Seq(Items) /\ Len(r) = IF k + 1 <= Len(q) THEN Len(q) - k ELSE 0
      /\ \A i \in 1 .. Len(q) - k : r[i] = q[k + i]
  <2>1. k + 1 \in Int /\ Len(q) \in Int /\ Len(q) - (k + 1) + 1 = Len(q) - k
    BY <1>1
  <2>2. /\ r \in Seq(Items) /\ Len(r) = IF k + 1 <= Len(q) THEN Len(q) - (k + 1) + 1 ELSE 0
        /\ \A i \in 1 .. Len(q) - (k + 1) + 1 : r[i] = q[k + 1 + i - 1]
    BY <1>2, <2>1, SubSeqProperties
  <2> HIDE DEF r
  <2>3. \A i \in 1 .. Len(q) - k : r[i] = q[k + i]
    <3> TAKE i \in 1 .. Len(q) - k
    <3>1. k + 1 + i - 1 = k + i
      BY <1>1
    <3> QED
      BY <2>1, <2>2, <3>1
  <2> QED
    BY <2>1, <2>2, <2>3
<1> HIDE DEF r
<1>4. Paired(r)
  <2> SUFFICES ASSUME NEW i \in 1 .. Len(r), Completing(r[i])
               PROVE  i < Len(r) /\ Completes(r[i], r[i + 1])
    BY DEF Paired
  <2>1. i \in 1 .. Len(q) - k /\ Len(r) = Len(q) - k /\ k + i \in 1 .. Len(q)
    BY <1>1, <1>3
  <2>2. k + i < Len(q) /\ Completes(q[k + i], q[k + i + 1])
    BY <1>1, <1>3, <2>1 DEF Paired
  <2>3. i + 1 \in 1 .. Len(q) - k /\ k + (i + 1) = k + i + 1
    BY <1>1, <2>1, <2>2
  <2> QED
    BY <1>1, <1>3, <2>1, <2>2, <2>3
<1> QED
  BY <1>1, <1>3, <1>4 DEF QueueOK, r

\* Arithmetic on its own, where the solver does not meet sequences.
LEMMA Halves ==
  ASSUME NEW l \in Int, NEW i \in Int, NEW n \in Int, NEW a \in Int, NEW b \in Int,
         a = i - 1, b = l - i - n + 1
  PROVE  a + b = l - n
OBVIOUS

LEMMA UpperHalf ==
  ASSUME NEW l \in Int, NEW i \in Int, NEW n \in Int, NEW k \in 1 .. l - n, ~(k < i),
         NEW a, a = i - 1
  PROVE  ~(k <= a) /\ k - a \in 1 .. l - i - n + 1 /\ i + n + (k - a) - 1 = k + n
OBVIOUS

LEMMA UpperLength ==
  ASSUME NEW l \in Int, NEW i \in Int, NEW n \in Int, i + n - 1 <= l,
         NEW b, b = IF i + n <= l THEN l - (i + n) + 1 ELSE 0
  PROVE  b = l - i - n + 1
OBVIOUS

\* Taking n items out of a sequence, from position i on.
Without(q, i, n) == SubSeq(q, 1, i - 1) \o SubSeq(q, i + n, Len(q))

LEMMA Removed ==
  ASSUME NEW q \in Seq(Items), NEW i \in 1 .. Len(q), NEW n \in {1, 2}, i + n - 1 <= Len(q)
  PROVE  /\ Without(q, i, n) \in Seq(Items) /\ Len(Without(q, i, n)) = Len(q) - n
         /\ \A k \in 1 .. Len(Without(q, i, n)) :
              Without(q, i, n)[k] = IF k < i THEN q[k] ELSE q[k + n]
<1> DEFINE r == Without(q, i, n)
           a == SubSeq(q, 1, i - 1)
           b == SubSeq(q, i + n, Len(q))
<1>4. Len(q) \in Nat /\ i \in Nat /\ 1 <= i /\ i <= Len(q) /\ n \in Nat /\ Len(q) \in Int /\ i \in Int /\ n \in Int
  OBVIOUS
<1>1. a \in Seq(Items) /\ Len(a) = i - 1 /\ \A k \in 1 .. i - 1 : a[k] = q[k]
  OBVIOUS
<1>2. b \in Seq(Items) /\ Len(b) = Len(q) - i - n + 1 /\ \A k \in 1 .. Len(q) - i - n + 1 : b[k] = q[i + n + k - 1]
  <2>1. i + n \in Int /\ Len(q) \in Nat /\ Len(q) \in Int /\ \A j \in i + n .. Len(q) : q[j] \in Items
    BY ElementOfSeq
  <2>2. /\ b \in Seq(Items) /\ Len(b) = IF i + n <= Len(q) THEN Len(q) - (i + n) + 1 ELSE 0
        /\ \A k \in 1 .. Len(q) - (i + n) + 1 : b[k] = q[i + n + k - 1]
    BY <2>1, SubSeqProperties
  <2> HIDE DEF b
  <2>3. Len(q) - i - n + 1 = Len(q) - (i + n) + 1
    BY <2>1
  <2>4. Len(b) = Len(q) - i - n + 1
    BY <1>4, <2>2, UpperLength
  <2> QED
    BY <2>2, <2>3, <2>4
<1>3. r = a \o b
  BY DEF Without
<1> HIDE DEF a, b, r
<1>5. /\ a \o b \in Seq(Items)
      /\ Len(a \o b) = Len(a) + Len(b)
      /\ \A k \in 1 .. Len(a) + Len(b) : (a \o b)[k] = IF k <= Len(a) THEN a[k] ELSE b[k - Len(a)]
  BY <1>1, <1>2, ConcatProperties
<1>6. Len(a) \in Int /\ Len(b) \in Int
  BY <1>1, <1>2, LenProperties
<1>7. Len(a) + Len(b) = Len(q) - n
  BY <1>1, <1>2, <1>4, <1>6, Halves
<1>8. \A k \in 1 .. Len(q) - n : r[k] = IF k <= Len(a) THEN a[k] ELSE b[k - Len(a)]
  BY <1>3, <1>5, <1>7
<1>9. ASSUME NEW k \in 1 .. Len(q) - n, k < i PROVE r[k] = q[k]
  <2>1. k \in 1 .. i - 1 /\ k <= Len(a)
    BY <1>1, <1>4, <1>9
  <2> QED
    BY <1>1, <1>8, <2>1
<1>10. ASSUME NEW k \in 1 .. Len(q) - n, ~(k < i) PROVE r[k] = q[k + n]
  <2>1. ~(k <= Len(a)) /\ k - Len(a) \in 1 .. Len(q) - i - n + 1 /\ i + n + (k - Len(a)) - 1 = k + n
    BY <1>1, <1>4, <1>10, UpperHalf
  <2> QED
    BY <1>2, <1>8, <2>1
<1>11. r \in Seq(Items) /\ Len(r) = Len(q) - n
  BY <1>3, <1>5, <1>7
<1> QED
  BY <1>9, <1>10, <1>11 DEF r

\* Eviction removes a raw item with its logical item, and never one of the two.
LEMMA EvictedQueue ==
  ASSUME NEW n \in Nat, NEW q, QueueOK(q, n), q # <<>>
  PROVE  n - 1 \in Nat /\ QueueOK(Evicted(q), n - 1)
<1>1. q \in Seq(Items) /\ Len(q) \in Nat /\ Len(q) >= 1 /\ Len(q) <= n /\ Paired(q)
  BY EmptySeq, LenProperties DEF QueueOK
<1>2. CASE \E i \in 1 .. Len(q) : Evictable(q[i])
  <2> DEFINE First(i) == i \in 1 .. Len(q) /\ Evictable(q[i]) /\ \A j \in 1 .. i - 1 : ~Evictable(q[j])
             i == CHOOSE i \in 1 .. Len(q) : Evictable(q[i]) /\ \A j \in 1 .. i - 1 : ~Evictable(q[j])
             m == IF q[i].kind = "raw" /\ q[i].flag THEN 2 ELSE 1
             r == Without(q, i, m)
  <2>1. \E k \in 1 .. Len(q) : Evictable(q[k]) /\ \A j \in 1 .. k - 1 : ~Evictable(q[j])
    <3> DEFINE S == {k \in Nat : k \in 1 .. Len(q) /\ Evictable(q[k])}
    <3>1. S \in SUBSET Nat /\ S # {}
      BY <1>1, <1>2
    <3>2. PICK k \in S : \A j \in S : ~(<<j, k>> \in OpToRel(<, Nat))
      BY <3>1, NatLessThanWellFounded, WFMin
    <3>3. \A j \in S : ~(j < k)
      BY <3>2 DEF OpToRel
    <3>4. k \in 1 .. Len(q) /\ Evictable(q[k])
      BY <3>2
    <3>5. ASSUME NEW j \in 1 .. k - 1 PROVE ~Evictable(q[j])
      <4>1. j \in Nat /\ j \in 1 .. Len(q) /\ j < k
        BY <1>1, <3>4
      <4> QED
        BY <3>3, <4>1
    <3> QED
      BY <3>4, <3>5
  <2>2. i \in 1 .. Len(q) /\ Evictable(q[i]) /\ \A j \in 1 .. i - 1 : ~Evictable(q[j])
    BY <2>1, Zenon
  <2>3. Evicted(q) = r
    BY <1>2 DEF Evicted, Without
  <2> HIDE DEF i
  <2>4. m \in {1, 2} /\ i + m - 1 <= Len(q)
    BY <1>1, <2>2 DEF Paired, Completing
  <2> HIDE DEF m
  <2>5. /\ r \in Seq(Items) /\ Len(r) = Len(q) - m
        /\ \A k \in 1 .. Len(r) : r[k] = IF k < i THEN q[k] ELSE q[k + m]
    BY <1>1, <2>2, <2>4, Removed
  <2> HIDE DEF r
  <2>6. Paired(r)
    <3> SUFFICES ASSUME NEW k \in 1 .. Len(r), Completing(r[k])
                 PROVE  k < Len(r) /\ Completes(r[k], r[k + 1])
      BY DEF Paired
    <3>1. ~(k < i)
      <4> SUFFICES ASSUME k < i PROVE FALSE
        OBVIOUS
      <4>1. r[k] = q[k] /\ k \in 1 .. i - 1
        BY <1>1, <2>2, <2>5
      <4> QED
        BY <2>2, <4>1 DEF Completing, Evictable
    <3>2. r[k] = q[k + m] /\ k + m \in 1 .. Len(q)
      BY <1>1, <2>2, <2>4, <2>5, <3>1
    <3>3. k + m < Len(q) /\ Completes(q[k + m], q[k + m + 1])
      BY <1>1, <3>2 DEF Paired
    <3>4. k + 1 \in 1 .. Len(r) /\ ~(k + 1 < i) /\ k + 1 + m = k + m + 1 /\ k < Len(r)
      BY <1>1, <2>2, <2>4, <2>5, <3>1, <3>3
    <3>5. r[k + 1] = q[k + 1 + m]
      BY <2>5, <3>4
    <3> QED
      BY <3>2, <3>3, <3>4, <3>5
  <2> QED
    BY <1>1, <2>3, <2>4, <2>5, <2>6 DEF QueueOK
<1>3. CASE ~\E i \in 1 .. Len(q) : Evictable(q[i])
  <2>1. Evicted(q) = SubSeq(q, 2, Len(q)) /\ Evicted(q) = Tail(q)
    BY <1>1, <1>3, TailIsSubSeq DEF Evicted
  <2>2. QueueOK(SubSeq(q, 1 + 1, Len(q)), n)
    BY RestQueue
  <2>3. Evicted(q) \in Seq(Items) /\ Len(Evicted(q)) = Len(q) - 1
    BY <1>1, <2>1, HeadTailProperties
  <2> QED
    BY <1>1, <2>1, <2>2, <2>3 DEF QueueOK
<1> QED
  BY <1>2, <1>3

-----------------------------------------------------------------------------
(* What the queue operations and the decoder keep.                         *)

LEMMA Capacity ==
  ASSUME QueueInv
  PROVE  /\ setup.maxPendingEvents \in Nat \ {0} /\ pendingCap \in Nat \ {0}
         /\ rawSymbolItems \in BOOLEAN /\ QueueOK(pendingEvents, pendingCap)
<1>1. setup.maxPendingEvents \in Nat \ {0} /\ rawSymbolItems \in BOOLEAN
  BY SetupsAssumption DEF QueueInv, TypeOK
<1>2. pendingCap \in Nat \ {0}
  BY <1>1 DEF pendingCap
<1>3. Paired(pendingEvents)
  BY DEF QueueInv, RawPairs, Paired, Completing, Completes
<1> QED
  BY <1>1, <1>2, <1>3 DEF QueueInv, TypeOK, QueueOK, Items

\* What the decoder makes of a symbol: nothing, the symbol or the value of a pair.
LEMMA FeedCases ==
  \A d \in Decoders, raw \in 0 .. 255, late \in BOOLEAN :
    \/ \E e \in Decoders :
         /\ Feed(d, raw, late) = Nothing(e)
         /\ (e.escape /\ e.absorbed > 0) => (d.escape /\ ~late)
    \/ Feed(d, raw, late) = Decoded(Idle, TRUE, raw, FALSE)
    \/ raw \in {0, 1} /\ Feed(d, raw, late) = Decoded(Idle, TRUE, SymbolEscape + raw, TRUE)
<1> TAKE d \in Decoders, raw \in 0 .. 255, late \in BOOLEAN
<1>1. MaxAaAbsorptionsPerEscapePair \in Nat
  BY CapsAssumption
<1>2. Idle \in Decoders /\ [escape |-> TRUE, absorbed |-> 0] \in Decoders
  BY <1>1 DEF Decoders, Idle
<1>3. CASE ~d.escape \/ late
  <2>1. Feed(d, raw, late) = feedNormal(raw)
    BY <1>3 DEF Feed, feedPending
  <2>2. CASE raw = SymbolEscape
    <3>1. Feed(d, raw, late) = Nothing([escape |-> TRUE, absorbed |-> 0])
      BY <2>1, <2>2 DEF feedNormal
    <3>2. ~([escape |-> TRUE, absorbed |-> 0].absorbed > 0)
      OBVIOUS
    <3> QED
      BY <1>2, <3>1, <3>2
  <2>3. CASE raw # SymbolEscape
    BY <2>1, <2>3 DEF feedNormal
  <2> QED
    BY <2>2, <2>3
<1>4. CASE d.escape /\ ~late
  <2>1. CASE raw \in {0, 1}
    <3>1. raw # ebusSymbolSyn
      BY <2>1 DEF ebusSymbolSyn
    <3> QED
      BY <1>4, <2>1, <3>1 DEF Feed, feedPending
  <2>2. CASE raw = ebusSymbolSyn /\ d.absorbed < MaxAaAbsorptionsPerEscapePair
    <3>1. raw \notin {0, 1}
      BY <2>2 DEF ebusSymbolSyn
    <3>2. Feed(d, raw, late) = Nothing([d EXCEPT !.absorbed = @ + 1])
      BY <1>4, <2>2, <3>1 DEF Feed, feedPending
    <3>3. [d EXCEPT !.absorbed = @ + 1] \in Decoders
      BY <1>1, <2>2 DEF Decoders
    <3> QED
      BY <1>4, <3>2, <3>3
  <2>3. CASE raw \notin {0, 1} /\ ~(raw = ebusSymbolSyn /\ d.absorbed < MaxAaAbsorptionsPerEscapePair)
    <3>1. Feed(d, raw, late) = Nothing(Idle)
      BY <1>4, <2>3 DEF Feed, feedPending
    <3> QED
      BY <1>2, <1>4, <3>1
  <2> QED
    BY <2>1, <2>2, <2>3
<1> QED
  BY <1>3, <1>4

LEMMA FeedDecoders ==
  \A d \in Decoders, raw \in 0 .. 255, late \in BOOLEAN :
    /\ Feed(d, raw, late).d \in Decoders
    /\ (Feed(d, raw, late).d.escape /\ Feed(d, raw, late).d.absorbed > 0) => (d.escape /\ ~late)
<1> TAKE d \in Decoders, raw \in 0 .. 255, late \in BOOLEAN
<1> DEFINE f == Feed(d, raw, late)
<1>1. Idle \in Decoders /\ ~Idle.escape
  BY CapsAssumption DEF Decoders, Idle
<1>2. \/ \E e \in Decoders :
           /\ f = Nothing(e)
           /\ (e.escape /\ e.absorbed > 0) => (d.escape /\ ~late)
      \/ f = Decoded(Idle, TRUE, raw, FALSE)
      \/ f = Decoded(Idle, TRUE, SymbolEscape + raw, TRUE)
  BY FeedCases
<1> HIDE DEF f
<1>3. CASE \E e \in Decoders : f = Nothing(e) /\ ((e.escape /\ e.absorbed > 0) => (d.escape /\ ~late))
  BY <1>3 DEF Nothing, Decoded, f
<1>4. CASE f.d = Idle
  BY <1>1, <1>4 DEF f
<1> QED
  BY <1>2, <1>3, <1>4 DEF Decoded

LEMMA FeedBytes ==
  \A d \in Decoders, raw \in 0 .. 255, late \in BOOLEAN :
    /\ Feed(d, raw, late).byte \in 0 .. 255
    /\ Feed(d, raw, late).wasEscaped \in BOOLEAN
    /\ Feed(d, raw, late).ok =>
         Feed(d, raw, late).byte = IF Feed(d, raw, late).wasEscaped THEN SymbolEscape + raw ELSE raw
<1> TAKE d \in Decoders, raw \in 0 .. 255, late \in BOOLEAN
<1> DEFINE f == Feed(d, raw, late)
<1>1. \/ \E e \in Decoders : f = Nothing(e)
      \/ f = Decoded(Idle, TRUE, raw, FALSE)
      \/ raw \in {0, 1} /\ f = Decoded(Idle, TRUE, SymbolEscape + raw, TRUE)
  BY FeedCases
<1> HIDE DEF f
<1>2. CASE \E e \in Decoders : f = Nothing(e)
  BY <1>2 DEF Nothing, Decoded, f
<1>3. CASE f = Decoded(Idle, TRUE, raw, FALSE)
  BY <1>3 DEF Decoded, f
<1>4. CASE raw \in {0, 1} /\ f = Decoded(Idle, TRUE, SymbolEscape + raw, TRUE)
  BY <1>4 DEF Decoded, SymbolEscape, f
<1> QED
  BY <1>1, <1>2, <1>3, <1>4

\* A discarded symbol may leave a discarded lead, and pairs with nothing.
LEMMA FeedDiscards ==
  ASSUME NEW d \in Decoders, NEW raw \in 0 .. 255, NEW late \in BOOLEAN, lead \in Leads,
         FeedDecoder(d, raw, late, TRUE)
  PROVE  /\ escDecoder' \in Decoders /\ lead' \in Leads
         /\ lead \in {"none", "live", "discarded"} => lead' \in {"none", "live", "discarded"}
         /\ (d.escape => lead # "none") => (escDecoder'.escape => lead' # "none")
<1>1. /\ escDecoder' \in Decoders
      /\ (escDecoder'.escape /\ escDecoder'.absorbed > 0) => (d.escape /\ ~late)
  BY FeedDecoders DEF FeedDecoder
<1>2. lead' = IF ~escDecoder'.escape THEN "none"
              ELSE IF escDecoder'.absorbed > 0 THEN lead ELSE "discarded"
  BY DEF FeedDecoder
<1> QED
  BY <1>1, <1>2 DEF Leads

\* A delivered symbol is paired with a live lead or with none.
LEMMA FeedDelivers ==
  ASSUME NEW d \in Decoders, NEW raw \in 0 .. 255, NEW late \in BOOLEAN, lead \in Leads,
         FeedDecoder(d, raw, late, FALSE)
  PROVE  /\ escDecoder' \in Decoders /\ lead' \in Leads
         /\ (d.escape => lead = "live") =>
              /\ lead' \in {"none", "live"}
              /\ escDecoder'.escape => lead' # "none"
<1>1. /\ escDecoder' \in Decoders
      /\ (escDecoder'.escape /\ escDecoder'.absorbed > 0) => (d.escape /\ ~late)
  BY FeedDecoders DEF FeedDecoder
<1>2. lead' = IF d.escape /\ ~late /\ lead # "live" THEN "mispaired"
              ELSE IF ~escDecoder'.escape THEN "none"
              ELSE IF escDecoder'.absorbed > 0 THEN lead ELSE "live"
  BY DEF FeedDecoder
<1>3. lead' \in Leads
  BY <1>2 DEF Leads
<1>4. ASSUME d.escape => lead = "live"
      PROVE  lead' \in {"none", "live"} /\ (escDecoder'.escape => lead' # "none")
  BY <1>1, <1>2, <1>4
<1> QED
  BY <1>1, <1>3, <1>4

LEMMA LogicalKeeps ==
  ASSUME QueueInv, NEW symbol \in 0 .. 255, NEW logical \in Items,
         ~Completing(logical), Completes(RawSymbol(symbol, TRUE), logical),
         QueueLogical(symbol, logical)
  PROVE  QueueOK(pendingEvents', pendingCap)
<1> DEFINE e == RawSymbol(symbol, TRUE)
<1>1. pendingCap \in Nat /\ QueueOK(pendingEvents, pendingCap) /\ Len(pendingEvents) \in Nat
  BY Capacity DEF QueueOK
<1>2. QueueOK(pendingEvents, Len(pendingEvents))
  BY <1>1 DEF QueueOK
<1>3. e \in Items
  BY DEF RawSymbol, Items, Kinds
<1>4. CASE pendingEvents' = pendingEvents
  BY <1>1, <1>4
<1>5. CASE Room(pendingEvents, 1) /\ pendingEvents' = Append(pendingEvents, logical)
  <2>1. Len(pendingEvents) + 1 <= pendingCap /\ Len(pendingEvents) + 1 \in Nat
    BY <1>1, <1>5 DEF Room
  <2>2. QueueOK(Append(pendingEvents, logical), Len(pendingEvents) + 1)
    BY <1>1, <1>2, AppendQueue
  <2> QED
    BY <1>1, <1>5, <2>1, <2>2, LargerQueue
<1>6. CASE Room(pendingEvents, 2) /\ pendingEvents' = pendingEvents \o <<e, logical>>
  <2>1. Len(pendingEvents) + 2 <= pendingCap /\ Len(pendingEvents) + 2 \in Nat
    BY <1>1, <1>6 DEF Room
  <2> HIDE DEF e
  <2>2. QueueOK(pendingEvents \o <<e, logical>>, Len(pendingEvents) + 2)
    BY <1>1, <1>2, <1>3, AppendPair DEF e
  <2> QED
    BY <1>1, <1>6, <2>1, <2>2, LargerQueue
<1> QED
  BY <1>4, <1>5, <1>6 DEF QueueLogical

LEMMA LeadKeeps ==
  ASSUME QueueInv, NEW symbol \in 0 .. 255, QueueLead(symbol)
  PROVE  QueueOK(pendingEvents', pendingCap)
<1> DEFINE e == RawSymbol(symbol, FALSE)
<1>1. pendingCap \in Nat /\ QueueOK(pendingEvents, pendingCap) /\ Len(pendingEvents) \in Nat
  BY Capacity DEF QueueOK
<1>2. QueueOK(pendingEvents, Len(pendingEvents))
  BY <1>1 DEF QueueOK
<1>3. e \in Items /\ ~Completing(e)
  BY DEF RawSymbol, Items, Kinds, Completing
<1>4. CASE Room(pendingEvents, 3) /\ pendingEvents' = Append(pendingEvents, e)
  <2>1. Len(pendingEvents) + 1 <= pendingCap /\ Len(pendingEvents) + 1 \in Nat
    BY <1>1, <1>4 DEF Room
  <2> HIDE DEF e
  <2>2. QueueOK(Append(pendingEvents, e), Len(pendingEvents) + 1)
    BY <1>1, <1>2, <1>3, AppendQueue
  <2> QED
    BY <1>1, <1>4, <2>1, <2>2, LargerQueue
<1> QED
  BY <1>1, <1>4 DEF QueueLead

LEMMA ControlKeeps ==
  ASSUME QueueInv, NEW kind \in {"started", "failed", "reset"}, QueueControl(kind)
  PROVE  QueueOK(pendingEvents', pendingCap)
<1> DEFINE e == Control(kind)
<1>1. pendingCap \in Nat \ {0} /\ QueueOK(pendingEvents, pendingCap) /\ Len(pendingEvents) \in Nat
  BY Capacity DEF QueueOK
<1>2. QueueOK(pendingEvents, Len(pendingEvents))
  BY <1>1 DEF QueueOK
<1>3. e \in Items /\ ~Completing(e)
  BY DEF Control, Items, Kinds, Completing
<1>4. CASE Room(pendingEvents, 1)
  <2>1. Len(pendingEvents) + 1 <= pendingCap /\ Len(pendingEvents) + 1 \in Nat
    BY <1>1, <1>4 DEF Room
  <2>2. pendingEvents' = Append(pendingEvents, e)
    BY <1>4 DEF QueueControl
  <2> HIDE DEF e
  <2>3. QueueOK(Append(pendingEvents, e), Len(pendingEvents) + 1)
    BY <1>1, <1>2, <1>3, AppendQueue
  <2> QED
    BY <1>1, <2>1, <2>2, <2>3, LargerQueue
<1>5. CASE ~Room(pendingEvents, 1)
  <2>1. pendingEvents # <<>>
    BY <1>1, <1>5, EmptySeq DEF Room
  <2>2. pendingEvents' = Append(Evicted(pendingEvents), e)
    BY <1>5 DEF QueueControl
  <2> HIDE DEF e
  <2>3. pendingCap - 1 \in Nat /\ QueueOK(Evicted(pendingEvents), pendingCap - 1)
    BY <1>1, <2>1, EvictedQueue
  <2>4. QueueOK(pendingEvents', pendingCap - 1 + 1)
    BY <1>3, <2>2, <2>3, AppendQueue
  <2>5. pendingCap - 1 + 1 = pendingCap
    BY <1>1
  <2> QED
    BY <2>4, <2>5
<1> QED
  BY <1>4, <1>5

-----------------------------------------------------------------------------
(* The steps.  Everything but the queue and the decoder first.             *)

NamesOK ==
  /\ setup \in Setups
  /\ pc \in {"idle", "serve", "read", "timedOut", "msgs", "fault", "expired", "started", "failed",
             "infoFail", "reconnect", "initRead", "initTimedOut", "initMsgs", "initFault"}
  /\ op \in AllOperations \cup {"none"}
  /\ progress \in {"waiting", "granted", "failed", "payload", "done", "reset"}
  /\ arbitrationDeadline \in {"none", "armed", "expired"}
  /\ postGrantPreEcho \in {"closed", "open", "expired"}
  /\ wpc \in {"idle", "armed", "write", "rollback"}

FlagsOK ==
  /\ got \in BOOLEAN /\ connDown \in BOOLEAN /\ parser \in BOOLEAN /\ half \in BOOLEAN
  /\ rawSymbolItems \in BOOLEAN /\ deferredErr \in BOOLEAN
  /\ awaitingStart \in BOOLEAN /\ escapeResetPending \in BOOLEAN
  /\ outstanding \in BOOLEAN /\ staleTimeout \in BOOLEAN

CountersOK == mismatchCount \in 0 .. 3 /\ resets \in Nat

LEMMA Parts ==
  QueueInv <=> /\ NamesOK /\ FlagsOK /\ CountersOK /\ escDecoder \in Decoders /\ lead \in Leads
               /\ QueueOK(pendingEvents, pendingCap)
<1>1. TypeOK <=> /\ NamesOK /\ FlagsOK /\ CountersOK /\ escDecoder \in Decoders /\ lead \in Leads
                 /\ pendingEvents \in Seq(Items) /\ Len(pendingEvents) <= pendingCap
  BY Zenon DEF NamesOK, FlagsOK, CountersOK, TypeOK, Items, Decoders, Leads
<1>2. RawPairs <=> Paired(pendingEvents)
  BY DEF Paired, RawPairs, Completing, Completes
<1> QED
  BY <1>1, <1>2 DEF QueueInv, QueueOK

\* The symbols of the adapter are bytes.
LEMMA SymbolsAreBytes ==
  ASSUME setup \in Setups, NEW symbol \in setup.symbols
  PROVE  symbol \in 0 .. 255
BY SetupsAssumption

LEMMA NamesStep ==
  ASSUME NamesOK, Next
  PROVE  NamesOK'
<1>1. CASE Begin
  BY <1>1 DEF AllOperations, streamVars, queueVars, decVars, windowVars, localVars, ghostVars, BeginRead,
    WriteMuFree, BeginArbitration, BeginInfo, BeginInit, BeginReconnect, Begin, NamesOK
<1>2. CASE ServeReset
  BY <1>2 DEF streamVars, decVars, windowVars, localVars, ghostVars, Return, ServeReset, NamesOK
<1>3. CASE ServeEvent
  BY <1>3 DEF streamVars, decVars, windowVars, localVars, ghostVars, Goto, Return, ServeEvent, NamesOK
<1>4. CASE ServeEmpty
  BY <1>4 DEF streamVars, decVars, windowVars, localVars, ghostVars, Goto, Return, ServeEmpty, NamesOK
<1>5. CASE ReadTimeout
  BY <1>5 DEF streamVars, queueVars, decVars, windowVars, localVars, Goto, ReadTimeout, NamesOK
<1>6. CASE ReadData
  BY <1>6 DEF queueVars, decVars, windowVars, ghostVars, Goto, ReadData, NamesOK
<1>7. CASE ReadError
  BY <1>7 DEF queueVars, decVars, windowVars, ghostVars, Return, Forget, CloseWindows, RequestInfoFail,
    ReadError, NamesOK
<1>8. CASE Malformed
  BY <1>8 DEF streamVars, queueVars, decVars, windowVars, localVars, ghostVars, Goto, Malformed, NamesOK
<1>9. CASE FillTimeout
  BY <1>9 DEF queueVars, decVars, localVars, Return, Reading, Aborted, FillTimeout, NamesOK
<1>10. CASE ArbitrationTimeout
  BY <1>10 DEF Return, Forget, Aborted, ArbitrationTimeout, NamesOK
<1>11. CASE InfoTimeout
  BY <1>11 DEF decVars, Return, Forget, CloseWindows, RequestInfoFail, InfoTimeout, NamesOK
<1>12. CASE WindowExpired
  BY <1>12 DEF streamVars, queueVars, localVars, Goto, Reading, Passive, WindowExpired, NamesOK
<1>13. CASE StartedOther
  BY <1>13 DEF streamVars, decVars, windowVars, ghostVars, Reading, Passive, StartedOther, NamesOK
<1>14. CASE Settle
  BY <1>14 DEF streamVars, queueVars, decVars, localVars, Goto, Reading, Passive, Settle, NamesOK
<1>15. CASE Settled
  BY <1>15 DEF streamVars, ghostVars, Goto, Settled, NamesOK
<1>16. CASE FillResettedDial
  BY <1>16 DEF streamVars, queueVars, decVars, windowVars, ghostVars, Goto, Forget, Reading,
    FillResettedDial, NamesOK
<1>17. CASE FillResetted
  BY <1>17 DEF streamVars, ghostVars, Reading, FillResetted, NamesOK
<1>18. CASE FillIgnored
  BY <1>18 DEF streamVars, queueVars, decVars, windowVars, ghostVars, Reading, FillIgnored, NamesOK
<1>19. CASE FillDone
  BY <1>19 DEF streamVars, queueVars, decVars, windowVars, ghostVars, Goto, Forget, Reading, FillDone,
    NamesOK
<1>20. CASE FillFault
  BY <1>20 DEF Goto, Return, Forget, Reading, FillFault, NamesOK
<1>21. CASE DialFailed
  BY <1>21 DEF streamVars, decVars, windowVars, ghostVars, Goto, Return, Reading, Resume, DialFailed,
    NamesOK
<1>22. CASE Swap
  BY <1>22 DEF Goto, Return, CloseWindows, ResetState, Reading, WriteMuFree, Resume, Swap, NamesOK
<1>23. CASE InitMore
  BY <1>23 DEF streamVars, queueVars, decVars, windowVars, localVars, ghostVars, Goto, InitMore, NamesOK
<1>24. CASE InitResetted
  BY <1>24 DEF Goto, Return, CloseWindows, ResetState, Reading, Resume, InitResetted, NamesOK
<1>25. CASE InitTimeout
  BY <1>25 DEF decVars, Goto, Return, Reading, Aborted, Resume, InitTimeout, NamesOK
<1>26. CASE InitFailed
  BY <1>26 DEF decVars, windowVars, ghostVars, Goto, Return, Reading, Resume, InitFailed, NamesOK
<1>27. CASE ArbitrationResettedDial
  BY <1>27 DEF streamVars, queueVars, decVars, windowVars, localVars, ghostVars, Goto, ArbitrationMessage,
    ArbitrationResettedDial, NamesOK
<1>28. CASE ArbitrationResetted
  BY <1>28 DEF CloseWindows, ResetState, ArbitrationMessage, ArbitrationResetted, NamesOK
<1>29. CASE ArbitrationAnswer
  BY <1>29 DEF streamVars, queueVars, decVars, windowVars, ghostVars, ArbitrationMessage,
    ArbitrationAnswer, NamesOK
<1>30. CASE ArbitrationMore
  BY <1>30 DEF streamVars, queueVars, decVars, windowVars, localVars, ghostVars, Goto, ArbitrationMessage,
    ArbitrationMore, NamesOK
<1>31. CASE ArbitrationDone
  BY <1>31 DEF Return, Forget, ArbitrationDone, NamesOK
<1>32. CASE ArbitrationFault
  BY <1>32 DEF Return, Forget, ArbitrationFault, NamesOK
<1>33. CASE InfoPayload
  BY <1>33 DEF streamVars, queueVars, decVars, windowVars, ghostVars, InfoMessage, InfoPayload, NamesOK
<1>34. CASE InfoResetted
  BY <1>34 DEF CloseWindows, ResetState, InfoMessage, InfoResetted, NamesOK
<1>35. CASE InfoError
  BY <1>35 DEF decVars, Return, Forget, CloseWindows, RequestInfoFail, InfoMessage, InfoError, NamesOK
<1>36. CASE InfoDone
  BY <1>36 DEF streamVars, queueVars, decVars, windowVars, localVars, ghostVars, Goto, Return, Forget,
    CloseWindows, RequestInfoFail, InfoDone, NamesOK
<1>37. CASE RequestStart
  BY <1>37 DEF streamVars, queueVars, decVars, localVars, ghostVars, readVars, RequestStart, NamesOK
<1>38. CASE RequestStartOpen
  BY <1>38 DEF streamVars, queueVars, decVars, localVars, readVars, RequestStartOpen, NamesOK
<1>39. CASE RequestStartWritten
  BY <1>39 DEF streamVars, queueVars, decVars, localVars, ghostVars, readVars, RequestStartWritten, NamesOK
<1>40. CASE RequestStartFails
  BY <1>40 DEF streamVars, queueVars, decVars, localVars, ghostVars, readVars, RequestStartFails, NamesOK
<1>41. CASE RequestStartRollback
  BY <1>41 DEF streamVars, queueVars, decVars, localVars, readVars, RequestStartRollback, NamesOK
<1>42. CASE ArbitrationDeadline
  BY <1>42 DEF streamVars, queueVars, decVars, localVars, ghostVars, readVars, ArbitrationDeadline, NamesOK
<1>43. CASE PreEchoDeadline
  BY <1>43 DEF streamVars, queueVars, decVars, localVars, ghostVars, PreEchoDeadline, NamesOK
<1>44. ASSUME NEW symbol \in setup.symbols, ReceivedInWindow(symbol) PROVE NamesOK'
  BY <1>44 DEF streamVars, windowVars, ghostVars, Reading, Passive, ReceivedInWindow, NamesOK
<1>45. ASSUME NEW symbol \in setup.symbols, Received(symbol) PROVE NamesOK'
  BY <1>45 DEF streamVars, Reading, Passive, Deliver, Received, NamesOK
<1>46. ASSUME NEW symbol \in setup.symbols, ReceivedExpired(symbol) PROVE NamesOK'
  BY <1>46 DEF streamVars, Goto, Deliver, ReceivedExpired, NamesOK
<1>47. ASSUME NEW symbol \in setup.symbols, InitReceived(symbol) PROVE NamesOK'
  BY <1>47 DEF streamVars, windowVars, localVars, InitReceived, NamesOK
<1>48. ASSUME NEW symbol \in setup.symbols, ArbitrationReceived(symbol) PROVE NamesOK'
  BY <1>48 DEF streamVars, queueVars, windowVars, localVars, ghostVars, ArbitrationMessage,
    ArbitrationReceived, NamesOK
<1> QED
  BY <1>1, <1>2, <1>3, <1>4, <1>5, <1>6, <1>7, <1>8, <1>9, <1>10, <1>11, <1>12, <1>13, <1>14,
     <1>15, <1>16, <1>17, <1>18, <1>19, <1>20, <1>21, <1>22, <1>23, <1>24, <1>25, <1>26, <1>27,
     <1>28, <1>29, <1>30, <1>31, <1>32, <1>33, <1>34, <1>35, <1>36, <1>37, <1>38, <1>39, <1>40,
     <1>41, <1>42, <1>43, <1>44, <1>45, <1>46, <1>47, <1>48 DEF Next

LEMMA CountersStep ==
  ASSUME CountersOK, Next
  PROVE  CountersOK'
<1>1. CASE Begin
  BY <1>1 DEF AllOperations, streamVars, queueVars, decVars, windowVars, localVars, ghostVars, BeginRead,
    WriteMuFree, BeginArbitration, BeginInfo, BeginInit, BeginReconnect, Begin, CountersOK
<1>2. CASE ServeReset
  BY <1>2 DEF streamVars, decVars, windowVars, localVars, ghostVars, Return, ServeReset, CountersOK
<1>3. CASE ServeEvent
  BY <1>3 DEF streamVars, decVars, windowVars, localVars, ghostVars, Goto, Return, ServeEvent, CountersOK
<1>4. CASE ServeEmpty
  BY <1>4 DEF streamVars, decVars, windowVars, localVars, ghostVars, Goto, Return, ServeEmpty, CountersOK
<1>5. CASE ReadTimeout
  BY <1>5 DEF streamVars, queueVars, decVars, windowVars, localVars, Goto, ReadTimeout, CountersOK
<1>6. CASE ReadData
  BY <1>6 DEF queueVars, decVars, windowVars, ghostVars, Goto, ReadData, CountersOK
<1>7. CASE ReadError
  BY <1>7 DEF queueVars, decVars, windowVars, ghostVars, Return, Forget, CloseWindows, RequestInfoFail,
    ReadError, CountersOK
<1>8. CASE Malformed
  BY <1>8 DEF streamVars, queueVars, decVars, windowVars, localVars, ghostVars, Goto, Malformed,
    CountersOK
<1>9. CASE FillTimeout
  BY <1>9 DEF queueVars, decVars, localVars, Return, Reading, Aborted, FillTimeout, CountersOK
<1>10. CASE ArbitrationTimeout
  BY <1>10 DEF Return, Forget, Aborted, ArbitrationTimeout, CountersOK
<1>11. CASE InfoTimeout
  BY <1>11 DEF decVars, Return, Forget, CloseWindows, RequestInfoFail, InfoTimeout, CountersOK
<1>12. CASE WindowExpired
  BY <1>12 DEF streamVars, queueVars, localVars, Goto, Reading, Passive, WindowExpired, CountersOK
<1>13. CASE StartedOther
  BY <1>13 DEF streamVars, decVars, windowVars, ghostVars, Reading, Passive, StartedOther, CountersOK
<1>14. CASE Settle
  BY <1>14 DEF streamVars, queueVars, decVars, localVars, Goto, Reading, Passive, Settle, CountersOK
<1>15. CASE Settled
  BY <1>15 DEF streamVars, ghostVars, Goto, Settled, CountersOK
<1>16. CASE FillResettedDial
  BY <1>16 DEF streamVars, queueVars, decVars, windowVars, ghostVars, Goto, Forget, Reading,
    FillResettedDial, CountersOK
<1>17. CASE FillResetted
  BY <1>17 DEF streamVars, ghostVars, Reading, FillResetted, CountersOK
<1>18. CASE FillIgnored
  BY <1>18 DEF streamVars, queueVars, decVars, windowVars, ghostVars, Reading, FillIgnored, CountersOK
<1>19. CASE FillDone
  BY <1>19 DEF streamVars, queueVars, decVars, windowVars, ghostVars, Goto, Forget, Reading, FillDone,
    CountersOK
<1>20. CASE FillFault
  BY <1>20 DEF Goto, Return, Forget, Reading, FillFault, CountersOK
<1>21. CASE DialFailed
  BY <1>21 DEF streamVars, decVars, windowVars, ghostVars, Goto, Return, Reading, Resume, DialFailed,
    CountersOK
<1>22. CASE Swap
  BY <1>22 DEF Goto, Return, CloseWindows, ResetState, Reading, WriteMuFree, Resume, Swap, CountersOK
<1>23. CASE InitMore
  BY <1>23 DEF streamVars, queueVars, decVars, windowVars, localVars, ghostVars, Goto, InitMore, CountersOK
<1>24. CASE InitResetted
  BY <1>24 DEF Goto, Return, CloseWindows, ResetState, Reading, Resume, InitResetted, CountersOK
<1>25. CASE InitTimeout
  BY <1>25 DEF decVars, Goto, Return, Reading, Aborted, Resume, InitTimeout, CountersOK
<1>26. CASE InitFailed
  BY <1>26 DEF decVars, windowVars, ghostVars, Goto, Return, Reading, Resume, InitFailed, CountersOK
<1>27. CASE ArbitrationResettedDial
  BY <1>27 DEF streamVars, queueVars, decVars, windowVars, localVars, ghostVars, Goto, ArbitrationMessage,
    ArbitrationResettedDial, CountersOK
<1>28. CASE ArbitrationResetted
  BY <1>28 DEF CloseWindows, ResetState, ArbitrationMessage, ArbitrationResetted, CountersOK
<1>29. CASE ArbitrationAnswer
  BY <1>29 DEF streamVars, queueVars, decVars, windowVars, ghostVars, ArbitrationMessage,
    ArbitrationAnswer, CountersOK
<1>30. CASE ArbitrationMore
  BY <1>30 DEF streamVars, queueVars, decVars, windowVars, localVars, ghostVars, Goto, ArbitrationMessage,
    ArbitrationMore, CountersOK
<1>31. CASE ArbitrationDone
  BY <1>31 DEF Return, Forget, ArbitrationDone, CountersOK
<1>32. CASE ArbitrationFault
  BY <1>32 DEF Return, Forget, ArbitrationFault, CountersOK
<1>33. CASE InfoPayload
  BY <1>33 DEF streamVars, queueVars, decVars, windowVars, ghostVars, InfoMessage, InfoPayload, CountersOK
<1>34. CASE InfoResetted
  BY <1>34 DEF CloseWindows, ResetState, InfoMessage, InfoResetted, CountersOK
<1>35. CASE InfoError
  BY <1>35 DEF decVars, Return, Forget, CloseWindows, RequestInfoFail, InfoMessage, InfoError, CountersOK
<1>36. CASE InfoDone
  BY <1>36 DEF streamVars, queueVars, decVars, windowVars, localVars, ghostVars, Goto, Return, Forget,
    CloseWindows, RequestInfoFail, InfoDone, CountersOK
<1>37. CASE RequestStart
  BY <1>37 DEF streamVars, queueVars, decVars, localVars, ghostVars, readVars, RequestStart, CountersOK
<1>38. CASE RequestStartOpen
  BY <1>38 DEF streamVars, queueVars, decVars, localVars, readVars, RequestStartOpen, CountersOK
<1>39. CASE RequestStartWritten
  BY <1>39 DEF streamVars, queueVars, decVars, localVars, ghostVars, readVars, RequestStartWritten,
    CountersOK
<1>40. CASE RequestStartFails
  BY <1>40 DEF streamVars, queueVars, decVars, localVars, ghostVars, readVars, RequestStartFails,
    CountersOK
<1>41. CASE RequestStartRollback
  BY <1>41 DEF streamVars, queueVars, decVars, localVars, readVars, RequestStartRollback, CountersOK
<1>42. CASE ArbitrationDeadline
  BY <1>42 DEF streamVars, queueVars, decVars, localVars, ghostVars, readVars, ArbitrationDeadline,
    CountersOK
<1>43. CASE PreEchoDeadline
  BY <1>43 DEF streamVars, queueVars, decVars, localVars, ghostVars, PreEchoDeadline, CountersOK
<1>44. ASSUME NEW symbol \in setup.symbols, ReceivedInWindow(symbol) PROVE CountersOK'
  BY <1>44 DEF streamVars, windowVars, ghostVars, Reading, Passive, ReceivedInWindow, CountersOK
<1>45. ASSUME NEW symbol \in setup.symbols, Received(symbol) PROVE CountersOK'
  BY <1>45 DEF streamVars, Reading, Passive, Deliver, Received, CountersOK
<1>46. ASSUME NEW symbol \in setup.symbols, ReceivedExpired(symbol) PROVE CountersOK'
  BY <1>46 DEF streamVars, Goto, Deliver, ReceivedExpired, CountersOK
<1>47. ASSUME NEW symbol \in setup.symbols, InitReceived(symbol) PROVE CountersOK'
  BY <1>47 DEF streamVars, windowVars, localVars, InitReceived, CountersOK
<1>48. ASSUME NEW symbol \in setup.symbols, ArbitrationReceived(symbol) PROVE CountersOK'
  BY <1>48 DEF streamVars, queueVars, windowVars, localVars, ghostVars, ArbitrationMessage,
    ArbitrationReceived, CountersOK
<1> QED
  BY <1>1, <1>2, <1>3, <1>4, <1>5, <1>6, <1>7, <1>8, <1>9, <1>10, <1>11, <1>12, <1>13, <1>14,
     <1>15, <1>16, <1>17, <1>18, <1>19, <1>20, <1>21, <1>22, <1>23, <1>24, <1>25, <1>26, <1>27,
     <1>28, <1>29, <1>30, <1>31, <1>32, <1>33, <1>34, <1>35, <1>36, <1>37, <1>38, <1>39, <1>40,
     <1>41, <1>42, <1>43, <1>44, <1>45, <1>46, <1>47, <1>48 DEF Next

LEMMA FlagsStep ==
  ASSUME FlagsOK, Next
  PROVE  FlagsOK'
<1>1. CASE Begin
  <2>1. ASSUME NEW o \in AllOperations, BeginRead(o) PROVE FlagsOK'
    <3>1. rawSymbolItems' \in BOOLEAN
      BY <2>1 DEF BeginRead
    <3> QED
      BY <2>1, <3>1, Zenon DEF BeginRead, FlagsOK, streamVars, windowVars, localVars, ghostVars
  <2>2. CASE BeginArbitration
    BY <2>2, Zenon DEF BeginArbitration, FlagsOK, streamVars, queueVars, windowVars, localVars, ghostVars
  <2>3. CASE BeginInfo
    BY <2>3, Zenon DEF BeginInfo, FlagsOK, streamVars, queueVars, windowVars, localVars, ghostVars
  <2>4. CASE BeginInit
    BY <2>4, Zenon DEF BeginInit, FlagsOK, streamVars, queueVars, windowVars, localVars, ghostVars
  <2>5. CASE BeginReconnect
    BY <2>5, Zenon DEF BeginReconnect, FlagsOK, streamVars, queueVars, windowVars, localVars, ghostVars
  <2> QED
    BY <1>1, <2>1, <2>2, <2>3, <2>4, <2>5 DEF Begin
<1>2. CASE ServeReset
  BY <1>2, Zenon DEF streamVars, decVars, windowVars, localVars, ghostVars, Return, ServeReset, FlagsOK
<1>3. CASE ServeEvent
  BY <1>3, Zenon DEF streamVars, decVars, windowVars, localVars, ghostVars, Goto, Return, ServeEvent, FlagsOK
<1>4. CASE ServeEmpty
  BY <1>4, Zenon DEF streamVars, decVars, windowVars, localVars, ghostVars, Goto, Return, ServeEmpty, FlagsOK
<1>5. CASE ReadTimeout
  BY <1>5, Zenon DEF streamVars, queueVars, decVars, windowVars, localVars, Goto, ReadTimeout, FlagsOK
<1>6. CASE ReadData
  BY <1>6, Zenon DEF queueVars, decVars, windowVars, ghostVars, Goto, ReadData, FlagsOK
<1>7. CASE ReadError
  BY <1>7, Zenon DEF queueVars, decVars, windowVars, ghostVars, Return, Forget, CloseWindows, RequestInfoFail,
    ReadError, FlagsOK
<1>8. CASE Malformed
  BY <1>8, Zenon DEF streamVars, queueVars, decVars, windowVars, localVars, ghostVars, Goto, Malformed, FlagsOK
<1>9. CASE FillTimeout
  BY <1>9, Zenon DEF queueVars, decVars, localVars, Return, Reading, Aborted, FillTimeout, FlagsOK
<1>10. CASE ArbitrationTimeout
  BY <1>10, Zenon DEF Return, Forget, Aborted, ArbitrationTimeout, FlagsOK
<1>11. CASE InfoTimeout
  BY <1>11, Zenon DEF decVars, Return, Forget, CloseWindows, RequestInfoFail, InfoTimeout, FlagsOK
<1>12. CASE WindowExpired
  BY <1>12, Zenon DEF streamVars, queueVars, localVars, Goto, Reading, Passive, WindowExpired, FlagsOK
<1>13. CASE StartedOther
  BY <1>13, Zenon DEF streamVars, decVars, windowVars, ghostVars, Reading, Passive, StartedOther, FlagsOK
<1>14. CASE Settle
  BY <1>14, Zenon DEF streamVars, queueVars, decVars, localVars, Goto, Reading, Passive, Settle, FlagsOK
<1>15. CASE Settled
  BY <1>15, Zenon DEF streamVars, ghostVars, Goto, Settled, FlagsOK
<1>16. CASE FillResettedDial
  BY <1>16, Zenon DEF streamVars, queueVars, decVars, windowVars, ghostVars, Goto, Forget, Reading,
    FillResettedDial, FlagsOK
<1>17. CASE FillResetted
  BY <1>17, Zenon DEF streamVars, ghostVars, Reading, FillResetted, FlagsOK
<1>18. CASE FillIgnored
  BY <1>18, Zenon DEF streamVars, queueVars, decVars, windowVars, ghostVars, Reading, FillIgnored, FlagsOK
<1>19. CASE FillDone
  BY <1>19, Zenon DEF streamVars, queueVars, decVars, windowVars, ghostVars, Goto, Forget, Reading, FillDone,
    FlagsOK
<1>20. CASE FillFault
  BY <1>20, Zenon DEF Goto, Return, Forget, Reading, FillFault, FlagsOK
<1>21. CASE DialFailed
  BY <1>21, Zenon DEF streamVars, decVars, windowVars, ghostVars, Goto, Return, Reading, Resume, DialFailed,
    FlagsOK
<1>22. CASE Swap
  BY <1>22, Zenon DEF Goto, Return, CloseWindows, ResetState, Reading, WriteMuFree, Resume, Swap, FlagsOK
<1>23. CASE InitMore
  BY <1>23, Zenon DEF streamVars, queueVars, decVars, windowVars, localVars, ghostVars, Goto, InitMore, FlagsOK
<1>24. CASE InitResetted
  BY <1>24, Zenon DEF Goto, Return, CloseWindows, ResetState, Reading, Resume, InitResetted, FlagsOK
<1>25. CASE InitTimeout
  BY <1>25, Zenon DEF decVars, Goto, Return, Reading, Aborted, Resume, InitTimeout, FlagsOK
<1>26. CASE InitFailed
  BY <1>26, Zenon DEF decVars, windowVars, ghostVars, Goto, Return, Reading, Resume, InitFailed, FlagsOK
<1>27. CASE ArbitrationResettedDial
  BY <1>27, Zenon DEF streamVars, queueVars, decVars, windowVars, localVars, ghostVars, Goto, ArbitrationMessage,
    ArbitrationResettedDial, FlagsOK
<1>28. CASE ArbitrationResetted
  BY <1>28, Zenon DEF CloseWindows, ResetState, ArbitrationMessage, ArbitrationResetted, FlagsOK
<1>29. CASE ArbitrationAnswer
  BY <1>29, Zenon DEF streamVars, queueVars, decVars, windowVars, ghostVars, ArbitrationMessage,
    ArbitrationAnswer, FlagsOK
<1>30. CASE ArbitrationMore
  BY <1>30, Zenon DEF streamVars, queueVars, decVars, windowVars, localVars, ghostVars, Goto, ArbitrationMessage,
    ArbitrationMore, FlagsOK
<1>31. CASE ArbitrationDone
  BY <1>31, Zenon DEF Return, Forget, ArbitrationDone, FlagsOK
<1>32. CASE ArbitrationFault
  BY <1>32, Zenon DEF Return, Forget, ArbitrationFault, FlagsOK
<1>33. CASE InfoPayload
  BY <1>33, Zenon DEF streamVars, queueVars, decVars, windowVars, ghostVars, InfoMessage, InfoPayload, FlagsOK
<1>34. CASE InfoResetted
  BY <1>34, Zenon DEF CloseWindows, ResetState, InfoMessage, InfoResetted, FlagsOK
<1>35. CASE InfoError
  BY <1>35, Zenon DEF decVars, Return, Forget, CloseWindows, RequestInfoFail, InfoMessage, InfoError, FlagsOK
<1>36. CASE InfoDone
  BY <1>36, Zenon DEF streamVars, queueVars, decVars, windowVars, localVars, ghostVars, Goto, Return, Forget,
    CloseWindows, RequestInfoFail, InfoDone, FlagsOK
<1>37. CASE RequestStart
  BY <1>37, Zenon DEF streamVars, queueVars, decVars, localVars, ghostVars, readVars, RequestStart, FlagsOK
<1>38. CASE RequestStartOpen
  BY <1>38, Zenon DEF streamVars, queueVars, decVars, localVars, readVars, RequestStartOpen, FlagsOK
<1>39. CASE RequestStartWritten
  BY <1>39, Zenon DEF streamVars, queueVars, decVars, localVars, ghostVars, readVars, RequestStartWritten, FlagsOK
<1>40. CASE RequestStartFails
  BY <1>40, Zenon DEF streamVars, queueVars, decVars, localVars, ghostVars, readVars, RequestStartFails, FlagsOK
<1>41. CASE RequestStartRollback
  BY <1>41, Zenon DEF streamVars, queueVars, decVars, localVars, readVars, RequestStartRollback, FlagsOK
<1>42. CASE ArbitrationDeadline
  BY <1>42, Zenon DEF streamVars, queueVars, decVars, localVars, ghostVars, readVars, ArbitrationDeadline, FlagsOK
<1>43. CASE PreEchoDeadline
  BY <1>43, Zenon DEF streamVars, queueVars, decVars, localVars, ghostVars, PreEchoDeadline, FlagsOK
<1>44. ASSUME NEW symbol \in setup.symbols, ReceivedInWindow(symbol) PROVE FlagsOK'
  BY <1>44, Zenon DEF streamVars, windowVars, ghostVars, Reading, Passive, ReceivedInWindow, FlagsOK
<1>45. ASSUME NEW symbol \in setup.symbols, Received(symbol) PROVE FlagsOK'
  BY <1>45, Zenon DEF streamVars, Reading, Passive, Deliver, Received, FlagsOK
<1>46. ASSUME NEW symbol \in setup.symbols, ReceivedExpired(symbol) PROVE FlagsOK'
  BY <1>46, Zenon DEF streamVars, Goto, Deliver, ReceivedExpired, FlagsOK
<1>47. ASSUME NEW symbol \in setup.symbols, InitReceived(symbol) PROVE FlagsOK'
  BY <1>47, Zenon DEF streamVars, windowVars, localVars, InitReceived, FlagsOK
<1>48. ASSUME NEW symbol \in setup.symbols, ArbitrationReceived(symbol) PROVE FlagsOK'
  BY <1>48, Zenon DEF streamVars, queueVars, windowVars, localVars, ghostVars, ArbitrationMessage,
    ArbitrationReceived, FlagsOK
<1> QED
  BY <1>1, <1>2, <1>3, <1>4, <1>5, <1>6, <1>7, <1>8, <1>9, <1>10, <1>11, <1>12, <1>13, <1>14,
     <1>15, <1>16, <1>17, <1>18, <1>19, <1>20, <1>21, <1>22, <1>23, <1>24, <1>25, <1>26, <1>27,
     <1>28, <1>29, <1>30, <1>31, <1>32, <1>33, <1>34, <1>35, <1>36, <1>37, <1>38, <1>39, <1>40,
     <1>41, <1>42, <1>43, <1>44, <1>45, <1>46, <1>47, <1>48 DEF Next

-----------------------------------------------------------------------------
(* The queue.                                                              *)

\* The logical item of a decoded symbol is the one its raw item announces.
LEMMA LogicalFits ==
  ASSUME NEW d \in Decoders, NEW symbol \in 0 .. 255, NEW late \in BOOLEAN, Feed(d, symbol, late).ok
  PROVE  LET f == Feed(d, symbol, late)
         IN  /\ Byte(f.byte, f.wasEscaped) \in Items
             /\ ~Completing(Byte(f.byte, f.wasEscaped))
             /\ Completes(RawSymbol(symbol, TRUE), Byte(f.byte, f.wasEscaped))
             /\ (f.byte = ebusSymbolSyn /\ ~f.wasEscaped) =>
                  Completes(RawSymbol(symbol, TRUE), WireSyn)
<1> DEFINE f == Feed(d, symbol, late)
<1>1. /\ f.byte \in 0 .. 255 /\ f.wasEscaped \in BOOLEAN
      /\ f.byte = IF f.wasEscaped THEN SymbolEscape + symbol ELSE symbol
  BY FeedBytes, ZenonT(40)
<1> HIDE DEF f
<1>2. /\ Byte(f.byte, f.wasEscaped) \in Items
      /\ ~Completing(Byte(f.byte, f.wasEscaped))
  BY <1>1 DEF Byte, Items, Kinds, Completing
<1>3. Completes(RawSymbol(symbol, TRUE), Byte(f.byte, f.wasEscaped))
  BY <1>1 DEF Byte, RawSymbol, Completes
<1>4. f.byte = ebusSymbolSyn /\ ~f.wasEscaped => Completes(RawSymbol(symbol, TRUE), WireSyn)
  BY <1>1 DEF WireSyn, RawSymbol, Completes
<1> QED
  BY <1>2, <1>3, <1>4 DEF f

LEMMA DeliverKeeps ==
  ASSUME QueueInv, NEW d \in Decoders, NEW symbol \in 0 .. 255, Deliver(d, symbol)
  PROVE  QueueOK(pendingEvents', pendingCap)
<1>1. PICK late \in BOOLEAN :
        LET f == Feed(d, symbol, late)
        IN  \/ ~f.ok /\ QueueLead(symbol)
            \/ pendingEvents' = pendingEvents
            \/ f.ok /\ QueueLogical(symbol, Byte(f.byte, f.wasEscaped))
  BY DEF Deliver
<1>2. CASE QueueLead(symbol)
  BY <1>2, LeadKeeps
<1>3. CASE pendingEvents' = pendingEvents
  BY <1>3, Capacity
<1>4. CASE /\ Feed(d, symbol, late).ok
           /\ QueueLogical(symbol, Byte(Feed(d, symbol, late).byte, Feed(d, symbol, late).wasEscaped))
  BY <1>4, LogicalFits, LogicalKeeps
<1> QED
  BY <1>1, <1>2, <1>3, <1>4

LEMMA QueueStep ==
  ASSUME QueueInv, Next
  PROVE  QueueOK(pendingEvents', pendingCap')
<1>1. pendingCap \in Nat /\ QueueOK(pendingEvents, pendingCap) /\ escDecoder \in Decoders /\ setup \in Setups
  BY Capacity, Parts DEF NamesOK
<1>2. ASSUME UNCHANGED <<setup, rawSymbolItems>> PROVE pendingCap' = pendingCap
  BY <1>2 DEF pendingCap
<1> HIDE DEF pendingCap
<1>3. CASE ServeReset \/ ServeEmpty \/ ReadTimeout \/ ReadData \/ Malformed \/ FillTimeout \/
           ArbitrationTimeout \/ WindowExpired \/ Settle \/ FillResettedDial \/ FillIgnored \/
           FillDone \/ FillFault \/ DialFailed \/ InitMore \/ InitTimeout \/ InitFailed \/
           ArbitrationResettedDial \/ ArbitrationAnswer \/ ArbitrationMore \/
           ArbitrationFault \/ InfoPayload \/ RequestStart \/ RequestStartOpen \/
           RequestStartWritten \/ RequestStartFails \/ RequestStartRollback \/
           ArbitrationDeadline \/ PreEchoDeadline
  <2>1. UNCHANGED <<setup, rawSymbolItems, pendingEvents>>
    BY <1>3, Zenon DEF queueVars, ServeReset, ServeEmpty, ReadTimeout, ReadData, Malformed, FillTimeout,
       ArbitrationTimeout, WindowExpired, Settle, FillResettedDial, FillIgnored, FillDone,
       FillFault, DialFailed, InitMore, InitTimeout, InitFailed, ArbitrationResettedDial,
       ArbitrationAnswer, ArbitrationMore, ArbitrationFault, InfoPayload, readVars,
       RequestStart, RequestStartOpen, RequestStartWritten, RequestStartFails,
       RequestStartRollback, ArbitrationDeadline, PreEchoDeadline
  <2> QED
    BY <1>1, <1>2, <2>1
<1>4. CASE Swap \/ InitResetted \/ ArbitrationResetted \/ ArbitrationDone \/ InfoResetted
  <2>1. UNCHANGED <<setup, rawSymbolItems>> /\ pendingEvents' = <<>>
    BY <1>4, Zenon DEF ResetState, Swap, InitResetted, ArbitrationResetted, ArbitrationDone, InfoResetted
  <2> QED
    BY <1>1, <1>2, <2>1, EmptyQueue
<1>5. CASE ReadError \/ InfoTimeout \/ InfoError \/ InfoDone
  <2>1. UNCHANGED <<setup, rawSymbolItems>> /\ pendingEvents' \in {pendingEvents, <<>>}
    BY <1>5 DEF queueVars, RequestInfoFail, ReadError, InfoTimeout, InfoError, InfoDone
  <2> QED
    BY <1>1, <1>2, <2>1, EmptyQueue
<1>6. CASE Begin
  <2>1. ASSUME NEW o \in AllOperations, BeginRead(o) PROVE QueueOK(pendingEvents', pendingCap')
    <3>1. pendingCap' \in Nat /\ pendingCap <= pendingCap' /\ pendingEvents' = pendingEvents
      <4>1. /\ setup.maxPendingEvents \in Nat /\ setup' = setup
            /\ rawSymbolItems => rawSymbolItems'
        BY <2>1, Capacity DEF BeginRead
      <4> QED
        BY <2>1, <4>1 DEF BeginRead, pendingCap
    <3> QED
      BY <1>1, <3>1, LargerQueue
  <2>2. CASE BeginArbitration \/ BeginInfo \/ BeginInit \/ BeginReconnect
    <3>1. UNCHANGED <<setup, rawSymbolItems, pendingEvents>>
      BY <2>2, Zenon DEF BeginArbitration, BeginInfo, BeginInit, BeginReconnect, queueVars
    <3> QED
      BY <1>1, <1>2, <3>1
  <2> QED
    BY <1>6, <2>1, <2>2 DEF Begin
<1>7. CASE ServeEvent
  <2>1. /\ UNCHANGED <<setup, rawSymbolItems>>
        /\ pendingEvents' = SubSeq(pendingEvents, Taken + 1, Len(pendingEvents))
    BY <1>7 DEF ServeEvent
  <2>2. Taken \in Nat
    BY DEF Taken
  <2>3. QueueOK(SubSeq(pendingEvents, Taken + 1, Len(pendingEvents)), pendingCap)
    BY <1>1, <1>2, <2>2, RestQueue
  <2> QED
    BY <1>2, <2>1, <2>3
<1>8. CASE StartedOther \/ FillResetted \/ Settled
  <2>1. /\ UNCHANGED <<setup, rawSymbolItems>>
        /\ \E kind \in {"started", "failed", "reset"} : QueueControl(kind)
    BY <1>8 DEF StartedOther, FillResetted, Settled
  <2> QED
    BY <1>2, <2>1, ControlKeeps
<1>9. ASSUME NEW symbol \in setup.symbols, ReceivedInWindow(symbol)
      PROVE  QueueOK(pendingEvents', pendingCap')
  <2>1. symbol \in 0 .. 255 /\ UNCHANGED <<setup, rawSymbolItems>>
    BY <1>1, <1>9, SymbolsAreBytes DEF ReceivedInWindow
  <2>2. PICK late \in BOOLEAN :
          LET f == Feed(escDecoder, symbol, late)
          IN  \/ f.ok /\ f.byte = ebusSymbolSyn /\ ~f.wasEscaped /\ QueueLogical(symbol, WireSyn)
              \/ pendingEvents' = pendingEvents
    BY <1>9 DEF ReceivedInWindow
  <2>3. WireSyn \in Items /\ ~Completing(WireSyn)
    BY DEF WireSyn, Items, Kinds, Completing, ebusSymbolSyn
  <2> QED
    BY <1>1, <1>2, <2>1, <2>2, <2>3, LogicalFits, LogicalKeeps
<1>10. ASSUME NEW symbol \in setup.symbols, Received(symbol) \/ ReceivedExpired(symbol)
       PROVE  QueueOK(pendingEvents', pendingCap')
  <2>1. symbol \in 0 .. 255 /\ UNCHANGED <<setup, rawSymbolItems>>
    BY <1>1, <1>10, SymbolsAreBytes DEF Received, ReceivedExpired
  <2>2. Idle \in Decoders
    BY CapsAssumption DEF Idle, Decoders
  <2>3. \E d \in Decoders : Deliver(d, symbol)
    <3>1. CASE Received(symbol)
      BY <1>1, <2>2, <3>1 DEF Received, EscapeResetApplied
    <3>2. CASE ReceivedExpired(symbol)
      BY <1>1, <2>2, <3>2 DEF ReceivedExpired, EscapeResetApplied
    <3> QED
      BY <1>10, <3>1, <3>2
  <2> QED
    BY <1>2, <2>1, <2>3, DeliverKeeps
<1>11. ASSUME NEW symbol \in setup.symbols, InitReceived(symbol)
       PROVE  QueueOK(pendingEvents', pendingCap')
  <2>1. symbol \in 0 .. 255 /\ UNCHANGED <<setup, rawSymbolItems>>
    BY <1>1, <1>11, SymbolsAreBytes DEF InitReceived
  <2>2. PICK late \in BOOLEAN :
          LET f == Feed(escDecoder, symbol, late)
          IN  \/ f.ok /\ QueueLogical(symbol, Byte(f.byte, f.wasEscaped))
              \/ QueueLead(symbol)
    BY <1>11 DEF InitReceived
  <2> QED
    BY <1>1, <1>2, <2>1, <2>2, LogicalFits, LogicalKeeps, LeadKeeps
<1>12. ASSUME NEW symbol \in setup.symbols, ArbitrationReceived(symbol)
       PROVE  QueueOK(pendingEvents', pendingCap')
  BY <1>1, <1>2, <1>12 DEF ArbitrationReceived, queueVars
<1> QED
  BY <1>3, <1>4, <1>5, <1>6, <1>7, <1>8, <1>9, <1>10, <1>11, <1>12, Zenon DEF Next

-----------------------------------------------------------------------------
(* The decoder and where its lead comes from.                              *)

LEMMA IdleDecoder == Idle \in Decoders /\ ~Idle.escape /\ "none" \in Leads
BY CapsAssumption DEF Idle, Decoders, Leads

LEMMA DecoderStep ==
  ASSUME QueueInv, Next
  PROVE  escDecoder' \in Decoders /\ lead' \in Leads
<1>1. escDecoder \in Decoders /\ lead \in Leads /\ setup \in Setups
  BY Parts DEF NamesOK
<1>2. CASE Begin \/ ServeReset \/ ServeEvent \/ ServeEmpty \/ ReadTimeout \/ ReadData \/
           Malformed \/ StartedOther \/ Settle \/ FillResettedDial \/ FillIgnored \/
           FillDone \/ InitMore \/ InitTimeout \/ ArbitrationResettedDial \/
           ArbitrationAnswer \/ ArbitrationMore \/ InfoPayload \/ RequestStart \/
           RequestStartOpen \/ RequestStartWritten \/ RequestStartFails \/
           RequestStartRollback \/ ArbitrationDeadline \/ PreEchoDeadline
  <2>1. UNCHANGED <<escDecoder, lead>>
    BY <1>2, Zenon DEF decVars, BeginRead, ServeReset, ServeEvent, ServeEmpty, BeginArbitration, BeginInfo,
       BeginInit, BeginReconnect, ReadTimeout, ReadData, Malformed, StartedOther, Settle,
       FillResettedDial, FillIgnored, FillDone, InitMore, InitTimeout, ArbitrationResettedDial,
       ArbitrationAnswer, ArbitrationMore, InfoPayload, readVars, RequestStart,
       RequestStartOpen, RequestStartWritten, RequestStartFails, RequestStartRollback,
       ArbitrationDeadline, PreEchoDeadline, Begin
  <2> QED
    BY <1>1, <2>1
<1>3. CASE WindowExpired \/ Settled \/ FillResetted \/ FillFault \/ Swap \/ InitResetted \/
           ArbitrationTimeout \/ ArbitrationResetted \/ ArbitrationDone \/ ArbitrationFault \/
           InfoResetted
  <2>1. escDecoder' = Idle /\ lead' = "none"
    BY <1>3, Zenon DEF ResetDecoder, ResetState, ArbitrationTimeout, WindowExpired, Settled, FillResetted,
       FillFault, Swap, InitResetted, ArbitrationResetted, ArbitrationDone, ArbitrationFault,
       InfoResetted
  <2> QED
    BY <2>1, IdleDecoder
<1>4. CASE ReadError \/ FillTimeout \/ InfoTimeout \/ InitFailed \/ InfoError \/ InfoDone
  <2>1. (escDecoder' = Idle /\ lead' = "none") \/ UNCHANGED <<escDecoder, lead>>
    BY <1>4, Zenon DEF decVars, ResetDecoder, RequestInfoFail, ReadError, FillTimeout, InfoTimeout, InitFailed,
       InfoError, InfoDone
  <2> QED
    BY <1>1, <2>1, IdleDecoder
<1>5. CASE DialFailed
  BY <1>1, <1>5 DEF DialFailed, KeepDecoder, decVars, Leads
<1>6. ASSUME NEW symbol \in setup.symbols, ReceivedInWindow(symbol) \/ ArbitrationReceived(symbol)
      PROVE  escDecoder' \in Decoders /\ lead' \in Leads
  <2>1. symbol \in 0 .. 255
    BY <1>1, SymbolsAreBytes
  <2>2. \E late \in BOOLEAN : FeedDecoder(escDecoder, symbol, late, TRUE)
    BY <1>6 DEF ReceivedInWindow, ArbitrationReceived
  <2> QED
    BY <1>1, <2>1, <2>2, FeedDiscards
<1>7. ASSUME NEW symbol \in setup.symbols,
             Received(symbol) \/ ReceivedExpired(symbol) \/ InitReceived(symbol)
      PROVE  escDecoder' \in Decoders /\ lead' \in Leads
  <2>1. symbol \in 0 .. 255
    BY <1>1, SymbolsAreBytes
  <2>2. \E d \in Decoders : \E late \in BOOLEAN : FeedDecoder(d, symbol, late, FALSE)
    BY <1>1, <1>7, IdleDecoder DEF Received, ReceivedExpired, InitReceived, Deliver, EscapeResetApplied
  <2> QED
    BY <1>1, <2>1, <2>2, FeedDelivers
<1> QED
  BY <1>2, <1>3, <1>4, <1>5, <1>6, <1>7, Zenon DEF Next

LEMMA FlowStep ==
  ASSUME QueueInv, FlowInv, Next
  PROVE  FlowInv'
<1>1. CASE Begin
  BY <1>1 DEF AllOperations, streamVars, Reading, BeginRead, WriteMuFree, BeginArbitration, BeginInfo,
    BeginInit, BeginReconnect, Passive, Begin, FlowInv
<1>2. CASE ServeReset
  BY <1>2 DEF streamVars, Return, Reading, ServeReset, Passive, FlowInv
<1>3. CASE ServeEvent
  BY <1>3 DEF streamVars, Goto, Return, Reading, ServeEvent, Passive, FlowInv
<1>4. CASE ServeEmpty
  BY <1>4 DEF streamVars, Goto, Return, Reading, ServeEmpty, Passive, FlowInv
<1>5. CASE ReadTimeout
  BY <1>5 DEF streamVars, Goto, Reading, ReadTimeout, Passive, FlowInv
<1>6. CASE ReadData
  BY <1>6 DEF Goto, Reading, ReadData, Passive, FlowInv
<1>7. CASE ReadError
  BY <1>7 DEF Return, Forget, Reading, RequestInfoFail, ReadError, Passive, FlowInv
<1>8. CASE Malformed
  BY <1>8 DEF streamVars, Goto, Reading, Malformed, Passive, FlowInv
<1>9. CASE FillTimeout
  BY <1>9 DEF Return, Reading, Aborted, FillTimeout, Passive, FlowInv
<1>10. CASE ArbitrationTimeout
  BY <1>10 DEF Return, Forget, Reading, Aborted, ArbitrationTimeout, Passive, FlowInv
<1>11. CASE InfoTimeout
  BY <1>11 DEF Return, Forget, Reading, RequestInfoFail, InfoTimeout, Passive, FlowInv
<1>12. CASE WindowExpired
  BY <1>12 DEF streamVars, Goto, Reading, Passive, WindowExpired, FlowInv
<1>13. CASE StartedOther
  BY <1>13 DEF streamVars, Reading, Passive, StartedOther, FlowInv
<1>14. CASE Settle
  BY <1>14 DEF streamVars, Goto, Reading, Passive, Settle, FlowInv
<1>15. CASE Settled
  BY <1>15 DEF streamVars, Goto, Reading, Passive, Settled, FlowInv
<1>16. CASE FillResettedDial
  BY <1>16 DEF streamVars, Goto, Forget, Reading, Passive, FillResettedDial, FlowInv
<1>17. CASE FillResetted
  BY <1>17 DEF streamVars, Reading, Passive, FillResetted, FlowInv
<1>18. CASE FillIgnored
  BY <1>18 DEF streamVars, Reading, Passive, FillIgnored, FlowInv
<1>19. CASE FillDone
  BY <1>19 DEF streamVars, Goto, Forget, Reading, Passive, FillDone, FlowInv
<1>20. CASE FillFault
  BY <1>20 DEF Goto, Return, Forget, Reading, Passive, FillFault, FlowInv
<1>21. CASE DialFailed
  BY <1>21 DEF streamVars, Goto, Return, Reading, Passive, Resume, DialFailed, FlowInv
<1>22. CASE Swap
  BY <1>22 DEF Goto, Return, ResetState, Reading, WriteMuFree, Passive, Resume, Swap, FlowInv
<1>23. CASE InitMore
  BY <1>23 DEF streamVars, Goto, Reading, Passive, InitMore, FlowInv
<1>24. CASE InitResetted
  BY <1>24 DEF Goto, Return, ResetState, Reading, Passive, Resume, InitResetted, FlowInv
<1>25. CASE InitTimeout
  BY <1>25 DEF Goto, Return, Reading, Aborted, Passive, Resume, InitTimeout, FlowInv
<1>26. CASE InitFailed
  BY <1>26 DEF Goto, Return, Reading, Passive, Resume, InitFailed, FlowInv
<1>27. CASE ArbitrationResettedDial
  BY <1>27 DEF streamVars, Goto, Reading, Passive, ArbitrationMessage, ArbitrationResettedDial, FlowInv
<1>28. CASE ArbitrationResetted
  BY <1>28 DEF ResetState, Reading, Passive, ArbitrationMessage, ArbitrationResetted, FlowInv
<1>29. CASE ArbitrationAnswer
  BY <1>29 DEF streamVars, Reading, Passive, ArbitrationMessage, ArbitrationAnswer, FlowInv
<1>30. CASE ArbitrationMore
  BY <1>30 DEF streamVars, Goto, Reading, Passive, ArbitrationMessage, ArbitrationMore, FlowInv
<1>31. CASE ArbitrationDone
  BY <1>31 DEF Return, Forget, Reading, Passive, ArbitrationDone, FlowInv
<1>32. CASE ArbitrationFault
  BY <1>32 DEF Return, Forget, Reading, Passive, ArbitrationFault, FlowInv
<1>33. CASE InfoPayload
  BY <1>33 DEF streamVars, Reading, Passive, InfoMessage, InfoPayload, FlowInv
<1>34. CASE InfoResetted
  BY <1>34 DEF ResetState, Reading, Passive, InfoMessage, InfoResetted, FlowInv
<1>35. CASE InfoError
  BY <1>35 DEF Return, Forget, Reading, RequestInfoFail, Passive, InfoMessage, InfoError, FlowInv
<1>36. CASE InfoDone
  BY <1>36 DEF streamVars, Goto, Return, Forget, Reading, RequestInfoFail, Passive, InfoDone, FlowInv
<1>37. CASE RequestStart
  BY <1>37 DEF streamVars, Reading, Passive, readVars, RequestStart, FlowInv
<1>38. CASE RequestStartOpen
  BY <1>38 DEF streamVars, Reading, Passive, readVars, RequestStartOpen, FlowInv
<1>39. CASE RequestStartWritten
  BY <1>39 DEF streamVars, Reading, Passive, readVars, RequestStartWritten, FlowInv
<1>40. CASE RequestStartFails
  BY <1>40 DEF streamVars, Reading, Passive, readVars, RequestStartFails, FlowInv
<1>41. CASE RequestStartRollback
  BY <1>41 DEF streamVars, Reading, Passive, readVars, RequestStartRollback, FlowInv
<1>42. CASE ArbitrationDeadline
  BY <1>42 DEF streamVars, Reading, Passive, readVars, ArbitrationDeadline, FlowInv
<1>43. CASE PreEchoDeadline
  BY <1>43 DEF streamVars, Reading, Passive, PreEchoDeadline, FlowInv
<1>44. ASSUME NEW symbol \in setup.symbols, ReceivedInWindow(symbol) PROVE FlowInv'
  BY <1>44 DEF streamVars, Reading, Passive, ReceivedInWindow, FlowInv
<1>45. ASSUME NEW symbol \in setup.symbols, Received(symbol) PROVE FlowInv'
  BY <1>45 DEF streamVars, Reading, Passive, Deliver, Received, FlowInv
<1>46. ASSUME NEW symbol \in setup.symbols, ReceivedExpired(symbol) PROVE FlowInv'
  BY <1>46 DEF streamVars, Goto, Reading, Passive, Deliver, ReceivedExpired, FlowInv
<1>47. ASSUME NEW symbol \in setup.symbols, InitReceived(symbol) PROVE FlowInv'
  BY <1>47 DEF streamVars, Reading, Passive, InitReceived, FlowInv
<1>48. ASSUME NEW symbol \in setup.symbols, ArbitrationReceived(symbol) PROVE FlowInv'
  BY <1>48 DEF streamVars, Reading, Passive, ArbitrationMessage, ArbitrationReceived, FlowInv
<1> QED
  BY <1>1, <1>2, <1>3, <1>4, <1>5, <1>6, <1>7, <1>8, <1>9, <1>10, <1>11, <1>12, <1>13, <1>14,
     <1>15, <1>16, <1>17, <1>18, <1>19, <1>20, <1>21, <1>22, <1>23, <1>24, <1>25, <1>26, <1>27,
     <1>28, <1>29, <1>30, <1>31, <1>32, <1>33, <1>34, <1>35, <1>36, <1>37, <1>38, <1>39, <1>40,
     <1>41, <1>42, <1>43, <1>44, <1>45, <1>46, <1>47, <1>48 DEF Next

LEMMA SetupStep ==
  ASSUME Next
  PROVE  setup' = setup
BY Zenon DEF Next, BeginRead, ServeReset, ServeEvent, ServeEmpty, BeginArbitration, BeginInfo, BeginInit,
   BeginReconnect, ReadTimeout, ReadData, Malformed, RequestInfoFail, ReadError, FillTimeout,
   ArbitrationTimeout, InfoTimeout, ReceivedInWindow, Received, WindowExpired, ReceivedExpired,
   StartedOther, Settle, Settled, FillResettedDial, FillResetted, FillIgnored, FillDone,
   FillFault, DialFailed, Swap, InitReceived, InitMore, InitResetted, InitTimeout, InitFailed,
   ArbitrationReceived, ArbitrationResettedDial, ArbitrationResetted, ArbitrationAnswer,
   ArbitrationMore, ArbitrationDone, ArbitrationFault, InfoPayload, InfoResetted, InfoError,
   InfoDone, readVars, RequestStart, RequestStartOpen, RequestStartWritten, RequestStartFails,
   RequestStartRollback, ArbitrationDeadline, PreEchoDeadline, Begin

LEMMA LeadStep ==
  ASSUME QueueInv, FlowInv, LeadInv, Next
  PROVE  LeadInv'
<1> DEFINE Calm == "Init" \notin setup.operations /\ ~setup.dialFails /\ ~setup.writeFails
           InInit == {"initRead", "initTimedOut", "initMsgs", "initFault"}
           Goal ==
             /\ lead' \in {"none", "live", "discarded"}
             /\ escDecoder'.escape => lead' # "none"
             /\ lead' = "discarded" => Guarded'
             /\ lead' = "discarded" => pc' \notin InInit
             /\ ~escapeResetPending' /\ wpc' # "rollback"
<1> SUFFICES ASSUME Calm PROVE Goal
  BY SetupStep, Zenon DEF LeadInv
<1>1. /\ lead \in {"none", "live", "discarded"}
      /\ escDecoder.escape => lead # "none"
      /\ lead = "discarded" => Guarded
      /\ lead = "discarded" => pc \notin InInit
      /\ ~escapeResetPending /\ wpc # "rollback"
  BY DEF LeadInv
<1>2. /\ escDecoder \in Decoders /\ lead \in Leads /\ setup \in Setups
      /\ \A symbol \in setup.symbols : symbol \in 0 .. 255
  BY Parts, SymbolsAreBytes DEF NamesOK
<1>3. ~Idle.escape
  BY IdleDecoder
<1>4. ASSUME Begin PROVE Goal
  BY <1>1, <1>3, <1>4 DEF AllOperations, streamVars, decVars, windowVars, ghostVars, Reading, BeginRead, WriteMuFree,
    BeginArbitration, BeginInfo, BeginInit, BeginReconnect, Passive, Begin, Guarded, FlowInv
<1>5. ASSUME ServeReset PROVE Goal
  BY <1>1, <1>3, <1>5 DEF streamVars, decVars, windowVars, ghostVars, Return, Reading, ServeReset, Passive, Guarded,
    FlowInv
<1>6. ASSUME ServeEvent PROVE Goal
  BY <1>1, <1>3, <1>6 DEF streamVars, decVars, windowVars, ghostVars, Goto, Return, Reading, ServeEvent, Passive,
    Guarded, FlowInv
<1>7. ASSUME ServeEmpty PROVE Goal
  BY <1>1, <1>3, <1>7 DEF streamVars, decVars, windowVars, ghostVars, Goto, Return, Reading, ServeEmpty, Passive,
    Guarded, FlowInv
<1>8. ASSUME ReadTimeout PROVE Goal
  BY <1>1, <1>3, <1>8 DEF streamVars, decVars, windowVars, Goto, Reading, ReadTimeout, Passive, Guarded, FlowInv
<1>9. ASSUME ReadData PROVE Goal
  BY <1>1, <1>3, <1>9 DEF decVars, windowVars, ghostVars, Goto, Reading, ReadData, Passive, Guarded, FlowInv
<1>10. ASSUME ReadError PROVE Goal
  BY <1>1, <1>3, <1>10 DEF decVars, windowVars, ghostVars, ResetDecoder, Return, CloseWindows, Reading,
    RequestInfoFail, ReadError, Passive, Guarded, FlowInv
<1>11. ASSUME Malformed PROVE Goal
  BY <1>1, <1>3, <1>11 DEF streamVars, decVars, windowVars, ghostVars, Goto, Reading, Malformed, Passive, Guarded,
    FlowInv
<1>12. ASSUME FillTimeout PROVE Goal
  BY <1>1, <1>3, <1>12 DEF decVars, ResetDecoder, Return, Reading, Aborted, FillTimeout, Passive, Guarded, FlowInv
<1>13. ASSUME ArbitrationTimeout PROVE Goal
  BY <1>1, <1>3, <1>13 DEF ResetDecoder, Return, Reading, Aborted, ArbitrationTimeout, Passive, Guarded, FlowInv
<1>14. ASSUME InfoTimeout PROVE Goal
  BY <1>1, <1>3, <1>14 DEF decVars, ResetDecoder, Return, CloseWindows, Reading, RequestInfoFail, InfoTimeout,
    Passive, Guarded, FlowInv
<1>15. ASSUME WindowExpired PROVE Goal
  BY <1>1, <1>3, <1>15 DEF streamVars, ResetDecoder, Goto, Reading, Passive, WindowExpired, Guarded, FlowInv
<1>16. ASSUME StartedOther PROVE Goal
  BY <1>1, <1>3, <1>16 DEF streamVars, decVars, windowVars, ghostVars, Reading, Passive, StartedOther, Guarded, FlowInv
<1>17. ASSUME Settle PROVE Goal
  BY <1>1, <1>3, <1>17 DEF streamVars, decVars, Goto, Reading, Passive, Settle, Guarded, FlowInv
<1>18. ASSUME Settled PROVE Goal
  BY <1>1, <1>3, <1>18 DEF streamVars, ghostVars, ResetDecoder, Goto, Reading, Passive, Settled, Guarded, FlowInv
<1>19. ASSUME FillResettedDial PROVE Goal
  BY <1>1, <1>3, <1>19 DEF streamVars, decVars, windowVars, ghostVars, Goto, Reading, Passive, FillResettedDial,
    Guarded, FlowInv
<1>20. ASSUME FillResetted PROVE Goal
  BY <1>1, <1>3, <1>20 DEF streamVars, ghostVars, ResetDecoder, Reading, Passive, FillResetted, Guarded, FlowInv
<1>21. ASSUME FillIgnored PROVE Goal
  BY <1>1, <1>3, <1>21 DEF streamVars, decVars, windowVars, ghostVars, Reading, Passive, FillIgnored, Guarded, FlowInv
<1>22. ASSUME FillDone PROVE Goal
  BY <1>1, <1>3, <1>22 DEF streamVars, decVars, windowVars, ghostVars, Goto, Reading, Passive, FillDone, Guarded,
    FlowInv
<1>23. ASSUME FillFault PROVE Goal
  BY <1>1, <1>3, <1>23 DEF ResetDecoder, Goto, Return, Reading, Passive, FillFault, Guarded, FlowInv
<1>24. ASSUME Swap PROVE Goal
  BY <1>1, <1>3, <1>24 DEF ResetDecoder, Goto, Return, CloseWindows, ResetState, Reading, WriteMuFree, Passive,
    Resume, Swap, Guarded, FlowInv
<1>25. ASSUME InitMore PROVE Goal
  BY <1>1, <1>3, <1>25 DEF streamVars, decVars, windowVars, ghostVars, Goto, Reading, Passive, InitMore, Guarded,
    FlowInv
<1>26. ASSUME InitResetted PROVE Goal
  BY <1>1, <1>3, <1>26 DEF ResetDecoder, Goto, Return, CloseWindows, ResetState, Reading, Passive, Resume,
    InitResetted, Guarded, FlowInv
<1>27. ASSUME InitTimeout PROVE Goal
  BY <1>1, <1>3, <1>27 DEF decVars, Goto, Return, Reading, Aborted, Passive, Resume, InitTimeout, Guarded, FlowInv
<1>28. ASSUME InitFailed PROVE Goal
  BY <1>1, <1>3, <1>28 DEF decVars, windowVars, ghostVars, ResetDecoder, Goto, Return, Reading, Passive, Resume,
    InitFailed, Guarded, FlowInv
<1>29. ASSUME ArbitrationResettedDial PROVE Goal
  BY <1>1, <1>3, <1>29 DEF streamVars, decVars, windowVars, ghostVars, Goto, Reading, Passive, ArbitrationMessage,
    ArbitrationResettedDial, Guarded, FlowInv
<1>30. ASSUME ArbitrationResetted PROVE Goal
  BY <1>1, <1>3, <1>30 DEF ResetDecoder, CloseWindows, ResetState, Reading, Passive, ArbitrationMessage,
    ArbitrationResetted, Guarded, FlowInv
<1>31. ASSUME ArbitrationAnswer PROVE Goal
  BY <1>1, <1>3, <1>31 DEF streamVars, decVars, windowVars, ghostVars, Reading, Passive, ArbitrationMessage,
    ArbitrationAnswer, Guarded, FlowInv
<1>32. ASSUME ArbitrationMore PROVE Goal
  BY <1>1, <1>3, <1>32 DEF streamVars, decVars, windowVars, ghostVars, Goto, Reading, Passive, ArbitrationMessage,
    ArbitrationMore, Guarded, FlowInv
<1>33. ASSUME ArbitrationDone PROVE Goal
  BY <1>1, <1>3, <1>33 DEF ResetDecoder, Return, Reading, Passive, ArbitrationDone, Guarded, FlowInv
<1>34. ASSUME ArbitrationFault PROVE Goal
  BY <1>1, <1>3, <1>34 DEF ResetDecoder, Return, Reading, Passive, ArbitrationFault, Guarded, FlowInv
<1>35. ASSUME InfoPayload PROVE Goal
  BY <1>1, <1>3, <1>35 DEF streamVars, decVars, windowVars, ghostVars, Reading, Passive, InfoMessage, InfoPayload,
    Guarded, FlowInv
<1>36. ASSUME InfoResetted PROVE Goal
  BY <1>1, <1>3, <1>36 DEF ResetDecoder, CloseWindows, ResetState, Reading, Passive, InfoMessage, InfoResetted,
    Guarded, FlowInv
<1>37. ASSUME InfoError PROVE Goal
  <2>1. PICK err : op = "RequestInfo" /\ pc \in {"msgs", "infoFail"} /\ RequestInfoFail(err)
    BY <1>37 DEF InfoError, InfoMessage, FlowInv
  <2>2. CASE escDecoder' = Idle /\ lead' = "none"
    BY <1>1, <1>3, <2>1, <2>2 DEF RequestInfoFail
  <2>3. CASE UNCHANGED <<escDecoder, lead>> /\ ~awaitingStart
    <3>1. connDown => connDown'
      BY <2>1 DEF RequestInfoFail
    <3>2. lead = "discarded" => connDown
      BY <1>1, <2>1, <2>3 DEF Guarded
    <3> QED
      BY <1>1, <2>1, <2>3, <3>1, <3>2 DEF RequestInfoFail, Return, Guarded
  <2> QED
    BY <2>1, <2>2, <2>3 DEF RequestInfoFail, ResetDecoder, decVars
<1>38. ASSUME InfoDone PROVE Goal
  BY <1>1, <1>3, <1>38 DEF streamVars, decVars, windowVars, ghostVars, ResetDecoder, Goto, Return, CloseWindows,
    Reading, RequestInfoFail, Passive, InfoDone, Guarded, FlowInv
<1>39. ASSUME RequestStart PROVE Goal
  BY <1>1, <1>3, <1>39 DEF streamVars, decVars, ghostVars, Reading, Passive, readVars, RequestStart, Guarded, FlowInv
<1>40. ASSUME RequestStartOpen PROVE Goal
  BY <1>1, <1>3, <1>40 DEF streamVars, decVars, Reading, Passive, readVars, RequestStartOpen, Guarded, FlowInv
<1>41. ASSUME RequestStartWritten PROVE Goal
  BY <1>1, <1>3, <1>41 DEF streamVars, decVars, ghostVars, Reading, Passive, readVars, RequestStartWritten, Guarded,
    FlowInv
<1>42. ASSUME ArbitrationDeadline PROVE Goal
  BY <1>1, <1>3, <1>42 DEF streamVars, decVars, ghostVars, Reading, Passive, readVars, ArbitrationDeadline, Guarded,
    FlowInv
<1>43. ASSUME PreEchoDeadline PROVE Goal
  BY <1>1, <1>3, <1>43 DEF streamVars, decVars, ghostVars, Reading, Passive, PreEchoDeadline, Guarded, FlowInv
<1>44. ~RequestStartFails /\ ~DialFailed /\ ~RequestStartRollback
  BY <1>1 DEF RequestStartFails, DialFailed, RequestStartRollback
<1>45. ASSUME NEW symbol \in setup.symbols, ReceivedInWindow(symbol) \/ ArbitrationReceived(symbol)
       PROVE  Goal
  <2>1. \E late \in BOOLEAN : FeedDecoder(escDecoder, symbol, late, TRUE)
    BY <1>45 DEF ReceivedInWindow, ArbitrationReceived
  <2>2. lead' \in {"none", "live", "discarded"} /\ (escDecoder'.escape => lead' # "none")
    BY <1>1, <1>2, <2>1, FeedDiscards
  <2>3. /\ UNCHANGED <<pc, op, awaitingStart, escapeResetPending, wpc>>
        /\ pc = "msgs" /\ (awaitingStart \/ op = "StartArbitration")
    BY <1>45 DEF ReceivedInWindow, ArbitrationReceived, ArbitrationMessage, windowVars
  <2> QED
    BY <1>1, <2>2, <2>3 DEF Guarded
<1>46. ASSUME NEW symbol \in setup.symbols,
              Received(symbol) \/ ReceivedExpired(symbol) \/ InitReceived(symbol)
       PROVE  Goal
  <2>1. PICK d \in Decoders :
          /\ \E late \in BOOLEAN : FeedDecoder(d, symbol, late, FALSE)
          /\ d = Idle \/ (d = escDecoder /\ lead # "discarded")
    <3>1. CASE Received(symbol)
      <4>1. lead # "discarded"
        BY <1>1, <3>1 DEF Received, FlowInv, Guarded, Passive, Reading
      <4> QED
        BY <1>1, <1>2, <3>1, <4>1 DEF Received, Deliver, EscapeResetApplied
    <3>2. CASE ReceivedExpired(symbol)
      BY <3>2, IdleDecoder DEF ReceivedExpired, Deliver
    <3>3. CASE InitReceived(symbol)
      BY <1>1, <1>2, <3>3 DEF InitReceived
    <3> QED
      BY <1>46, <3>1, <3>2, <3>3
  <2>2. d.escape => lead = "live"
    BY <1>1, <1>3, <2>1
  <2>3. lead' \in {"none", "live"} /\ (escDecoder'.escape => lead' # "none")
    BY <1>2, <2>1, <2>2, FeedDelivers
  <2>4. ~escapeResetPending' /\ wpc' # "rollback"
    <3>1. CASE Received(symbol)
      BY <1>1, <3>1 DEF Received
    <3>2. CASE ReceivedExpired(symbol)
      BY <1>1, <3>2 DEF ReceivedExpired
    <3>3. CASE InitReceived(symbol)
      BY <1>1, <3>3 DEF InitReceived, windowVars
    <3> QED
      BY <1>46, <3>1, <3>2, <3>3
  <2> QED
    BY <2>3, <2>4
<1> HIDE DEF Goal
<1> QED
  BY <1>4, <1>5, <1>6, <1>7, <1>8, <1>9, <1>10, <1>11, <1>12, <1>13, <1>14, <1>15, <1>16,
     <1>17, <1>18, <1>19, <1>20, <1>21, <1>22, <1>23, <1>24, <1>25, <1>26, <1>27, <1>28, <1>29,
     <1>30, <1>31, <1>32, <1>33, <1>34, <1>35, <1>36, <1>37, <1>38, <1>39, <1>40, <1>41, <1>42,
     <1>43, <1>44, <1>45, <1>46 DEF Next

-----------------------------------------------------------------------------
(* The theorems.                                                           *)

LEMMA StreamInit ==
  ASSUME Init
  PROVE  StreamInv
<1>1. NamesOK
  BY DEF Init, NamesOK
<1>2. FlagsOK
  BY Zenon DEF Init, FlagsOK
<1>3. CountersOK
  BY DEF Init, CountersOK
<1>4. escDecoder \in Decoders /\ lead \in Leads
  BY IdleDecoder DEF Init
<1>5. pendingCap \in Nat
  <2>1. setup.maxPendingEvents \in Nat
    BY SetupsAssumption DEF Init
  <2> QED
    BY <2>1 DEF pendingCap
<1>6. QueueOK(pendingEvents, pendingCap)
  BY <1>5, EmptyQueue DEF Init
<1>7. LeadInv
  BY IdleDecoder DEF Init, LeadInv
<1>8. FlowInv
  BY DEF Init, FlowInv
<1> QED
  BY <1>1, <1>2, <1>3, <1>4, <1>6, <1>7, <1>8, Parts DEF StreamInv

LEMMA StreamStep ==
  ASSUME StreamInv, [Next]_vars
  PROVE  StreamInv'
<1>1. CASE Next
  <2>1. QueueInv /\ LeadInv /\ FlowInv /\ NamesOK /\ FlagsOK /\ CountersOK
    BY Parts DEF StreamInv
  <2>2. NamesOK' /\ FlagsOK' /\ CountersOK'
    BY <1>1, <2>1, NamesStep, FlagsStep, CountersStep
  <2>3. escDecoder' \in Decoders /\ lead' \in Leads /\ QueueOK(pendingEvents', pendingCap')
    BY <1>1, <2>1, DecoderStep, QueueStep
  <2>4. QueueInv'
    <3>1. QueueInv' <=> (/\ NamesOK /\ FlagsOK /\ CountersOK /\ escDecoder \in Decoders /\ lead \in Leads
                         /\ QueueOK(pendingEvents, pendingCap))'
      BY Parts, PTL
    <3> QED
      BY <2>2, <2>3, <3>1
  <2>5. LeadInv' /\ FlowInv'
    BY <1>1, <2>1, LeadStep, FlowStep
  <2> QED
    BY <2>4, <2>5 DEF StreamInv
<1>2. CASE UNCHANGED vars
  BY <1>2 DEF vars, streamVars, queueVars, decVars, windowVars, localVars, ghostVars, StreamInv,
     QueueInv, TypeOK, RawPairs, LeadInv, FlowInv, Guarded, Passive, Reading, pendingCap
<1> QED
  BY <1>1, <1>2

\* fillPendingLocked, RequestInfo, initRecvResultLocked and the readers keep
\* pendingEvents within its bound, and whatever appendControlEventLocked evicts,
\* a raw item that completed a logical item is directly followed by it: the raw
\* and the logical view agree on what was lost.
THEOREM QueueIsSound == Spec => []QueueInv
<1>1. StreamInv => QueueInv
  BY DEF StreamInv
<1> QED
  BY <1>1, StreamInit, StreamStep, PTL DEF Spec

\* No symbol is delivered that the decoder paired with an 0xA9 discarded as
\* pre-grant traffic or received before a grant, a lost arbitration, an adapter
\* reset or a framing fault, however RequestStart interleaves with the reader.
THEOREM LeadsArePaired == Spec => []NoStaleLead
<1>1. StreamInv => NoStaleLead
  BY DEF StreamInv, LeadInv, NoStaleLead
<1> QED
  BY <1>1, StreamInit, StreamStep, PTL DEF Spec
=============================================================================
