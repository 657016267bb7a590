-------------------------- MODULE Aa23PlansProofs --------------------------
(***************************************************************************)
(* Machine-checked proofs about Aa23Plans, for any pool, any number of     *)
(* workers, subscribers and addresses and any bounds: what is published    *)
(* does not change, and what a worker may still read is not handed on.     *)
(***************************************************************************)
EXTENDS Aa23Plans, FiniteSetTheorems, TLAPS

-----------------------------------------------------------------------------
(* The shapes of the state.                                                *)

RefShape == [slot : Slots, inc : Nat]
States == {"Free", "Writing", "Published", "Retained", "Reclaimable"}
SlotShape == [state : States, inc : Nat, id : IdShape \cup {None}, expiry : Nat, lease : Nat,
              reason : Reasons, pinned : BOOLEAN]
KnownShape == [inc : Nat, superseded : BOOLEAN, revoked : BOOLEAN]
PinShape == [active : BOOLEAN, ref : RefShape \cup {None}, id : IdShape \cup {None}]
ViewShape == [stream : Nat, clock : [closed : BOOLEAN, last : Nat], planTop : [Addresses -> Nat],
              current : [Addresses -> RefShape \cup {None}], records : [Slots -> KnownShape], pin : PinShape]

\* A slot that is not free has an identity.
SlotOK(s) == s \in SlotShape /\ (s.state # "Free" => s.id \in IdShape)
PoolOK(slots) == slots = [i \in Slots |-> slots[i]] /\ \A i \in Slots : SlotOK(slots[i])

RecordOK(r) == r # None => r \in RecordShape
RecordsOK(recs) == recs = [a \in Addresses |-> recs[a]] /\ \A a \in Addresses : RecordOK(recs[a])

-----------------------------------------------------------------------------
(* The inductive invariant.                                                *)

\* A reference that resolves in the pool.
In(slots, ref) == slots[ref.slot].inc = ref.inc

\* What a view calls current was published for it, and is not of the future.
CurrentFits(w, view, slots) ==
  \A a \in Addresses : view.current[a] # None =>
    LET ref == view.current[a]
    IN  /\ ref.inc <= slots[ref.slot].inc
        /\ In(slots, ref) => /\ slots[ref.slot].state \in {"Published", "Retained", "Reclaimable"}
                             /\ slots[ref.slot].id.worker = w

\* What a view has pinned is its worker's, and can be read.
PinFits(w, view, slots) ==
  view.pin.active =>
    LET pin == view.pin
    IN  /\ pin.ref \in RefShape /\ pin.id \in IdShape /\ pin.id.worker = w
        /\ In(slots, pin.ref) /\ slots[pin.ref.slot].id = pin.id
        /\ slots[pin.ref.slot].state \in Readable /\ slots[pin.ref.slot].pinned

ViewFits(w, view, slots) ==
  view # None => view \in ViewShape /\ CurrentFits(w, view, slots) /\ PinFits(w, view, slots)
ViewsFit(vs, slots) ==
  vs = [w \in Workers |-> vs[w]] /\ \A w \in Workers : ViewFits(w, vs[w], slots)

\* A plan that can be read belongs to the registration that holds its address.
AddressesFit(recs, slots) ==
  \A i \in Slots : slots[i].state \in Readable =>
    recs[slots[i].id.key.addr] # None /\ recs[slots[i].id.key.addr].key = slots[i].id.key

NoticesOK ==
  /\ \A n \in published : n.ref \in RefShape /\ n.id \in IdShape
  /\ \A n \in revoked : n.ref \in RefShape /\ n.id \in IdShape
  /\ \A n \in acks : n.ref \in RefShape /\ n.id \in IdShape

StorageInv ==
  /\ bounds \in Bounds
  /\ worker \in Nat /\ stream \in Nat
  /\ PoolOK(pool) /\ RecordsOK(records)
  /\ ViewsFit(views, pool) /\ AddressesFit(records, pool)
  /\ NoticesOK

-----------------------------------------------------------------------------
(* Steps of a slot.                                                        *)

\* Within an incarnation a slot moves on and keeps what is written in it.
SlotStep(s, t) ==
  /\ SlotOK(t) /\ t.inc >= s.inc
  /\ t.inc = s.inc =>
       /\ Order(t.state) >= Order(s.state)
       /\ s.state # "Free" => t.id = s.id /\ t.expiry = s.expiry /\ t.lease = s.lease
Moves(slots, next) == \A i \in Slots : SlotStep(slots[i], next[i])

\* A plan that can be read stays readable and pinned as it was.
Held(s, t) == s.state \in Readable => t.state \in Readable /\ t.inc = s.inc /\ t.pinned = s.pinned

\* Nothing becomes readable.
NotNew(s, t) == t.state \in Readable => s.state \in Readable /\ t.inc = s.inc

LEMMA SameStep ==
  ASSUME NEW s, SlotOK(s)
  PROVE  SlotStep(s, s) /\ Held(s, s) /\ NotNew(s, s)
BY DEF SlotStep, SlotOK, SlotShape, States, Order, Held, NotNew

\* Giving a slot back advances its incarnation, or leaves it as it is.
LEMMA ReleasedStep ==
  ASSUME NEW s, SlotOK(s), s.state \in {"Writing", "Reclaimable"}
  PROVE  /\ SlotStep(s, Released(s)) /\ Held(s, Released(s)) /\ NotNew(s, Released(s))
<1>1. CASE Exhausted(s)
  BY <1>1, SameStep DEF Released
<1>2. CASE ~Exhausted(s)
  <2>1. Released(s) = [FreeSlot(s.inc + 1) EXCEPT !.pinned = s.pinned]
    BY <1>2 DEF Released
  <2>2. /\ Released(s).state = "Free" /\ Released(s).inc = s.inc + 1
        /\ Released(s) \in SlotShape
    BY <2>1 DEF FreeSlot, SlotOK, SlotShape, States, Reasons
  <2> QED
    BY <2>2 DEF SlotStep, SlotOK, SlotShape, Held, NotNew, Readable
<1> QED
  BY <1>1, <1>2

LEMMA StrandedStep ==
  ASSUME NEW s, SlotOK(s), s.state = "Writing"
  PROVE  /\ SlotStep(s, ReleasedOrStranded(s)) /\ Held(s, ReleasedOrStranded(s)) /\ NotNew(s, ReleasedOrStranded(s))
<1>1. CASE Exhausted(s)
  <2>1. ReleasedOrStranded(s) = [s EXCEPT !.state = "Reclaimable"]
    BY <1>1 DEF ReleasedOrStranded
  <2> QED
    BY <2>1 DEF SlotStep, SlotOK, SlotShape, States, Held, NotNew, Readable, Order
<1>2. CASE ~Exhausted(s)
  BY <1>2, ReleasedStep DEF ReleasedOrStranded
<1> QED
  BY <1>1, <1>2

\* Retiring a plan never takes it away from whoever reads it.
LEMMA RetiredStep ==
  ASSUME NEW s, SlotOK(s), NEW reason \in Reasons
  PROVE  /\ SlotStep(s, RetiredSlot(s, reason)) /\ Held(s, RetiredSlot(s, reason))
         /\ NotNew(s, RetiredSlot(s, reason))
<1>1. CASE s.state = "Writing"
  BY <1>1, StrandedStep DEF RetiredSlot
<1>2. CASE s.state \in Readable
  <2>1. RetiredSlot(s, reason) \in {[s EXCEPT !.state = "Retained", !.reason = reason],
                                    [s EXCEPT !.reason = reason], [s EXCEPT !.reason = s.reason]}
    BY <1>2 DEF RetiredSlot, Readable
  <2>2. /\ RetiredSlot(s, reason) \in SlotShape
        /\ RetiredSlot(s, reason).inc = s.inc /\ RetiredSlot(s, reason).id = s.id
        /\ RetiredSlot(s, reason).expiry = s.expiry /\ RetiredSlot(s, reason).lease = s.lease
        /\ RetiredSlot(s, reason).pinned = s.pinned
        /\ RetiredSlot(s, reason).state \in {s.state, "Retained"}
    BY <2>1 DEF SlotOK, SlotShape, States
  <2> QED
    BY <1>2, <2>2 DEF SlotStep, SlotOK, SlotShape, Held, NotNew, Readable, Order
<1>3. CASE s.state \in {"Free", "Reclaimable"}
  BY <1>3, SameStep DEF RetiredSlot
<1> QED
  BY <1>1, <1>2, <1>3 DEF SlotOK, SlotShape, States, Readable

LEMMA RetiredPoolStep ==
  ASSUME PoolOK(pool), NEW chosen, NEW reason \in Reasons
  PROVE  /\ PoolOK(RetiredPool(chosen, reason)) /\ Moves(pool, RetiredPool(chosen, reason))
         /\ \A i \in Slots : /\ Held(pool[i], RetiredPool(chosen, reason)[i])
                             /\ NotNew(pool[i], RetiredPool(chosen, reason)[i])
<1>1. ASSUME NEW i \in Slots
      PROVE  /\ SlotStep(pool[i], RetiredPool(chosen, reason)[i])
             /\ Held(pool[i], RetiredPool(chosen, reason)[i]) /\ NotNew(pool[i], RetiredPool(chosen, reason)[i])
  BY <1>1, SameStep, RetiredStep DEF RetiredPool, PoolOK
<1>2. RetiredPool(chosen, reason) = [i \in Slots |-> RetiredPool(chosen, reason)[i]]
  BY DEF RetiredPool
<1> QED
  BY <1>1, <1>2 DEF PoolOK, Moves, SlotStep

-----------------------------------------------------------------------------
(* What the steps of the pool leave of the views and of the addresses.     *)

LEMMA ViewKept ==
  ASSUME NEW w, NEW view, NEW slots, NEW next,
         PoolOK(slots), Moves(slots, next), ViewFits(w, view, slots),
         view # None /\ view.pin.active => Held(slots[view.pin.ref.slot], next[view.pin.ref.slot])
  PROVE  ViewFits(w, view, next)
<1> SUFFICES ASSUME view # None PROVE ViewFits(w, view, next)
  BY DEF ViewFits
<1>1. view \in ViewShape /\ CurrentFits(w, view, slots) /\ PinFits(w, view, slots)
  BY DEF ViewFits
<1>2. CurrentFits(w, view, next)
  <2> SUFFICES ASSUME NEW a \in Addresses, NEW ref, ref = view.current[a], ref # None
               PROVE  /\ ref.inc <= next[ref.slot].inc
                      /\ In(next, ref) => /\ next[ref.slot].state \in {"Published", "Retained", "Reclaimable"}
                                          /\ next[ref.slot].id.worker = w
    BY DEF CurrentFits
  <2>1. ref \in RefShape
    BY <1>1 DEF ViewShape
  <2>2. /\ ref.slot \in Slots /\ ref.inc \in Nat /\ ref.inc <= slots[ref.slot].inc
        /\ In(slots, ref) => /\ slots[ref.slot].state \in {"Published", "Retained", "Reclaimable"}
                             /\ slots[ref.slot].id.worker = w
    BY <1>1, <2>1 DEF CurrentFits, RefShape
  <2>3. SlotOK(slots[ref.slot]) /\ SlotStep(slots[ref.slot], next[ref.slot])
    BY <2>2 DEF PoolOK, Moves
  <2>4. slots[ref.slot].inc \in Nat /\ next[ref.slot].inc \in Nat /\ slots[ref.slot].inc <= next[ref.slot].inc
    BY <2>3 DEF SlotOK, SlotStep, SlotShape
  <2>5. ASSUME In(next, ref) PROVE In(slots, ref) /\ next[ref.slot].inc = slots[ref.slot].inc
    BY <2>2, <2>4, <2>5 DEF In
  <2>6. ASSUME In(next, ref) PROVE next[ref.slot].id.worker = w
    BY <2>2, <2>3, <2>5, <2>6 DEF SlotStep
  <2>7. ASSUME In(next, ref) PROVE next[ref.slot].state \in {"Published", "Retained", "Reclaimable"}
    BY <2>2, <2>3, <2>5, <2>7 DEF SlotStep, SlotOK, SlotShape, States, Order
  <2> QED
    BY <2>2, <2>4, <2>6, <2>7
<1>3. PinFits(w, view, next)
  <2> SUFFICES ASSUME view.pin.active
               PROVE  /\ In(next, view.pin.ref) /\ next[view.pin.ref.slot].id = view.pin.id
                      /\ next[view.pin.ref.slot].state \in Readable /\ next[view.pin.ref.slot].pinned
    BY <1>1 DEF PinFits
  <2>1. view.pin.ref.slot \in Slots
    BY <1>1 DEF PinFits, RefShape
  <2> QED
    BY <1>1, <2>1 DEF PinFits, Moves, SlotStep, Held, In, Readable
<1> QED
  BY <1>1, <1>2, <1>3 DEF ViewFits

\* The records of one state hold the addresses of the other for the same keys.
KeysKept(recs, next) ==
  \A a \in Addresses : recs[a] # None => next[a] # None /\ next[a].key = recs[a].key

LEMMA AddressesKept ==
  ASSUME NEW recs, NEW next, NEW slots, NEW nextSlots,
         PoolOK(slots), Moves(slots, nextSlots), AddressesFit(recs, slots), KeysKept(recs, next),
         \A i \in Slots : NotNew(slots[i], nextSlots[i])
  PROVE  AddressesFit(next, nextSlots)
<1> SUFFICES ASSUME NEW i \in Slots, nextSlots[i].state \in Readable
             PROVE  next[nextSlots[i].id.key.addr] # None /\ next[nextSlots[i].id.key.addr].key = nextSlots[i].id.key
  BY DEF AddressesFit
<1>1. slots[i].state \in Readable /\ nextSlots[i].inc = slots[i].inc
  BY DEF NotNew
<1>2. nextSlots[i].id = slots[i].id /\ slots[i].id \in IdShape
  BY <1>1 DEF Moves, SlotStep, Readable, PoolOK, SlotOK
<1>3. slots[i].id.key.addr \in Addresses
  BY <1>2 DEF IdShape, KeyShape
<1> QED
  BY <1>1, <1>2, <1>3 DEF AddressesFit, KeysKept

-----------------------------------------------------------------------------
(* What the registry's operators do to the records.                        *)

LEMMA UnpublishedKeeps ==
  ASSUME NEW recs, RecordsOK(recs), NEW chosen
  PROVE  RecordsOK(Unpublished(recs, chosen)) /\ KeysKept(recs, Unpublished(recs, chosen))
<1>1. ASSUME NEW a \in Addresses
      PROVE  /\ RecordOK(Unpublished(recs, chosen)[a])
             /\ recs[a] # None =>
                  Unpublished(recs, chosen)[a] # None /\ Unpublished(recs, chosen)[a].key = recs[a].key
  <2>1. CASE recs[a] = None
    BY <2>1 DEF Unpublished, RecordOK
  <2>2. CASE recs[a] # None
    <3>1. recs[a] \in RecordShape
      BY <2>2 DEF RecordsOK, RecordOK
    <3>2. /\ [recs[a] EXCEPT !.published = None] \in RecordShape
          /\ [recs[a] EXCEPT !.published = None].key = recs[a].key
      BY <3>1 DEF RecordShape
    <3>3. Unpublished(recs, chosen)[a] \in {recs[a], [recs[a] EXCEPT !.published = None]}
      BY DEF Unpublished
    <3>4. [recs[a] EXCEPT !.published = None] # None
      BY <3>2, SlotsAssumption
    <3> QED
      BY <2>2, <3>1, <3>2, <3>3, <3>4 DEF RecordOK
  <2> QED
    BY <2>1, <2>2
<1>2. Unpublished(recs, chosen) = [a \in Addresses |-> Unpublished(recs, chosen)[a]]
  BY DEF Unpublished
<1> QED
  BY <1>1, <1>2 DEF RecordsOK, KeysKept

\* Settlement frees an address only when no plan of its key can be read.
LEMMA SettledKeeps ==
  ASSUME NEW recs, NEW slots, NEW candidates,
         RecordsOK(recs), PoolOK(slots), AddressesFit(recs, slots)
  PROVE  /\ RecordsOK(Without(recs, Settling(recs, slots, candidates)))
         /\ AddressesFit(Without(recs, Settling(recs, slots, candidates)), slots)
<1> DEFINE gone == Settling(recs, slots, candidates)
<1>1. RecordsOK(Without(recs, gone))
  BY DEF RecordsOK, RecordOK, Without
<1>2. AddressesFit(Without(recs, gone), slots)
  <2> SUFFICES ASSUME NEW i \in Slots, slots[i].state \in Readable, NEW a, a = slots[i].id.key.addr
               PROVE  Without(recs, gone)[a] # None /\ Without(recs, gone)[a].key = slots[i].id.key
    BY DEF AddressesFit
  <2>1. slots[i].id \in IdShape
    BY DEF PoolOK, SlotOK, Readable
  <2>2. a \in Addresses
    BY <2>1 DEF IdShape, KeyShape
  <2>3. recs[a] # None /\ recs[a].key = slots[i].id.key
    BY DEF AddressesFit
  <2>4. a \notin gone
    BY <2>3 DEF Settling
  <2> QED
    BY <2>2, <2>3, <2>4 DEF Without
<1> QED
  BY <1>1, <1>2

\* A step of the registry that hands on nothing that can be read.
GoodStep ==
  /\ PoolOK(pool') /\ Moves(pool, pool') /\ \A i \in Slots : Held(pool[i], pool'[i])
  /\ RecordsOK(records') /\ AddressesFit(records', pool')

\* The same with a pool of which nothing becomes readable, and the same keys.
LEMMA QuietStep ==
  ASSUME StorageInv, PoolOK(pool'), Moves(pool, pool'), RecordsOK(records'), KeysKept(records, records'),
         \A i \in Slots : Held(pool[i], pool'[i]) /\ NotNew(pool[i], pool'[i])
  PROVE  GoodStep
BY AddressesKept DEF StorageInv, GoodStep

LEMMA SamePool ==
  ASSUME PoolOK(pool), pool' = pool
  PROVE  /\ PoolOK(pool') /\ Moves(pool, pool')
         /\ \A i \in Slots : Held(pool[i], pool'[i]) /\ NotNew(pool[i], pool'[i])
BY SameStep DEF PoolOK, Moves

LEMMA SameKeys ==
  ASSUME NEW recs
  PROVE  KeysKept(recs, recs)
BY DEF KeysKept

\* RetireRecords is such a step.
LEMMA RetireRecordsStep ==
  ASSUME StorageInv, NEW leaving \in SUBSET Active, NEW rows, NEW reason \in Reasons, NEW also,
         RetireRecords(leaving, rows, reason, also)
  PROVE  GoodStep
<1> DEFINE chosen == also \cup UNION {SlotsOf(records[a].key) : a \in leaving}
           slots == RetiredPool(chosen, reason)
           quiet == Unpublished(records, chosen)
           recs == [a \in Addresses |-> IF a \in leaving THEN [quiet[a] EXCEPT !.state = "Retiring"] ELSE quiet[a]]
           gone == Settling(recs, slots, leaving)
<1>1. pool' = slots /\ records' = Without(recs, gone)
  BY DEF RetireRecords
<1>2. /\ PoolOK(slots) /\ Moves(pool, slots)
      /\ \A i \in Slots : Held(pool[i], slots[i]) /\ NotNew(pool[i], slots[i])
  BY RetiredPoolStep DEF StorageInv
<1>3. RecordsOK(quiet) /\ KeysKept(records, quiet)
  BY UnpublishedKeeps DEF StorageInv
<1>4. RecordsOK(recs) /\ KeysKept(records, recs)
  <2>1. ASSUME NEW a \in Addresses
        PROVE  /\ RecordOK(recs[a])
               /\ records[a] # None => recs[a] # None /\ recs[a].key = records[a].key
    <3>1. CASE a \in leaving
      <4>1. records[a] # None
        BY <3>1 DEF Active
      <4>2. quiet[a] \in RecordShape /\ quiet[a].key = records[a].key
        BY <1>3, <4>1 DEF RecordsOK, RecordOK, KeysKept
      <4>3. recs[a] \in RecordShape /\ recs[a].key = records[a].key
        BY <3>1, <4>2 DEF RecordShape
      <4> QED
        BY <4>3, SlotsAssumption DEF RecordOK
    <3>2. CASE a \notin leaving
      BY <1>3, <3>2 DEF RecordsOK, KeysKept
    <3> QED
      BY <3>1, <3>2
  <2> QED
    BY <2>1 DEF RecordsOK, KeysKept
<1>5. AddressesFit(recs, slots)
  BY <1>2, <1>4, AddressesKept DEF StorageInv
<1>6. RecordsOK(Without(recs, gone)) /\ AddressesFit(Without(recs, gone), slots)
  BY <1>2, <1>4, <1>5, SettledKeeps
<1> HIDE DEF slots, recs, gone
<1> QED
  BY <1>1, <1>2, <1>6 DEF GoodStep

-----------------------------------------------------------------------------
(* The registry's steps.                                                   *)

LEMMA BoundsAreNatural ==
  ASSUME bounds \in Bounds
  PROVE  /\ Ticks \subseteq Nat /\ Deadlines \subseteq Nat /\ Subscribers \subseteq Nat /\ Workers \subseteq Nat
         /\ 1 .. bounds.epoch \subseteq Nat /\ 1 .. bounds.source \subseteq Nat
         /\ 1 .. bounds.stream \subseteq Nat /\ 1 .. bounds.plan \subseteq Nat
BY BoundsAssumption DEF Ticks, Deadlines, Subscribers, Workers

LEMMA HostKeeps ==
  ASSUME StorageInv, GoodStep, UNCHANGED <<bounds, views>>, worker' \in Nat, stream' \in Nat, NoticesOK'
  PROVE  StorageInv' /\ Moves(pool, pool')
<1>1. Workers' = Workers
  BY DEF Workers
<1>2. ASSUME NEW w \in Workers PROVE ViewFits(w, views[w], pool')
  <2>1. ViewFits(w, views[w], pool)
    BY <1>2 DEF StorageInv, ViewsFit
  <2>2. views[w] # None /\ views[w].pin.active => views[w].pin.ref.slot \in Slots
    BY <2>1 DEF ViewFits, PinFits, RefShape
  <2> QED
    BY <2>1, <2>2, ViewKept DEF StorageInv, GoodStep
<1>3. ViewsFit(views, pool)'
  BY <1>1, <1>2 DEF ViewsFit, StorageInv
<1> QED
  BY <1>3 DEF StorageInv, GoodStep

\* Steps that leave the pool and the keys of the records alone.
LEMMA RegistryOnly ==
  ASSUME StorageInv, pool' = pool, RecordsOK(records'), KeysKept(records, records'),
         UNCHANGED <<bounds, views, worker, stream>>, NoticesOK'
  PROVE  StorageInv' /\ Moves(pool, pool')
BY SamePool, QuietStep, HostKeeps DEF StorageInv

\* Steps that retire plans, settle nothing and keep the keys.
LEMMA RetiresOnly ==
  ASSUME StorageInv, NEW chosen, NEW reason \in Reasons, pool' = RetiredPool(chosen, reason),
         RecordsOK(records'), KeysKept(records, records'),
         UNCHANGED <<bounds, views, sent>>, worker' \in Nat, stream' \in Nat
  PROVE  StorageInv' /\ Moves(pool, pool')
<1>1. GoodStep
  BY RetiredPoolStep, QuietStep DEF StorageInv
<1>2. NoticesOK'
  BY DEF StorageInv, NoticesOK, sent
<1> QED
  BY <1>1, <1>2, HostKeeps

LEMMA RegisterStep ==
  ASSUME StorageInv, NEW s \in Subscribers, NEW a \in Addresses, NEW e \in 1 .. bounds.epoch,
         NEW x \in 1 .. bounds.source, NEW t \in Deadlines, NEW u \in Deadlines, NEW now,
         AA23Register(s, a, e, x, t, u, now), UNCHANGED bounds
  PROVE  StorageInv' /\ Moves(pool, pool')
<1> DEFINE r == [state |-> "Active", key |-> [sub |-> s, addr |-> a, epoch |-> e], lease |-> t,
                 source |-> x, sourceLease |-> u, published |-> None, publishTop |-> 0]
<1>1. r \in RecordShape
  BY BoundsAreNatural DEF StorageInv, RecordShape, KeyShape
<1>2. records[a] = None /\ records' = [records EXCEPT ![a] = r] /\ pool' = pool
      /\ UNCHANGED <<views, worker, stream, published, revoked, acks>>
  BY DEF AA23Register, binding, sent
<1> HIDE DEF r
<1>3. RecordsOK(records')
  BY <1>1, <1>2 DEF StorageInv, RecordsOK, RecordOK
<1>4. KeysKept(records, records')
  BY <1>2 DEF KeysKept, StorageInv, RecordsOK
<1>5. NoticesOK'
  BY <1>2 DEF StorageInv, NoticesOK
<1> QED
  BY <1>2, <1>3, <1>4, <1>5, RegistryOnly

LEMMA RenewStep ==
  ASSUME StorageInv, NEW a \in Addresses, NEW t \in Deadlines, NEW now,
         AA23RenewRegistration(a, t, now), UNCHANGED bounds
  PROVE  StorageInv' /\ Moves(pool, pool')
<1>1. records[a] # None /\ records' = [records EXCEPT ![a].lease = t] /\ pool' = pool
      /\ UNCHANGED <<views, worker, stream, published, revoked, acks>>
  BY DEF AA23RenewRegistration, Active, binding, sent
<1>2. records[a] \in RecordShape
  BY <1>1 DEF StorageInv, RecordsOK, RecordOK
<1>3. records'[a] \in RecordShape /\ records'[a].key = records[a].key
  BY <1>1, <1>2, BoundsAreNatural DEF RecordShape, StorageInv, RecordsOK
<1>4. records' = [b \in Addresses |-> records'[b]] /\ \A b \in Addresses \ {a} : records'[b] = records[b]
  BY <1>1 DEF StorageInv, RecordsOK
<1>5. RecordsOK(records') /\ KeysKept(records, records')
  BY <1>3, <1>4, SlotsAssumption DEF StorageInv, RecordsOK, RecordOK, KeysKept
<1>6. NoticesOK'
  BY <1>1 DEF StorageInv, NoticesOK
<1> QED
  BY <1>1, <1>5, <1>6, RegistryOnly

LEMMA AdvanceSourceStep ==
  ASSUME StorageInv, NEW a \in Addresses, NEW x \in 1 .. bounds.source, NEW t \in Deadlines, NEW now,
         AA23AdvanceSource(a, x, t, now), UNCHANGED bounds
  PROVE  StorageInv' /\ Moves(pool, pool')
<1> DEFINE chosen == SlotsOf(records[a].key)
           quiet == Unpublished(records, chosen)
<1>1. records[a] # None /\ records' = [quiet EXCEPT ![a].source = x, ![a].sourceLease = t]
      /\ pool' = RetiredPool(chosen, "Revoked") /\ UNCHANGED <<views, worker, stream, sent>>
  BY DEF AA23AdvanceSource, Active, binding
<1>2. RecordsOK(quiet) /\ KeysKept(records, quiet)
  BY UnpublishedKeeps DEF StorageInv
<1> HIDE DEF quiet, chosen
<1>3. quiet[a] \in RecordShape /\ quiet[a].key = records[a].key
  BY <1>1, <1>2 DEF RecordsOK, RecordOK, KeysKept
<1>4. records'[a] \in RecordShape /\ records'[a].key = records[a].key
  BY <1>1, <1>2, <1>3, BoundsAreNatural DEF RecordShape, StorageInv, RecordsOK
<1>5. records' = [b \in Addresses |-> records'[b]] /\ \A b \in Addresses \ {a} : records'[b] = quiet[b]
  BY <1>1, <1>2 DEF RecordsOK
<1>6. RecordsOK(records') /\ KeysKept(records, records')
  BY <1>2, <1>4, <1>5, SlotsAssumption DEF RecordsOK, RecordOK, KeysKept
<1> QED
  BY <1>1, <1>6, RetiresOnly DEF StorageInv, Reasons

LEMMA BindWorkerStep ==
  ASSUME StorageInv, NEW w \in Workers, NEW st \in 1 .. bounds.stream, AA23BindWorker(w, st), UNCHANGED bounds
  PROVE  StorageInv' /\ Moves(pool, pool')
<1> DEFINE quiet == Unpublished(records, Slots)
<1>1. /\ records' = [a \in Addresses |-> IF quiet[a] # None /\ w > workerTop
                                         THEN [quiet[a] EXCEPT !.publishTop = 0] ELSE quiet[a]]
      /\ pool' = RetiredPool(Slots, "Revoked") /\ worker' = w /\ stream' = st /\ UNCHANGED <<views, sent>>
  BY DEF AA23BindWorker
<1>2. RecordsOK(quiet) /\ KeysKept(records, quiet)
  BY UnpublishedKeeps DEF StorageInv
<1> HIDE DEF quiet
<1>3. ASSUME NEW a \in Addresses
      PROVE  RecordOK(records'[a]) /\ (records[a] # None => records'[a] # None /\ records'[a].key = records[a].key)
  <2>1. CASE quiet[a] # None /\ w > workerTop
    <3>1. quiet[a] \in RecordShape
      BY <1>2, <2>1 DEF RecordsOK, RecordOK
    <3>2. records'[a] \in RecordShape /\ records'[a].key = quiet[a].key
      BY <1>1, <2>1, <3>1 DEF RecordShape
    <3> QED
      BY <1>2, <3>2, SlotsAssumption DEF RecordOK, KeysKept
  <2>2. CASE ~(quiet[a] # None /\ w > workerTop)
    BY <1>1, <1>2, <2>2 DEF RecordsOK, KeysKept
  <2> QED
    BY <2>1, <2>2
<1>4. RecordsOK(records') /\ KeysKept(records, records')
  BY <1>1, <1>3 DEF RecordsOK, KeysKept
<1> QED
  BY <1>1, <1>4, RetiresOnly, BoundsAreNatural DEF StorageInv, Reasons

\* A step of one slot, with the records left alone, after which nothing new can be read.
LEMMA OneSlot ==
  ASSUME StorageInv, NEW i \in Slots, NEW t, pool' = [pool EXCEPT ![i] = t],
         SlotStep(pool[i], t), Held(pool[i], t), NotNew(pool[i], t),
         UNCHANGED <<bounds, views, records, worker, stream, published, revoked, acks>>
  PROVE  StorageInv' /\ Moves(pool, pool')
<1>1. pool' = [j \in Slots |-> IF j = i THEN t ELSE pool[j]]
  BY DEF StorageInv, PoolOK
<1>2. \A j \in Slots : SlotStep(pool[j], pool'[j]) /\ Held(pool[j], pool'[j]) /\ NotNew(pool[j], pool'[j])
  BY <1>1, SameStep DEF StorageInv, PoolOK
<1>3. PoolOK(pool') /\ Moves(pool, pool')
  BY <1>1, <1>2 DEF PoolOK, Moves, SlotStep
<1>4. GoodStep
  BY <1>2, <1>3, QuietStep, SameKeys DEF StorageInv
<1>5. NoticesOK'
  BY DEF StorageInv, NoticesOK
<1> QED
  BY <1>4, <1>5, HostKeeps DEF StorageInv

LEMMA MinOfTwo ==
  ASSUME NEW x \in Nat, NEW y \in Nat
  PROVE  Min({x, y}) \in Nat
<1>1. \E m \in {x, y} : \A n \in {x, y} : m <= n
  <2>1. CASE x <= y
    BY <2>1
  <2>2. CASE y <= x
    BY <2>2
  <2> QED
    BY <2>1, <2>2
<1> QED
  BY <1>1 DEF Min

LEMMA PrepareStep ==
  ASSUME StorageInv, NEW a \in Addresses, NEW g \in 1 .. bounds.plan, NEW t \in Deadlines, NEW i \in Slots, NEW now,
         AA23PreparePlan(a, g, t, i, now), UNCHANGED bounds
  PROVE  StorageInv' /\ Moves(pool, pool')
<1> DEFINE id == [key |-> records[a].key, worker |-> worker, stream |-> stream, plan |-> g, source |-> records[a].source]
           lease == Min({records[a].lease, records[a].sourceLease})
           s == [pool[i] EXCEPT !.state = "Writing", !.id = id, !.expiry = t, !.lease = lease]
<1>1. records[a] \in RecordShape
  BY DEF AA23PreparePlan, Active, StorageInv, RecordsOK, RecordOK
<1>2. id \in IdShape /\ lease \in Nat /\ t \in Nat
  BY <1>1, MinOfTwo, BoundsAreNatural DEF StorageInv, IdShape, RecordShape
<1>3. pool[i].state = "Free" /\ UNCHANGED <<views, records, worker, stream, published, revoked, acks>>
  BY DEF AA23PreparePlan, registry, sent
<1>4. pool' = [pool EXCEPT ![i].state = "Writing", ![i].id = id, ![i].expiry = t, ![i].lease = lease]
  BY DEF AA23PreparePlan
<1> HIDE DEF id, lease
<1>5. pool' = [pool EXCEPT ![i] = s]
  BY <1>4 DEF StorageInv, PoolOK
<1>6. /\ s \in SlotShape /\ s.state = "Writing" /\ s.id = id /\ s.inc = pool[i].inc
  BY <1>2 DEF StorageInv, PoolOK, SlotOK, SlotShape, States
<1> HIDE DEF s
<1>7. SlotStep(pool[i], s) /\ Held(pool[i], s) /\ NotNew(pool[i], s)
  BY <1>2, <1>3, <1>6 DEF SlotStep, SlotOK, SlotShape, Held, NotNew, Readable, Order
<1> QED
  BY <1>3, <1>5, <1>7, OneSlot

LEMMA GivesBackStep ==
  ASSUME StorageInv, NEW i \in Slots, NEW now, UNCHANGED bounds,
         AA23AbortPrepared(i) \/ PublishStale(i, now) \/ AA23Reclaim(i)
  PROVE  StorageInv' /\ Moves(pool, pool')
<1>1. SlotOK(pool[i])
  BY DEF StorageInv, PoolOK
<1>2. UNCHANGED <<views, records, worker, stream, published, revoked, acks>>
  BY DEF AA23AbortPrepared, PublishStale, AA23Reclaim, registry, binding, sent
<1>3. CASE pool[i].state \in {"Writing", "Reclaimable"} /\ pool' = [pool EXCEPT ![i] = Released(pool[i])]
  BY <1>1, <1>2, <1>3, ReleasedStep, OneSlot
<1>4. CASE pool[i].state = "Writing" /\ pool' = [pool EXCEPT ![i] = ReleasedOrStranded(pool[i])]
  BY <1>1, <1>2, <1>4, StrandedStep, OneSlot
<1> QED
  BY <1>3, <1>4 DEF AA23AbortPrepared, PublishStale, AA23Reclaim

\* The new plan is of the registration that holds the address; the one before it can
\* still be read.
LEMMA PublishStep ==
  ASSUME StorageInv, NEW i \in Slots, NEW now, AA23PublishPrepared(i, now), UNCHANGED bounds
  PROVE  StorageInv' /\ Moves(pool, pool')
<1> DEFINE id == pool[i].id
           a == id.key.addr
           previous == records[a].published
           s == [pool[i] EXCEPT !.state = "Published"]
<1>1. SlotOK(pool[i]) /\ pool[i].state = "Writing" /\ id \in IdShape /\ a \in Addresses
  <2>1. SlotOK(pool[i])
    BY DEF StorageInv, PoolOK
  <2>2. pool[i].state = "Writing"
    BY Zenon DEF AA23PublishPrepared
  <2> QED
    BY <2>1, <2>2 DEF SlotOK, IdShape, KeyShape
<1>2. records[a] # None /\ records[a].key = id.key
  BY DEF AA23PublishPrepared, Current, Publishable, Active
<1>3. /\ pool' = [j \in Slots |-> CASE j = i -> s [] j # i /\ j = previous -> RetiredSlot(pool[j], "Superseded") [] OTHER -> pool[j]]
      /\ records' = [records EXCEPT ![a].published = i, ![a].publishTop = id.plan]
      /\ published' = published \cup {[ref |-> Ref(i), id |-> id]}
      /\ UNCHANGED <<views, worker, stream, revoked, acks>>
  BY DEF AA23PublishPrepared, binding
<1>4. SlotStep(pool[i], s) /\ Held(pool[i], s) /\ s.id = id
  BY <1>1 DEF SlotStep, SlotOK, SlotShape, States, Held, Readable, Order
<1> HIDE DEF id, a, s, previous
<1>5. ASSUME NEW j \in Slots, j # i
      PROVE  SlotStep(pool[j], pool'[j]) /\ Held(pool[j], pool'[j]) /\ NotNew(pool[j], pool'[j])
  <2>1. SlotOK(pool[j]) /\ pool'[j] \in {RetiredSlot(pool[j], "Superseded"), pool[j]}
    BY <1>3, <1>5 DEF StorageInv, PoolOK
  <2>2. "Superseded" \in Reasons
    BY DEF Reasons
  <2> QED
    BY <2>1, <2>2, SameStep, RetiredStep
<1>6. pool'[i] = s
  BY <1>3
<1>7. PoolOK(pool') /\ Moves(pool, pool') /\ \A j \in Slots : Held(pool[j], pool'[j])
  <2>1. pool' = [j \in Slots |-> pool'[j]]
    BY <1>3
  <2> QED
    BY <1>4, <1>5, <1>6, <2>1 DEF PoolOK, Moves, SlotStep
<1>8. records[a] \in RecordShape
  BY <1>1, <1>2 DEF StorageInv, RecordsOK, RecordOK
<1>9. records'[a] \in RecordShape /\ records'[a].key = records[a].key
  BY <1>1, <1>3, <1>8 DEF RecordShape, IdShape, StorageInv, RecordsOK
<1>10. records' = [b \in Addresses |-> records'[b]] /\ \A b \in Addresses \ {a} : records'[b] = records[b]
  BY <1>3 DEF StorageInv, RecordsOK
<1>11. RecordsOK(records') /\ KeysKept(records, records')
  BY <1>9, <1>10, SlotsAssumption DEF StorageInv, RecordsOK, RecordOK, KeysKept
<1>12. AddressesFit(records', pool')
  <2> SUFFICES ASSUME NEW j \in Slots, pool'[j].state \in Readable
               PROVE  records'[pool'[j].id.key.addr] # None /\ records'[pool'[j].id.key.addr].key = pool'[j].id.key
    BY DEF AddressesFit
  <2>1. CASE j = i
    BY <1>1, <1>2, <1>4, <1>6, <1>11, <2>1 DEF KeysKept, a
  <2>2. CASE j # i
    <3>1. pool[j].state \in Readable /\ pool'[j].inc = pool[j].inc
      BY <1>5, <2>2 DEF NotNew
    <3>2. pool'[j].id = pool[j].id /\ pool[j].id \in IdShape
      BY <1>7, <3>1 DEF Moves, SlotStep, Readable, StorageInv, PoolOK, SlotOK
    <3>3. pool[j].id.key.addr \in Addresses
      BY <3>2 DEF IdShape, KeyShape
    <3> QED
      BY <1>11, <3>1, <3>2, <3>3 DEF KeysKept, StorageInv, AddressesFit
  <2> QED
    BY <2>1, <2>2
<1>13. NoticesOK'
  <2>1. Ref(i) \in RefShape
    BY <1>1 DEF Ref, RefShape, SlotOK, SlotShape
  <2> QED
    BY <1>1, <1>3, <2>1 DEF StorageInv, NoticesOK
<1> QED
  BY <1>3, <1>7, <1>11, <1>12, <1>13, HostKeeps DEF GoodStep, StorageInv

LEMMA PendingStep ==
  ASSUME StorageInv, AA23PendingRevocations, UNCHANGED bounds
  PROVE  StorageInv' /\ Moves(pool, pool')
<1>1. /\ revoked' = revoked \cup {[ref |-> Ref(i), id |-> pool[i].id, reason |-> pool[i].reason] :
                                   i \in {j \in Slots : pool[j].state = "Retained"}}
      /\ UNCHANGED <<pool, records, views, worker, stream, published, acks>>
  BY DEF AA23PendingRevocations, registry, binding
<1>2. ASSUME NEW i \in Slots, pool[i].state = "Retained"
      PROVE  Ref(i) \in RefShape /\ pool[i].id \in IdShape
  BY <1>2 DEF StorageInv, PoolOK, SlotOK, SlotShape, Ref, RefShape
<1>3. NoticesOK'
  BY <1>1, <1>2 DEF StorageInv, NoticesOK
<1> QED
  BY <1>1, <1>3, RegistryOnly, SameKeys DEF StorageInv

\* Only what no transaction holds becomes reclaimable on an acknowledgement.
LEMMA AcknowledgementStep ==
  ASSUME StorageInv, NEW ack \in acks, AA23ObserveAcknowledgement(ack), UNCHANGED bounds
  PROVE  StorageInv' /\ Moves(pool, pool')
<1> DEFINE i == ack.ref.slot
           s == [pool[i] EXCEPT !.state = "Reclaimable"]
           slots == [pool EXCEPT ![i].state = "Reclaimable"]
           gone == Settling(records, slots, {pool[i].id.key.addr})
<1>1. i \in Slots
  BY DEF StorageInv, NoticesOK, RefShape
<1>2. /\ pool[i].state = "Retained" /\ ~pool[i].pinned /\ pool' = slots /\ records' = Without(records, gone)
      /\ UNCHANGED <<views, worker, stream, published, revoked, acks>>
  BY DEF AA23ObserveAcknowledgement, binding, sent
<1>3. slots = [j \in Slots |-> IF j = i THEN s ELSE pool[j]]
  BY DEF StorageInv, PoolOK
<1>4. SlotOK(pool[i])
  BY <1>1 DEF StorageInv, PoolOK
<1>5. SlotStep(pool[i], s) /\ NotNew(pool[i], s) /\ s.state = "Reclaimable"
  BY <1>2, <1>4 DEF SlotStep, SlotOK, SlotShape, States, NotNew, Readable, Order
<1> HIDE DEF s, i
<1>6. ASSUME NEW j \in Slots PROVE SlotStep(pool[j], slots[j]) /\ NotNew(pool[j], slots[j]) /\ (j # i => Held(pool[j], slots[j]))
  BY <1>3, <1>5, SameStep DEF StorageInv, PoolOK
<1>7. PoolOK(slots) /\ Moves(pool, slots)
  BY <1>3, <1>6 DEF PoolOK, Moves, SlotStep
<1>8. AddressesFit(records, slots)
  BY <1>6, <1>7, AddressesKept, SameKeys DEF StorageInv
<1> HIDE DEF slots
<1>9. RecordsOK(Without(records, gone)) /\ AddressesFit(Without(records, gone), slots)
  BY <1>7, <1>8, SettledKeeps DEF StorageInv
<1>10. ASSUME NEW w \in Workers PROVE ViewFits(w, views[w], slots)
  <2>1. ViewFits(w, views[w], pool)
    BY <1>10 DEF StorageInv, ViewsFit
  <2>2. views[w] # None /\ views[w].pin.active =>
          views[w].pin.ref.slot \in Slots /\ pool[views[w].pin.ref.slot].pinned
    BY <2>1 DEF ViewFits, PinFits, RefShape
  <2>3. views[w] # None /\ views[w].pin.active => Held(pool[views[w].pin.ref.slot], slots[views[w].pin.ref.slot])
    BY <1>2, <1>6, <2>2
  <2> QED
    BY <1>7, <2>1, <2>3, ViewKept DEF StorageInv
<1>11. Workers' = Workers
  BY DEF Workers
<1>12. ViewsFit(views, pool)'
  BY <1>2, <1>10, <1>11 DEF ViewsFit, StorageInv
<1>13. NoticesOK'
  BY <1>2 DEF StorageInv, NoticesOK
<1> QED
  BY <1>2, <1>7, <1>9, <1>12, <1>13 DEF StorageInv

\* The end of a worker takes its own plans and no other's.
LEMMA TerminatedStep ==
  ASSUME StorageInv, NEW w \in Workers, AA23ObserveWorkerTerminated(w), UNCHANGED bounds
  PROVE  StorageInv' /\ Moves(pool, pool')
<1> DEFINE own == bound /\ worker = w
           writing == {i \in Slots : own /\ pool[i].state = "Writing"}
           ended == {i \in Slots : pool[i].state \in Readable /\ pool[i].id.worker = w}
           slots == [i \in Slots |->
                      IF i \in ended THEN [RetiredSlot(pool[i], "Revoked") EXCEPT !.pinned = FALSE, !.state = "Reclaimable"]
                      ELSE IF i \in writing THEN RetiredSlot(pool[i], "Revoked") ELSE pool[i]]
           recs == Unpublished(records, ended)
           gone == Settling(recs, slots, {pool[i].id.key.addr : i \in ended})
<1>1. /\ pool' = slots /\ records' = Without(recs, gone) /\ views' = [views EXCEPT ![w] = None]
      /\ UNCHANGED <<worker, stream, sent>>
  BY DEF AA23ObserveWorkerTerminated
<1> HIDE DEF own, writing, gone
<1>2. "Revoked" \in Reasons
  BY DEF Reasons
<1>3. ASSUME NEW i \in Slots
      PROVE  /\ SlotStep(pool[i], slots[i]) /\ NotNew(pool[i], slots[i])
             /\ i \notin ended => Held(pool[i], slots[i])
  <2> DEFINE s == RetiredSlot(pool[i], "Revoked")
  <2>1. SlotOK(pool[i])
    BY DEF StorageInv, PoolOK
  <2>2. SlotStep(pool[i], s) /\ Held(pool[i], s) /\ NotNew(pool[i], s)
    BY <1>2, <2>1, RetiredStep
  <2>3. CASE i \in ended
    <3>1. slots[i] = [s EXCEPT !.pinned = FALSE, !.state = "Reclaimable"]
      BY <2>3
    <3>2. pool[i].state \in Readable /\ s.state \in Readable /\ s.inc = pool[i].inc /\ SlotOK(s)
      BY <2>2, <2>3 DEF Held, SlotStep
    <3> HIDE DEF s, slots
    <3>3. /\ slots[i] \in SlotShape /\ slots[i].state = "Reclaimable" /\ slots[i].inc = s.inc
          /\ slots[i].id = s.id /\ slots[i].expiry = s.expiry /\ slots[i].lease = s.lease
      BY <3>1, <3>2 DEF SlotOK, SlotShape, States
    <3> QED
      BY <2>2, <2>3, <3>2, <3>3 DEF SlotStep, SlotOK, SlotShape, NotNew, Readable, Order
  <2>4. CASE i \notin ended
    BY <2>1, <2>2, <2>4, SameStep
  <2> QED
    BY <2>3, <2>4
<1>4. PoolOK(slots) /\ Moves(pool, slots)
  BY <1>3 DEF PoolOK, Moves, SlotStep
<1>5. RecordsOK(recs) /\ KeysKept(records, recs)
  BY UnpublishedKeeps DEF StorageInv
<1>6. AddressesFit(recs, slots)
  BY <1>3, <1>4, <1>5, AddressesKept DEF StorageInv
<1> HIDE DEF slots, recs
<1>7. RecordsOK(Without(recs, gone)) /\ AddressesFit(Without(recs, gone), slots)
  BY <1>4, <1>5, <1>6, SettledKeeps DEF gone
<1>8. ASSUME NEW v \in Workers PROVE ViewFits(v, views'[v], slots)
  <2>1. views'[v] = IF v = w THEN None ELSE views[v]
    BY <1>1 DEF StorageInv, ViewsFit
  <2>2. CASE v = w
    BY <2>1, <2>2 DEF ViewFits
  <2>3. CASE v # w
    <3>1. ViewFits(v, views[v], pool)
      BY DEF StorageInv, ViewsFit
    <3>2. views[v] # None /\ views[v].pin.active =>
            views[v].pin.ref.slot \in Slots /\ views[v].pin.ref.slot \notin ended
      BY <2>3, <3>1 DEF ViewFits, PinFits, RefShape
    <3> HIDE DEF ended
    <3>3. ViewFits(v, views[v], slots)
      BY <1>3, <1>4, <3>1, <3>2, ViewKept DEF StorageInv
    <3> QED
      BY <2>1, <2>3, <3>3
  <2> QED
    BY <2>2, <2>3
<1>9. Workers' = Workers
  BY DEF Workers
<1>10. views' = [v \in Workers |-> views'[v]]
  BY <1>1 DEF StorageInv, ViewsFit
<1>11. ViewsFit(views, pool)'
  BY <1>1, <1>8, <1>9, <1>10 DEF ViewsFit
<1>12. NoticesOK'
  BY <1>1 DEF StorageInv, NoticesOK, sent
<1> QED
  BY <1>1, <1>4, <1>7, <1>11, <1>12 DEF StorageInv

\* Every step of the registry keeps the storage.
LEMMA HostStep ==
  ASSUME StorageInv, HostNext, UNCHANGED bounds
  PROVE  StorageInv' /\ Moves(pool, pool')
<1> DEFINE Goal == StorageInv' /\ Moves(pool, pool')
<1> USE DEF registry, binding
<1>1. RecordsOK(records) /\ NoticesOK /\ worker \in Nat /\ stream \in Nat /\ {"Revoked", "Expired"} \subseteq Reasons
  BY DEF StorageInv, Reasons
<1>2. ASSUME sent' = sent PROVE NoticesOK'
  BY <1>1, <1>2 DEF NoticesOK, sent
<1>3. ASSUME UNCHANGED <<pool, records, views, worker, stream, sent>> PROVE Goal
  BY <1>1, <1>2, <1>3, RegistryOnly, SameKeys
<1>4. ASSUME NEW chosen, pool' = RetiredPool(chosen, "Revoked"), records' = Unpublished(records, chosen),
             UNCHANGED <<views, worker, stream, sent>>
      PROVE  Goal
  BY <1>1, <1>4, RetiresOnly, UnpublishedKeeps
<1>5. ASSUME NEW leaving \in SUBSET Active, NEW rows, NEW reason \in Reasons, NEW also,
             RetireRecords(leaving, rows, reason, also), UNCHANGED <<views, worker, stream, sent>>
      PROVE  Goal
  BY <1>1, <1>2, <1>5, RetireRecordsStep, HostKeeps
<1>6. CASE HostClockFault
  BY <1>4, <1>6 DEF HostClockFault
<1>7. CASE AA23OpenSubscriber
  BY <1>3, <1>7 DEF AA23OpenSubscriber
<1>8. CASE AA23Reset
  BY <1>1, <1>5, <1>8 DEF AA23Reset
<1>9. CASE AA23PendingRevocations
  BY <1>9, PendingStep
<1>10. ASSUME NEW now \in Ticks, HostReading(now) \/ AA23ExpireDue(now) PROVE Goal
  <2>1. CASE HostReading(now)
    BY <1>3, <2>1 DEF HostReading
  <2>2. CASE AA23ExpireDue(now)
    <3>1. {a \in Active : now >= records[a].lease} \in SUBSET Active
      OBVIOUS
    <3> QED
      BY <1>1, <1>5, <2>2, <3>1 DEF AA23ExpireDue
  <2> QED
    BY <1>10, <2>1, <2>2
<1>11. ASSUME NEW now \in Ticks, NEW a \in Addresses, NEW t \in Deadlines,
              \/ \E s \in Subscribers, e \in 1 .. bounds.epoch, x \in 1 .. bounds.source, u \in Deadlines :
                   AA23Register(s, a, e, x, t, u, now)
              \/ AA23RenewRegistration(a, t, now)
              \/ \E x \in 1 .. bounds.source : AA23AdvanceSource(a, x, t, now)
              \/ \E g \in 1 .. bounds.plan, i \in Slots : AA23PreparePlan(a, g, t, i, now)
       PROVE  Goal
  BY <1>11, RegisterStep, RenewStep, AdvanceSourceStep, PrepareStep
<1>12. ASSUME NEW now \in Ticks, NEW i \in Slots, AA23PublishPrepared(i, now) \/ PublishStale(i, now) PROVE Goal
  BY <1>12, PublishStep, GivesBackStep
<1>13. ASSUME NEW s \in Subscribers, AA23DisconnectSubscriber(s) PROVE Goal
  <2>1. {a \in Active : records[a].key.sub = s} \in SUBSET Active
    OBVIOUS
  <2> QED
    BY <1>1, <1>5, <1>13, <2>1 DEF AA23DisconnectSubscriber
<1>14. ASSUME NEW s, NEW m, AA23BindMaster(s, m) \/ AA23ReleaseMaster(s, m) PROVE Goal
  BY <1>3, <1>14 DEF AA23BindMaster, AA23ReleaseMaster
<1>15. ASSUME NEW a \in Addresses, AA23Unregister(a) PROVE Goal
  <2>1. {a} \in SUBSET Active
    BY <1>15 DEF AA23Unregister
  <2> QED
    BY <1>1, <1>5, <1>15, <2>1 DEF AA23Unregister
<1>16. ASSUME NEW a, AA23MarkPhysicalConflict(a) \/ AA23ClearPhysicalConflict(a) PROVE Goal
  BY <1>3, <1>4, <1>16 DEF AA23MarkPhysicalConflict, AA23ClearPhysicalConflict
<1>17. ASSUME NEW w \in Workers,
              (\E st \in 1 .. bounds.stream : AA23BindWorker(w, st)) \/ AA23ObserveWorkerTerminated(w)
       PROVE  Goal
  BY <1>17, BindWorkerStep, TerminatedStep
<1>18. ASSUME NEW i \in Slots, AA23AbortPrepared(i) \/ AA23Reclaim(i) PROVE Goal
  BY <1>18, GivesBackStep
<1>19. ASSUME NEW ack \in acks, AA23ObserveAcknowledgement(ack) PROVE Goal
  BY <1>19, AcknowledgementStep
<1> HIDE DEF Goal
<1>20. ASSUME NEW now \in Ticks, HostTimedNext(now) PROVE Goal
  <2>1. CASE HostReading(now) \/ AA23ExpireDue(now)
    BY <1>10, <2>1
  <2>2. ASSUME NEW a \in Addresses \cap bounds.addresses, NEW t \in Deadlines,
               \/ \E s \in Subscribers, e \in 1 .. bounds.epoch, x \in 1 .. bounds.source, u \in Deadlines :
                    AA23Register(s, a, e, x, t, u, now)
               \/ AA23RenewRegistration(a, t, now)
               \/ \E x \in 1 .. bounds.source : AA23AdvanceSource(a, x, t, now)
               \/ \E g \in 1 .. bounds.plan, i \in Slots : AA23PreparePlan(a, g, t, i, now)
        PROVE  Goal
    <3>1. a \in Addresses
      OBVIOUS
    <3> QED
      BY <1>11, <2>2, <3>1
  <2>3. ASSUME NEW i \in Slots, AA23PublishPrepared(i, now) \/ PublishStale(i, now) PROVE Goal
    BY <1>12, <2>3
  <2> QED
    BY <1>20, <2>1, <2>2, <2>3 DEF HostTimedNext
<1>21. ASSUME NEW s \in Subscribers,
              \/ AA23DisconnectSubscriber(s)
              \/ \E m \in Initiators \cap bounds.addresses : AA23BindMaster(s, m) \/ AA23ReleaseMaster(s, m)
       PROVE  Goal
  BY <1>13, <1>14, <1>21
<1>22. ASSUME \/ HostClockFault
              \/ AA23OpenSubscriber \/ AA23Reset \/ AA23PendingRevocations
       PROVE  Goal
  BY <1>6, <1>7, <1>8, <1>9, <1>22 DEF Goal
<1> HIDE DEF registry, binding
<1>23. Goal
  BY <1>15, <1>16, <1>17, <1>18, <1>19, <1>20, <1>21, <1>22 DEF HostNext
<1> QED
  BY <1>23 DEF Goal

-----------------------------------------------------------------------------
(* Steps of a view.                                                        *)

\* A step of one view that takes nothing from the others.
LEMMA OneView ==
  ASSUME StorageInv, NEW w \in Workers,
         UNCHANGED <<bounds, records, worker, stream, published, revoked>>,
         \A n \in acks' : n.ref \in RefShape /\ n.id \in IdShape,
         views' = [u \in Workers |-> views'[u]], \A u \in Workers \ {w} : views'[u] = views[u],
         PoolOK(pool'), Moves(pool, pool'), \A i \in Slots : NotNew(pool[i], pool'[i]),
         \A u \in Workers \ {w} : views[u] # None /\ views[u].pin.active =>
            Held(pool[views[u].pin.ref.slot], pool'[views[u].pin.ref.slot]),
         ViewFits(w, views'[w], pool')
  PROVE  StorageInv' /\ Moves(pool, pool')
<1>1. ASSUME NEW u \in Workers PROVE ViewFits(u, views'[u], pool')
  <2>1. CASE u = w
    BY <2>1
  <2>2. CASE u # w
    <3>1. ViewFits(u, views[u], pool) /\ views'[u] = views[u] /\ PoolOK(pool)
      BY <2>2 DEF StorageInv, ViewsFit
    <3> QED
      BY <2>2, <3>1, ViewKept
  <2> QED
    BY <2>1, <2>2
<1>2. ViewsFit(views, pool)'
  BY <1>1 DEF ViewsFit, Workers
<1>3. AddressesFit(records, pool)'
  BY AddressesKept, SameKeys DEF StorageInv
<1>4. NoticesOK'
  BY DEF StorageInv, NoticesOK
<1> QED
  BY <1>2, <1>3, <1>4 DEF StorageInv

\* The same when the pool and the pin stay as they are.
LEMMA ViewOnly ==
  ASSUME StorageInv, NEW w \in Workers, NEW view, views' = [views EXCEPT ![w] = view],
         UNCHANGED <<bounds, records, worker, stream, published, revoked, pool>>,
         \A n \in acks' : n.ref \in RefShape /\ n.id \in IdShape,
         view \in ViewShape, CurrentFits(w, view, pool), PinFits(w, view, pool)
  PROVE  StorageInv' /\ Moves(pool, pool')
<1>1. /\ views' = [u \in Workers |-> views'[u]] /\ \A u \in Workers \ {w} : views'[u] = views[u]
      /\ views'[w] = view
  BY DEF StorageInv, ViewsFit
<1>2. PoolOK(pool) /\ PoolOK(pool') /\ Moves(pool, pool') /\ \A i \in Slots : Held(pool[i], pool'[i]) /\ NotNew(pool[i], pool'[i])
  BY SamePool DEF StorageInv
<1>3. ViewFits(w, views'[w], pool')
  BY <1>1 DEF ViewFits
<1>4. \A u \in Workers \ {w} : views[u] # None /\ views[u].pin.active =>
         Held(pool[views[u].pin.ref.slot], pool'[views[u].pin.ref.slot])
  BY DEF Held
<1> QED
  BY <1>1, <1>2, <1>3, <1>4, OneView

\* What a running worker's view is.
LEMMA ViewIs ==
  ASSUME StorageInv, NEW w \in Workers, Running(w)
  PROVE  /\ views[w] \in ViewShape /\ CurrentFits(w, views[w], pool) /\ PinFits(w, views[w], pool)
         /\ \A ref \in RefShape : Known(w, ref) \in KnownShape
         /\ \A ref \in RefShape, id \in IdShape : \A n \in AckOf(w, ref, id) : n.ref \in RefShape /\ n.id \in IdShape
<1>1. views[w] \in ViewShape /\ CurrentFits(w, views[w], pool) /\ PinFits(w, views[w], pool)
  BY DEF StorageInv, ViewsFit, ViewFits, Running
<1>2. ASSUME NEW ref \in RefShape PROVE Known(w, ref) \in KnownShape
  BY <1>1 DEF ViewShape, RefShape, Known, KnownShape, Unseen
<1>3. ASSUME NEW ref \in RefShape, NEW id \in IdShape, NEW n \in AckOf(w, ref, id)
      PROVE  n.ref \in RefShape /\ n.id \in IdShape
  BY DEF AckOf
<1> QED
  BY <1>1, <1>2, <1>3

LEMMA NewViewStep ==
  ASSUME StorageInv, NEW w \in Workers, AA23NewWorkerView(w), UNCHANGED bounds
  PROVE  StorageInv' /\ Moves(pool, pool')
<1> DEFINE view == [stream |-> stream, clock |-> [closed |-> FALSE, last |-> 0], planTop |-> [a \in Addresses |-> 0],
                    current |-> [a \in Addresses |-> None], records |-> [i \in Slots |-> Unseen], pin |-> NoPin]
<1>1. views' = [views EXCEPT ![w] = view] /\ UNCHANGED <<records, worker, stream, published, revoked, acks, pool>>
  BY DEF AA23NewWorkerView, registry, binding, sent
<1>2. view \in ViewShape
  BY DEF StorageInv, ViewShape, Unseen, KnownShape, NoPin, PinShape
<1>3. CurrentFits(w, view, pool) /\ PinFits(w, view, pool)
  BY DEF CurrentFits, PinFits, NoPin
<1> HIDE DEF view
<1>4. \A n \in acks' : n.ref \in RefShape /\ n.id \in IdShape
  BY <1>1 DEF StorageInv, NoticesOK
<1> QED
  BY <1>1, <1>2, <1>3, <1>4, ViewOnly

LEMMA ViewClockStep ==
  ASSUME StorageInv, NEW w \in Workers, UNCHANGED bounds,
         ViewClockFault(w) \/ \E now \in Ticks : ViewReading(w, now)
  PROVE  StorageInv' /\ Moves(pool, pool')
<1>1. PICK clock \in [closed : BOOLEAN, last : Nat] : views' = [views EXCEPT ![w].clock = clock]
  <2>1. CASE ViewClockFault(w)
    <3>1. views[w].clock \in [closed : BOOLEAN, last : Nat]
      BY <2>1, ViewIs DEF ViewClockFault, ViewShape
    <3>2. views' = [views EXCEPT ![w].clock = [views[w].clock EXCEPT !.closed = TRUE]]
      BY <2>1 DEF ViewClockFault
    <3> QED
      BY <3>1, <3>2
  <2>2. ASSUME NEW now \in Ticks, ViewReading(w, now) PROVE \E clock \in [closed : BOOLEAN, last : Nat] : views' = [views EXCEPT ![w].clock = clock]
    <3>1. views[w].clock \in [closed : BOOLEAN, last : Nat] /\ now \in Nat
      BY <2>2, ViewIs DEF ViewReading, ViewSound, ViewShape, Ticks
    <3>2. views' = [views EXCEPT ![w].clock = [views[w].clock EXCEPT !.last = now]]
      BY <2>2 DEF ViewReading
    <3> QED
      BY <3>1, <3>2
  <2> QED
    BY <2>1, <2>2
<1> DEFINE view == [views[w] EXCEPT !.clock = clock]
<1>2. Running(w) /\ views' = [views EXCEPT ![w] = view] /\ UNCHANGED <<records, worker, stream, published, revoked, acks, pool>>
  BY <1>1 DEF ViewClockFault, ViewReading, ViewSound, registry, binding, sent
<1>3. view \in ViewShape /\ view.current = views[w].current /\ view.pin = views[w].pin
  BY <1>2, ViewIs DEF ViewShape
<1> HIDE DEF view
<1>4. CurrentFits(w, view, pool) /\ PinFits(w, view, pool)
  BY <1>2, <1>3, ViewIs DEF CurrentFits, PinFits
<1>5. \A n \in acks' : n.ref \in RefShape /\ n.id \in IdShape
  BY <1>2 DEF StorageInv, NoticesOK
<1> QED
  BY <1>2, <1>3, <1>4, <1>5, ViewOnly

LEMMA AdoptStep ==
  ASSUME StorageInv, NEW w \in Workers, NEW notice \in published, NEW now \in Ticks,
         AA23AdoptPlan(w, notice, now), UNCHANGED bounds
  PROVE  StorageInv' /\ Moves(pool, pool')
<1> DEFINE a == notice.id.key.addr
           previous == views[w].current[a]
           superseded == previous # None /\ Resolves(previous)
           known == [Known(w, previous) EXCEPT !.superseded = TRUE]
           recs == IF superseded THEN [views[w].records EXCEPT ![previous.slot] = known] ELSE views[w].records
           view == [views[w] EXCEPT !.clock.last = now, !.planTop[a] = notice.id.plan,
                                    !.current[a] = notice.ref, !.records = recs]
<1>1. /\ Running(w) /\ Resolves(notice.ref) /\ pool[notice.ref.slot].state = "Published"
      /\ pool[notice.ref.slot].id = notice.id /\ notice.id.worker = w
      /\ views' = [views EXCEPT ![w] = view]
      /\ acks' = acks \cup (IF superseded THEN AckOf(w, previous, pool[previous.slot].id) ELSE {})
      /\ UNCHANGED <<records, worker, stream, published, revoked, pool>>
  <2>1. /\ Running(w) /\ Resolves(notice.ref) /\ pool[notice.ref.slot].state = "Published"
        /\ pool[notice.ref.slot].id = notice.id /\ notice.id.worker = w
    BY DEF AA23AdoptPlan, ViewSound
  <2>2. views' = [views EXCEPT ![w] = view]
    BY DEF AA23AdoptPlan
  <2>3. /\ acks' = acks \cup (IF superseded THEN AckOf(w, previous, pool[previous.slot].id) ELSE {})
        /\ UNCHANGED <<records, worker, stream, published, revoked, pool>>
    BY DEF AA23AdoptPlan, registry, binding
  <2> HIDE DEF a, previous, superseded, known, recs, view
  <2> QED
    BY <2>1, <2>2, <2>3
<1> HIDE DEF a, previous, superseded, known, recs, view
<1>2. notice.ref \in RefShape /\ notice.id \in IdShape /\ a \in Addresses /\ now \in Nat
  <2>1. notice.ref \in RefShape /\ notice.id \in IdShape /\ now \in Nat
    BY BoundsAreNatural DEF StorageInv, NoticesOK
  <2> QED
    BY <2>1 DEF a, IdShape, KeyShape
<1>3. /\ views[w] \in ViewShape /\ CurrentFits(w, views[w], pool) /\ PinFits(w, views[w], pool)
      /\ \A ref \in RefShape : Known(w, ref) \in KnownShape
      /\ \A ref \in RefShape, id \in IdShape : \A n \in AckOf(w, ref, id) : n.ref \in RefShape /\ n.id \in IdShape
  BY <1>1, ViewIs
<1>4. superseded => previous \in RefShape /\ known \in KnownShape /\ pool[previous.slot].id \in IdShape
  <2> SUFFICES ASSUME superseded PROVE previous \in RefShape /\ known \in KnownShape /\ pool[previous.slot].id \in IdShape
    OBVIOUS
  <2>1. previous \in RefShape
    BY <1>2, <1>3 DEF ViewShape, previous, superseded
  <2>2. known \in KnownShape
    BY <1>3, <2>1 DEF KnownShape, known
  <2>3. pool[previous.slot].state # "Free" /\ previous.slot \in Slots
    BY <1>2, <1>3, <2>1 DEF CurrentFits, In, Resolves, RefShape, previous, superseded
  <2> QED
    BY <2>1, <2>2, <2>3 DEF StorageInv, PoolOK, SlotOK
<1>5. recs \in [Slots -> KnownShape]
  <2>1. views[w].records \in [Slots -> KnownShape]
    BY <1>3 DEF ViewShape
  <2>2. superseded => previous.slot \in Slots
    BY <1>4 DEF RefShape
  <2> QED
    BY <1>4, <2>1, <2>2 DEF recs
<1>6. /\ view \in ViewShape /\ view.current = [views[w].current EXCEPT ![a] = notice.ref]
      /\ view.pin = views[w].pin
  BY <1>2, <1>3, <1>5 DEF ViewShape, IdShape, view
<1>7. \A n \in acks' : n.ref \in RefShape /\ n.id \in IdShape
  BY <1>1, <1>3, <1>4 DEF StorageInv, NoticesOK
<1>8. CurrentFits(w, view, pool)
  <2>1. /\ views[w].current \in [Addresses -> RefShape \cup {None}]
        /\ notice.ref.inc \in Nat /\ pool[notice.ref.slot].inc = notice.ref.inc
    BY <1>1, <1>2, <1>3 DEF ViewShape, Resolves, RefShape
  <2> SUFFICES ASSUME NEW b \in Addresses, view.current[b] # None
               PROVE  LET ref == view.current[b]
                      IN  /\ ref.inc <= pool[ref.slot].inc
                          /\ In(pool, ref) => /\ pool[ref.slot].state \in {"Published", "Retained", "Reclaimable"}
                                              /\ pool[ref.slot].id.worker = w
    BY DEF CurrentFits
  <2>2. CASE b = a
    <3>1. view.current[b] = notice.ref
      BY <1>6, <2>1, <2>2
    <3> QED
      BY <1>1, <2>1, <3>1
  <2>3. CASE b # a
    <3>1. view.current[b] = views[w].current[b]
      BY <1>6, <2>1, <2>3
    <3> QED
      BY <1>3, <3>1 DEF CurrentFits
  <2> QED
    BY <2>2, <2>3
<1>9. PinFits(w, view, pool)
  BY <1>3, <1>6 DEF PinFits
<1> QED
  BY <1>1, <1>6, <1>7, <1>8, <1>9, ViewOnly

LEMMA RevocationStep ==
  ASSUME StorageInv, NEW w \in Workers, NEW notice \in revoked, AA23ObserveRevocation(w, notice), UNCHANGED bounds
  PROVE  StorageInv' /\ Moves(pool, pool')
<1> DEFINE i == notice.ref.slot
           a == notice.id.key.addr
           known == IF notice.reason = "Superseded" THEN [Known(w, notice.ref) EXCEPT !.superseded = TRUE]
                    ELSE [Known(w, notice.ref) EXCEPT !.revoked = TRUE]
           current == IF views[w].current[a] = notice.ref THEN None ELSE views[w].current[a]
           view == [views[w] EXCEPT !.records[i] = known, !.current[a] = current]
<1>1. /\ Running(w) /\ views' = [views EXCEPT ![w] = view]
      /\ acks' = acks \cup AckOf(w, notice.ref, notice.id)
      /\ UNCHANGED <<records, worker, stream, published, revoked, pool>>
  <2>1. Running(w) /\ acks' = acks \cup AckOf(w, notice.ref, notice.id)
    BY DEF AA23ObserveRevocation
  <2>2. views' = [views EXCEPT ![w] = view]
    BY DEF AA23ObserveRevocation
  <2>3. UNCHANGED <<records, worker, stream, published, revoked, pool>>
    BY DEF AA23ObserveRevocation, registry, binding
  <2> HIDE DEF view
  <2> QED
    BY <2>1, <2>2, <2>3
<1> HIDE DEF i, a, known, current, view
<1>2. notice.ref \in RefShape /\ notice.id \in IdShape /\ a \in Addresses /\ i \in Slots
  <2>1. notice.ref \in RefShape /\ notice.id \in IdShape
    BY DEF StorageInv, NoticesOK
  <2> QED
    BY <2>1 DEF i, a, IdShape, KeyShape, RefShape
<1>3. /\ views[w] \in ViewShape /\ CurrentFits(w, views[w], pool) /\ PinFits(w, views[w], pool)
      /\ \A ref \in RefShape : Known(w, ref) \in KnownShape
      /\ \A ref \in RefShape, id \in IdShape : \A n \in AckOf(w, ref, id) : n.ref \in RefShape /\ n.id \in IdShape
  BY <1>1, ViewIs
<1>4. known \in KnownShape
  BY <1>2, <1>3 DEF KnownShape, known
<1>5. current \in {None, views[w].current[a]} /\ current \in RefShape \cup {None}
  BY <1>2, <1>3 DEF ViewShape, current
<1>6. /\ view \in ViewShape /\ view.current = [views[w].current EXCEPT ![a] = current]
      /\ view.pin = views[w].pin
  BY <1>2, <1>3, <1>4, <1>5 DEF ViewShape, view
<1>7. \A n \in acks' : n.ref \in RefShape /\ n.id \in IdShape
  BY <1>1, <1>2, <1>3 DEF StorageInv, NoticesOK
<1>8. CurrentFits(w, view, pool)
  <2>1. views[w].current \in [Addresses -> RefShape \cup {None}]
    BY <1>3 DEF ViewShape
  <2> QED
    BY <1>2, <1>3, <1>5, <1>6, <2>1 DEF CurrentFits
<1>9. PinFits(w, view, pool)
  BY <1>3, <1>6 DEF PinFits
<1> QED
  BY <1>1, <1>6, <1>7, <1>8, <1>9, ViewOnly

LEMMA PinnedStep ==
  ASSUME NEW s, SlotOK(s), NEW b \in BOOLEAN, NEW t, t = [s EXCEPT !.pinned = b]
  PROVE  SlotStep(s, t) /\ NotNew(s, t) /\ t.state = s.state /\ t.inc = s.inc /\ t.id = s.id
BY DEF SlotStep, SlotOK, SlotShape, States, Order, NotNew

\* Two running workers have pinned different slots.
LEMMA PinsApart ==
  ASSUME StorageInv, NEW w \in Workers, NEW u \in Workers \ {w},
         views[u] # None, views[u].pin.active
  PROVE  LET i == views[u].pin.ref.slot
         IN  i \in Slots /\ pool[i].id.worker = u /\ pool[i].state \in Readable /\ pool[i].pinned = TRUE
<1>1. PinFits(u, views[u], pool)
  BY DEF StorageInv, ViewsFit, ViewFits
<1>2. views[u].pin.ref.slot \in Slots
  BY <1>1 DEF PinFits, RefShape
<1>3. pool[views[u].pin.ref.slot].pinned \in BOOLEAN
  BY <1>2 DEF StorageInv, PoolOK, SlotOK, SlotShape
<1> QED
  BY <1>1, <1>2, <1>3 DEF PinFits

\* Dropping a worker's pin leaves the pins of the others.
LEMMA UnpinnedStep ==
  ASSUME StorageInv, NEW w \in Workers, Running(w), pool' = Unpinned(w)
  PROVE  /\ PoolOK(pool') /\ Moves(pool, pool') /\ \A i \in Slots : NotNew(pool[i], pool'[i])
         /\ \A u \in Workers \ {w} : views[u] # None /\ views[u].pin.active =>
              Held(pool[views[u].pin.ref.slot], pool'[views[u].pin.ref.slot])
         /\ CurrentFits(w, views[w], pool')
<1>1. ASSUME NEW i \in Slots
      PROVE  /\ SlotStep(pool[i], pool'[i]) /\ NotNew(pool[i], pool'[i])
             /\ pool[i].id.worker # w => Held(pool[i], pool'[i])
             /\ pool'[i].state = pool[i].state /\ pool'[i].inc = pool[i].inc /\ pool'[i].id = pool[i].id
  <2>1. SlotOK(pool[i])
    BY DEF StorageInv, PoolOK
  <2>2. CASE views[w].pin.active /\ views[w].pin.ref = Ref(i)
    <3>1. pool'[i] = [pool[i] EXCEPT !.pinned = FALSE]
      BY <2>2 DEF Unpinned
    <3>2. pool[i].id.worker = w
      BY <2>2, ViewIs DEF PinFits, Ref
    <3> QED
      BY <2>1, <3>1, <3>2, PinnedStep
  <2>3. CASE ~(views[w].pin.active /\ views[w].pin.ref = Ref(i))
    <3>1. pool'[i] = pool[i]
      BY <2>3 DEF Unpinned
    <3> QED
      BY <2>1, <3>1, SameStep
  <2> QED
    BY <2>2, <2>3
<1>2. pool' = [i \in Slots |-> pool'[i]]
  BY DEF Unpinned
<1>3. PoolOK(pool') /\ Moves(pool, pool')
  BY <1>1, <1>2 DEF PoolOK, Moves, SlotStep
<1>4. ASSUME NEW u \in Workers \ {w}, views[u] # None, views[u].pin.active
      PROVE  Held(pool[views[u].pin.ref.slot], pool'[views[u].pin.ref.slot])
  <2>1. views[u].pin.ref.slot \in Slots /\ pool[views[u].pin.ref.slot].id.worker = u
    BY <1>4, PinsApart
  <2> QED
    BY <1>1, <2>1
<1>5. CurrentFits(w, views[w], pool')
  <2>1. CurrentFits(w, views[w], pool) /\ views[w].current \in [Addresses -> RefShape \cup {None}]
    BY ViewIs DEF ViewShape
  <2> QED
    BY <1>1, <2>1 DEF CurrentFits, In, RefShape
<1> QED
  BY <1>1, <1>3, <1>4, <1>5

LEMMA AdvanceStreamStep ==
  ASSUME StorageInv, NEW w \in Workers, NEW st \in 1 .. bounds.stream, AA23AdvanceStream(w, st), UNCHANGED bounds
  PROVE  StorageInv' /\ Moves(pool, pool')
<1> DEFINE view == [views[w] EXCEPT !.stream = st, !.pin = NoPin, !.current = [a \in Addresses |-> None]]
<1>1. /\ Running(w) /\ pool' = Unpinned(w) /\ views' = [views EXCEPT ![w] = view]
      /\ UNCHANGED <<records, worker, stream, published, revoked, acks>>
  BY DEF AA23AdvanceStream, registry, binding, sent
<1>2. st \in Nat
  BY BoundsAreNatural DEF StorageInv
<1>3. view \in ViewShape /\ view.current = [a \in Addresses |-> None] /\ view.pin = NoPin
  BY <1>1, <1>2, ViewIs DEF ViewShape, NoPin, PinShape
<1> HIDE DEF view
<1>4. ViewFits(w, view, pool')
  BY <1>3 DEF ViewFits, CurrentFits, PinFits, NoPin
<1>5. /\ views' = [u \in Workers |-> views'[u]] /\ \A u \in Workers \ {w} : views'[u] = views[u]
      /\ views'[w] = view
  BY <1>1 DEF StorageInv, ViewsFit
<1>6. \A n \in acks' : n.ref \in RefShape /\ n.id \in IdShape
  BY <1>1 DEF StorageInv, NoticesOK
<1> QED
  BY <1>1, <1>4, <1>5, <1>6, UnpinnedStep, OneView

LEMMA ReleaseStep ==
  ASSUME StorageInv, NEW w \in Workers, AA23Release(w), UNCHANGED bounds
  PROVE  StorageInv' /\ Moves(pool, pool')
<1> DEFINE pin == views[w].pin
           known == Known(w, pin.ref)
           view == [views[w] EXCEPT !.pin = NoPin, !.records[pin.ref.slot] = known]
<1>1. /\ Running(w) /\ pin.active /\ pool' = Unpinned(w) /\ views' = [views EXCEPT ![w] = view]
      /\ UNCHANGED <<records, worker, stream, published, revoked>>
      /\ acks' = acks \cup (IF known.superseded \/ known.revoked THEN {[ref |-> pin.ref, id |-> pin.id]} ELSE {})
  BY DEF AA23Release, registry, binding
<1> HIDE DEF pin, known, view
<1>2. pin.ref \in RefShape /\ pin.ref.slot \in Slots /\ pin.id \in IdShape /\ known \in KnownShape
  BY <1>1, ViewIs DEF PinFits, RefShape, pin, known
<1>3. \A n \in acks' : n.ref \in RefShape /\ n.id \in IdShape
  BY <1>1, <1>2 DEF StorageInv, NoticesOK
<1>4. view \in ViewShape /\ view.current = views[w].current /\ view.pin = NoPin
  BY <1>1, <1>2, ViewIs DEF ViewShape, NoPin, PinShape, view
<1>5. CurrentFits(w, views[w], pool')
  BY <1>1, UnpinnedStep
<1>6. ViewFits(w, view, pool')
  BY <1>4, <1>5 DEF ViewFits, CurrentFits, PinFits, NoPin
<1>7. /\ views' = [u \in Workers |-> views'[u]] /\ \A u \in Workers \ {w} : views'[u] = views[u]
      /\ views'[w] = view
  BY <1>1 DEF StorageInv, ViewsFit
<1> QED
  BY <1>1, <1>3, <1>6, <1>7, UnpinnedStep, OneView

LEMMA SelectStep ==
  ASSUME StorageInv, NEW w \in Workers, NEW a \in Addresses, NEW now \in Ticks,
         AA23SelectProvisional(w, a, now), UNCHANGED bounds
  PROVE  StorageInv' /\ Moves(pool, pool')
<1> DEFINE ref == views[w].current[a]
           i == ref.slot
           pin == [active |-> TRUE, ref |-> ref, id |-> pool[i].id]
           view == [views[w] EXCEPT !.clock.last = now, !.pin = pin]
           slot == [pool[i] EXCEPT !.pinned = TRUE]
<1>1. /\ Running(w) /\ ref # None /\ Resolves(ref) /\ pool[i].state \in Readable
      /\ pool' = [pool EXCEPT ![i] = slot] /\ views' = [views EXCEPT ![w] = view]
      /\ UNCHANGED <<records, worker, stream, published, revoked, acks>>
  BY DEF AA23SelectProvisional, ViewSound, registry, binding, sent
<1> HIDE DEF ref, i, pin, view, slot
<1>2. /\ views[w] \in ViewShape /\ CurrentFits(w, views[w], pool) /\ now \in Nat
      /\ ref \in RefShape /\ i \in Slots /\ SlotOK(pool[i]) /\ pool[i].id \in IdShape /\ pool[i].id.worker = w
  <2>1. views[w] \in ViewShape /\ CurrentFits(w, views[w], pool) /\ now \in Nat
    BY <1>1, ViewIs, BoundsAreNatural DEF StorageInv
  <2>2. ref \in RefShape /\ i \in Slots
    BY <1>1, <2>1 DEF ViewShape, RefShape, ref, i
  <2>3. SlotOK(pool[i]) /\ pool[i].id \in IdShape
    <3>1. SlotOK(pool[i])
      BY <2>2 DEF StorageInv, PoolOK
    <3> QED
      BY <1>1, <3>1 DEF SlotOK, Readable
  <2>4. pool[i].id.worker = w
    BY <1>1, <2>1 DEF CurrentFits, In, Resolves, ref, i
  <2> QED
    BY <2>1, <2>2, <2>3, <2>4
<1>3. /\ pool' = [j \in Slots |-> IF j = i THEN slot ELSE pool[j]]
      /\ SlotStep(pool[i], slot) /\ NotNew(pool[i], slot) /\ slot.pinned
      /\ slot.state = pool[i].state /\ slot.inc = pool[i].inc /\ slot.id = pool[i].id
  <2>1. pool = [j \in Slots |-> pool[j]]
    BY DEF StorageInv, PoolOK
  <2>2. pool' = [j \in Slots |-> IF j = i THEN slot ELSE pool[j]]
    BY <1>1, <1>2, <2>1
  <2>3. /\ SlotStep(pool[i], slot) /\ NotNew(pool[i], slot) /\ slot.pinned
        /\ slot.state = pool[i].state /\ slot.inc = pool[i].inc /\ slot.id = pool[i].id
    <3>1. SlotOK(pool[i]) /\ slot = [pool[i] EXCEPT !.pinned = TRUE]
      BY <1>2 DEF slot
    <3>2. slot.pinned
      BY <3>1 DEF SlotOK, SlotShape
    <3>3. \A b \in BOOLEAN : slot = [pool[i] EXCEPT !.pinned = b] =>
             /\ SlotStep(pool[i], slot) /\ NotNew(pool[i], slot)
             /\ slot.state = pool[i].state /\ slot.inc = pool[i].inc /\ slot.id = pool[i].id
      BY <3>1, PinnedStep
    <3> QED
      BY <3>1, <3>2, <3>3
  <2> QED
    BY <2>2, <2>3
<1>4. view \in ViewShape /\ view.current = views[w].current /\ view.pin = pin
  <2>1. pin \in PinShape
    BY <1>2 DEF PinShape, pin
  <2> QED
    BY <1>2, <2>1 DEF ViewShape, view
<1>5. \A j \in Slots : /\ SlotStep(pool[j], pool'[j]) /\ NotNew(pool[j], pool'[j])
                       /\ j # i => Held(pool[j], pool'[j])
                       /\ pool'[j].state = pool[j].state /\ pool'[j].inc = pool[j].inc /\ pool'[j].id = pool[j].id
  BY <1>3, SameStep DEF StorageInv, PoolOK
<1>6. PoolOK(pool') /\ Moves(pool, pool')
  BY <1>3, <1>5 DEF PoolOK, Moves, SlotStep
<1>7. ASSUME NEW u \in Workers \ {w}, views[u] # None, views[u].pin.active
      PROVE  Held(pool[views[u].pin.ref.slot], pool'[views[u].pin.ref.slot])
  <2>1. views[u].pin.ref.slot \in Slots /\ pool[views[u].pin.ref.slot].id.worker = u
    BY <1>7, PinsApart
  <2> QED
    BY <1>2, <1>5, <2>1
<1>8. CurrentFits(w, view, pool')
  <2>1. views[w].current \in [Addresses -> RefShape \cup {None}]
    BY <1>2 DEF ViewShape
  <2> QED
    BY <1>2, <1>4, <1>5, <2>1 DEF CurrentFits, In, RefShape
<1>9. PinFits(w, view, pool')
  <2>1. view.pin.ref = ref /\ view.pin.id = pool[i].id
    BY <1>4 DEF pin
  <2>2. pool'[i] = slot
    BY <1>2, <1>3
  <2> QED
    BY <1>1, <1>2, <1>3, <2>1, <2>2 DEF PinFits, In, Resolves, Readable, i
<1>10. /\ views' = [u \in Workers |-> views'[u]] /\ \A u \in Workers \ {w} : views'[u] = views[u]
       /\ views'[w] = view
  BY <1>1 DEF StorageInv, ViewsFit
<1>11. \A n \in acks' : n.ref \in RefShape /\ n.id \in IdShape
  BY <1>1 DEF StorageInv, NoticesOK
<1>12. ViewFits(w, views'[w], pool')
  BY <1>4, <1>8, <1>9, <1>10 DEF ViewFits
<1> QED
  BY <1>1, <1>5, <1>6, <1>7, <1>10, <1>11, <1>12, OneView

LEMMA ViewStep ==
  ASSUME StorageInv, NEW w \in Workers, ViewNext(w), UNCHANGED bounds
  PROVE  StorageInv' /\ Moves(pool, pool')
<1> DEFINE Goal == StorageInv' /\ Moves(pool, pool')
<1>1. ASSUME AA23NewWorkerView(w) \/ ViewClockFault(w) \/ AA23Release(w) PROVE Goal
  BY <1>1, NewViewStep, ViewClockStep, ReleaseStep
<1>2. ASSUME NEW st \in 1 .. bounds.stream, AA23AdvanceStream(w, st) PROVE Goal
  BY <1>2, AdvanceStreamStep
<1>3. ASSUME NEW notice \in revoked, AA23ObserveRevocation(w, notice) PROVE Goal
  BY <1>3, RevocationStep
<1>4. ASSUME NEW now \in Ticks, ViewReading(w, now) PROVE Goal
  BY <1>4, ViewClockStep
<1>5. ASSUME NEW now \in Ticks, NEW notice \in published, AA23AdoptPlan(w, notice, now) PROVE Goal
  BY <1>5, AdoptStep
<1>6. ASSUME NEW now \in Ticks, NEW a \in Addresses, AA23SelectProvisional(w, a, now) PROVE Goal
  BY <1>6, SelectStep
<1> HIDE DEF Goal
<1>7. Goal
  BY <1>1, <1>2, <1>3, <1>4, <1>5, <1>6 DEF ViewNext
<1> QED
  BY <1>7 DEF Goal

-----------------------------------------------------------------------------
(* The theorems.                                                           *)

LEMMA InitStorage ==
  ASSUME Init
  PROVE  StorageInv
<1>1. \A i \in Slots : SlotOK(FreeSlot(1)) /\ FreeSlot(1).state \notin Readable
  BY DEF FreeSlot, SlotOK, SlotShape, States, Reasons, Readable
<1>2. PoolOK(pool) /\ AddressesFit(records, pool)
  BY <1>1 DEF Init, PoolOK, AddressesFit
<1>3. RecordsOK(records) /\ ViewsFit(views, pool)
  BY DEF Init, RecordsOK, RecordOK, ViewsFit, ViewFits
<1>4. bounds \in Bounds /\ worker \in Nat /\ stream \in Nat /\ NoticesOK
  BY DEF Init, NoticesOK
<1> QED
  BY <1>2, <1>3, <1>4 DEF StorageInv

LEMMA NextStorage ==
  ASSUME StorageInv, [Next]_vars
  PROVE  StorageInv' /\ Moves(pool, pool')
<1>1. CASE Next
  BY <1>1, HostStep, ViewStep DEF Next
<1>2. CASE UNCHANGED vars
  <2>1. UNCHANGED <<bounds, records, worker, stream, pool, views, published, revoked, acks>>
    BY <1>2 DEF vars, registry, binding, sent
  <2>2. StorageInv'
    BY <2>1 DEF StorageInv, NoticesOK, ViewsFit, Workers
  <2>3. Moves(pool, pool')
    BY <2>1, SamePool DEF StorageInv
  <2> QED
    BY <2>2, <2>3
<1> QED
  BY <1>1, <1>2

LEMMA StorageImplied ==
  ASSUME StorageInv
  PROVE  StorageHeld
<1>1. ASSUME NEW w \in Workers, Running(w), views[w].pin.active
      PROVE  PinFits(w, views[w], pool)
  BY <1>1 DEF StorageInv, ViewsFit, ViewFits, Running
<1>2. PinHoldsSlot
  BY <1>1 DEF PinHoldsSlot, PinFits, In, Resolves
<1>3. \A i \in Slots : pool[i].state \in Readable =>
        records[pool[i].id.key.addr] # None /\ records[pool[i].id.key.addr].key = pool[i].id.key
  BY DEF StorageInv, AddressesFit
<1>4. ASSUME NEW w \in Workers, NEW now \in Ticks, Live(w, now)
      PROVE  /\ records[views[w].pin.id.key.addr] # None
             /\ records[views[w].pin.id.key.addr].key = views[w].pin.id.key
  <2>1. PinFits(w, views[w], pool) /\ views[w].pin.active
    BY <1>1, <1>4 DEF Live, ViewSound
  <2>2. views[w].pin.ref.slot \in Slots
    BY <2>1 DEF PinFits, RefShape
  <2> QED
    BY <1>3, <2>1, <2>2 DEF PinFits
<1> QED
  BY <1>2, <1>3, <1>4 DEF StorageHeld, AddressHeld

\* Whatever notices and acknowledgements arrive late, twice, out of order or
\* never, and whichever workers end, a slot that a transaction has pinned keeps
\* its plan, and an address stays with the registration whose plans can be read:
\* AA23ObserveAcknowledgement, AA23Reclaim and the settlement of addresses.
THEOREM StorageIsHeld == Spec => []StorageHeld
<1>1. Init => StorageInv
  BY InitStorage
<1>2. StorageInv /\ [Next]_vars => StorageInv'
  BY NextStorage
<1>3. StorageInv => StorageHeld
  BY StorageImplied
<1> QED
  BY <1>1, <1>2, <1>3, PTL DEF Spec

\* Within an incarnation a slot only moves on and keeps its plan and deadlines,
\* so a renewal of a registration never extends a plan that is published:
\* the ownership states of AA23PlanPool.
THEOREM PublishedStays == Spec => PublishedIsImmutable
<1>1. Init => StorageInv
  BY InitStorage
<1>2. StorageInv /\ [Next]_vars => StorageInv'
  BY NextStorage
<1>3. StorageInv /\ [Next]_vars =>
        [\A i \in Slots : pool'[i].inc = pool[i].inc =>
           /\ Order(pool'[i].state) >= Order(pool[i].state)
           /\ pool[i].state # "Free" => pool'[i].id = pool[i].id /\ pool'[i].expiry = pool[i].expiry
                                        /\ pool'[i].lease = pool[i].lease]_vars
  BY NextStorage DEF Moves, SlotStep
<1> QED
  BY <1>1, <1>2, <1>3, PTL DEF Spec, PublishedIsImmutable

-----------------------------------------------------------------------------
(* The books: the shapes of the state within the bounds.                   *)

SlotWithin == [state : States, inc : 1 .. bounds.incarnation, id : Identities \cup {None},
               expiry : 0 .. bounds.tick + 1, lease : 0 .. bounds.tick + 1, reason : Reasons, pinned : BOOLEAN]
RecordWithin == [state : {"Active", "Retiring"}, key : Keys, lease : Deadlines, source : 1 .. bounds.source,
                 sourceLease : Deadlines, published : Slots \cup {None}, publishTop : 0 .. bounds.plan]
RowWithin == [open : BOOLEAN, epochHigh : 0 .. bounds.epoch, registrations : Nat]
KnownWithin == [inc : 0 .. bounds.incarnation, superseded : BOOLEAN, revoked : BOOLEAN]
PinWithin == [active : BOOLEAN, ref : Refs \cup {None}, id : Identities \cup {None}]
ViewWithin == [stream : 1 .. bounds.stream, clock : Guards, planTop : [Addresses -> 0 .. bounds.plan],
               current : [Addresses -> Refs \cup {None}], records : [Slots -> KnownWithin], pin : PinWithin]

\* What is not free has an identity, what is active is pinned.
SlotFits(s) == s \in SlotWithin /\ (s.state # "Free" => s.id \in Identities)
PoolFits(slots) == \A i \in Slots : SlotFits(slots[i])
RecordsFit(recs) ==
  \A a \in Addresses : recs[a] # None => recs[a] \in RecordWithin /\ recs[a].key.addr = a
ViewTyped(view) ==
  view # None => view \in ViewWithin /\ (view.pin.active => view.pin.ref \in Refs /\ view.pin.id \in Identities)
ViewsTyped(vs) == \A w \in Workers : ViewTyped(vs[w])
NoticesFit(p, r, k) ==
  p \subseteq [ref : Refs, id : Identities] /\ r \subseteq [ref : Refs, id : Identities, reason : Reasons]
  /\ k \subseteq [ref : Refs, id : Identities]

\* Identities of subscribers are given out in order.
RowsFit(rows, top) ==
  /\ rows = [s \in Subscribers |-> rows[s]] /\ top \in 0 .. bounds.subscriber
  /\ \A s \in Subscribers : rows[s] # None => rows[s] \in RowWithin /\ s <= top

-----------------------------------------------------------------------------
(* The books: what they say of each other.                                 *)

Owes(recs, slots, a) ==
  recs[a] # None /\ recs[a].state = "Retiring" =>
    \E i \in Slots : slots[i].state = "Retained" /\ slots[i].id.key = recs[a].key
Owed(recs, slots) == \A a \in Addresses : Owes(recs, slots, a)

\* The published plan and the registration that calls it current name each other.
PublishedFits(recs, slots) ==
  /\ \A i \in Slots : slots[i].state = "Published" =>
       LET r == recs[slots[i].id.key.addr]
       IN  /\ r # None /\ r.key = slots[i].id.key
           /\ r.published = i /\ r.publishTop = slots[i].id.plan /\ r.state = "Active"
           /\ r.source = slots[i].id.source
  /\ \A a \in Addresses : recs[a] # None /\ recs[a].published # None =>
       LET p == recs[a].published
       IN  slots[p].state = "Published" /\ slots[p].id.key = recs[a].key

\* What is published is of the bound worker and stream, unopposed, on a sound clock.
Stands(slots, bd, wk, st, opposed, clock) ==
  \A i \in Slots : slots[i].state = "Published" =>
    /\ bd /\ slots[i].id.worker = wk /\ slots[i].id.stream = st
    /\ slots[i].id.key.addr \notin opposed /\ ~clock.closed

\* Generations are given out in order, of the worker bound last.
Generations(slots, top, plan) ==
  /\ \A i, j \in Slots : i # j /\ slots[i].id # None /\ slots[j].id # None =>
       slots[i].id.worker # slots[j].id.worker \/ slots[i].id.plan # slots[j].id.plan
  /\ \A i \in Slots : slots[i].id # None =>
       slots[i].id.worker <= top /\ (slots[i].id.worker = top => slots[i].id.plan <= plan)

Registered(recs) == {a \in Addresses : recs[a] # None}
RegisteredBy(recs, s) == {a \in Addresses : recs[a] # None /\ recs[a].key.sub = s}
Counted(recs, rows) ==
  /\ Cardinality(Registered(recs)) <= MaxRegistrations
  /\ \A s \in Subscribers :
       IF rows[s] = None THEN Cardinality(RegisteredBy(recs, s)) = 0
       ELSE /\ rows[s].registrations = Cardinality(RegisteredBy(recs, s))
            /\ rows[s].open \/ Cardinality(RegisteredBy(recs, s)) > 0

OpenIn(rows, s) == rows[s] # None /\ rows[s].open
Bound(ms) == {m \in Initiators : ms[m] # None}
MastersFit(ms, count, rows) ==
  /\ ms \in [Initiators -> Subscribers \cup {None}]
  /\ count = Cardinality(Bound(ms)) /\ count <= MaxMasters
  /\ \A m \in Initiators : ms[m] # None => OpenIn(rows, ms[m])

BindingFits(bd, wk, st, top, plan) ==
  /\ bd \in BOOLEAN /\ wk = top /\ wk \in 0 .. bounds.worker /\ st \in 0 .. bounds.stream /\ plan \in 0 .. bounds.plan
  /\ bd => wk \in Workers /\ st \in 1 .. bounds.stream

BooksInv ==
  /\ StorageInv
  /\ hostClock \in Guards /\ conflicts \subseteq Addresses \cup Initiators
  /\ PoolFits(pool) /\ RecordsFit(records) /\ RowsFit(subscribers, subscriberTop)
  /\ ViewsTyped(views) /\ NoticesFit(published, revoked, acks)
  /\ BindingFits(bound, worker, stream, workerTop, planTop)
  /\ Owed(records, pool) /\ PublishedFits(records, pool)
  /\ Stands(pool, bound, worker, stream, conflicts, hostClock)
  /\ Generations(pool, workerTop, planTop)
  /\ Counted(records, subscribers) /\ MastersFit(masters, masterCount, subscribers)

-----------------------------------------------------------------------------
(* The books: what the operators keep.                                     *)

LEMMA BoundsAre ==
  ASSUME bounds \in Bounds
  PROVE  /\ bounds.tick \in Nat /\ bounds.subscriber \in Nat \ {0} /\ bounds.epoch \in Nat \ {0}
         /\ bounds.source \in Nat \ {0} /\ bounds.worker \in Nat \ {0} /\ bounds.stream \in Nat \ {0}
         /\ bounds.plan \in Nat \ {0} /\ bounds.incarnation \in Nat \ {0}
         /\ bounds.addresses \subseteq Addresses \cup Initiators
BY BoundsAssumption

LEMMA WithinShapes ==
  ASSUME bounds \in Bounds
  PROVE  /\ Keys \subseteq KeyShape /\ Identities \subseteq IdShape /\ RecordWithin \subseteq RecordShape
         /\ RowWithin \subseteq RowShape
         /\ None \notin Identities /\ None \notin RecordWithin /\ None \notin RowWithin
<1>1. Keys \subseteq KeyShape
  BY BoundsAre DEF Keys, KeyShape, Subscribers
<1>2. Identities \subseteq IdShape
  BY <1>1, BoundsAre DEF Identities, IdShape, Workers
<1>3. RecordWithin \subseteq RecordShape
  BY <1>1, BoundsAre DEF RecordWithin, RecordShape, Deadlines
<1>4. RowWithin \subseteq RowShape
  BY BoundsAre DEF RowWithin, RowShape
<1> QED
  BY <1>1, <1>2, <1>3, <1>4, NoneAssumption, SlotsAssumption

LEMMA ReleasedFits ==
  ASSUME bounds \in Bounds, NEW s, SlotFits(s)
  PROVE  /\ SlotFits(Released(s)) /\ Released(s).id \in {s.id, None}
         /\ Released(s).state \in {s.state, "Free"}
<1>1. CASE Exhausted(s)
  BY <1>1 DEF Released
<1>2. CASE ~Exhausted(s)
  <2>1. Released(s) = [FreeSlot(s.inc + 1) EXCEPT !.pinned = s.pinned]
    BY <1>2 DEF Released
  <2>2. s.inc + 1 \in 1 .. bounds.incarnation /\ s.pinned \in BOOLEAN
    BY <1>2, BoundsAre DEF Exhausted, SlotFits, SlotWithin
  <2>3. 0 \in 0 .. bounds.tick + 1
    BY BoundsAre
  <2>4. /\ Released(s) \in SlotWithin /\ Released(s).state = "Free" /\ Released(s).id = None
    BY <2>1, <2>2, <2>3 DEF FreeSlot, SlotWithin, States, Reasons
  <2> QED
    BY <2>4 DEF SlotFits
<1> QED
  BY <1>1, <1>2

LEMMA StrandedFits ==
  ASSUME bounds \in Bounds, NEW s, SlotFits(s), s.state = "Writing"
  PROVE  /\ SlotFits(ReleasedOrStranded(s)) /\ ReleasedOrStranded(s).id \in {s.id, None}
         /\ ReleasedOrStranded(s).state \in {"Free", "Reclaimable"}
<1>1. CASE Exhausted(s)
  BY <1>1 DEF ReleasedOrStranded, SlotFits, SlotWithin, States
<1>2. CASE ~Exhausted(s)
  <2>1. ReleasedOrStranded(s) = Released(s) /\ Released(s).state = "Free"
    BY <1>2 DEF ReleasedOrStranded, Released, FreeSlot
  <2> QED
    BY <2>1, ReleasedFits
<1> QED
  BY <1>1, <1>2

\* What is retired can be read if it could be before, and is not published.
LEMMA RetiredFits ==
  ASSUME bounds \in Bounds, NEW s, SlotFits(s), NEW reason \in Reasons
  PROVE  LET t == RetiredSlot(s, reason)
         IN  /\ SlotFits(t) /\ t.id \in {s.id, None} /\ t.state # "Published"
             /\ s.state \in Readable => t.state = "Retained" /\ t.id = s.id
             /\ s.state \notin Readable => t.state \notin Readable
<1>1. CASE s.state = "Writing"
  BY <1>1, StrandedFits DEF RetiredSlot, Readable
<1>2. CASE s.state \in Readable
  <2>1. RetiredSlot(s, reason) \in {[s EXCEPT !.state = "Retained", !.reason = reason],
                                    [s EXCEPT !.reason = reason], [s EXCEPT !.reason = s.reason]}
    BY <1>2 DEF RetiredSlot, Readable
  <2>2. /\ RetiredSlot(s, reason) \in SlotWithin
        /\ RetiredSlot(s, reason).id = s.id
    BY <2>1 DEF SlotFits, SlotWithin, States
  <2>3. RetiredSlot(s, reason).state = "Retained"
    BY <1>2 DEF RetiredSlot, Readable, SlotFits, SlotWithin
  <2> QED
    BY <1>2, <2>2, <2>3 DEF SlotFits, Readable
<1>3. CASE s.state \in {"Free", "Reclaimable"}
  BY <1>3 DEF RetiredSlot, Readable
<1> QED
  BY <1>1, <1>2, <1>3 DEF SlotFits, SlotWithin, States, Readable

\* What becomes of the pool where the slots of chosen are retired.
RetiredOf(chosen, slots) ==
  /\ PoolFits(slots)
  /\ \A i \in Slots :
       /\ slots[i].id \in {pool[i].id, None}
       /\ slots[i].state = "Published" => pool[i].state = "Published" /\ i \notin chosen /\ slots[i].id = pool[i].id
       /\ i \notin chosen /\ pool[i].state = "Published" => slots[i].state = "Published" /\ slots[i].id = pool[i].id

LEMMA RetiredPoolFits ==
  ASSUME bounds \in Bounds, PoolFits(pool), NEW chosen, NEW reason \in Reasons
  PROVE  /\ RetiredOf(chosen, RetiredPool(chosen, reason))
         /\ \A i \in Slots : pool[i].state = "Retained" =>
              RetiredPool(chosen, reason)[i].state = "Retained" /\ RetiredPool(chosen, reason)[i].id = pool[i].id
<1> DEFINE slots == RetiredPool(chosen, reason)
<1>1. ASSUME NEW i \in Slots
      PROVE  /\ SlotFits(slots[i]) /\ slots[i].id \in {pool[i].id, None}
             /\ slots[i].state = "Published" => pool[i].state = "Published" /\ i \notin chosen /\ slots[i].id = pool[i].id
             /\ i \notin chosen /\ pool[i].state = "Published" => slots[i].state = "Published" /\ slots[i].id = pool[i].id
             /\ pool[i].state = "Retained" => slots[i].state = "Retained" /\ slots[i].id = pool[i].id
  <2>1. SlotFits(pool[i])
    BY DEF PoolFits
  <2>2. CASE i \in chosen
    <3>1. slots[i] = RetiredSlot(pool[i], reason)
      BY <2>2 DEF RetiredPool
    <3> HIDE DEF slots
    <3> QED
      BY <2>1, <2>2, <3>1, RetiredFits DEF Readable
  <2>3. CASE i \notin chosen
    <3>1. slots[i] = pool[i]
      BY <2>3 DEF RetiredPool
    <3> HIDE DEF slots
    <3> QED
      BY <2>1, <2>3, <3>1
  <2> QED
    BY <2>2, <2>3
<1> HIDE DEF slots
<1>2. RetiredOf(chosen, slots)
  BY <1>1 DEF RetiredOf, PoolFits
<1> QED
  BY <1>1, <1>2 DEF slots

\* A record either keeps what it calls published or calls nothing so.
LEMMA UnpublishedIs ==
  ASSUME bounds \in Bounds, NEW recs, RecordsFit(recs), NEW chosen, NEW a \in Addresses
  PROVE  LET r == Unpublished(recs, chosen)[a]
         IN  /\ recs[a] = None <=> r = None
             /\ r # None => /\ r \in RecordWithin /\ r.key = recs[a].key /\ r.state = recs[a].state
                            /\ r.published = recs[a].published => r = recs[a]
                            /\ r.published \in {recs[a].published, None}
             /\ r = recs[a] \/ \E i \in chosen : pool[i].state = "Published" /\ pool[i].id.key = recs[a].key
             /\ recs[a] # None /\ (\E i \in chosen : pool[i].state = "Published" /\ pool[i].id.key = recs[a].key)
                  => r.published = None
<1> DEFINE r == Unpublished(recs, chosen)[a]
           met == recs[a] # None /\ \E i \in chosen : pool[i].state = "Published" /\ pool[i].id.key = recs[a].key
<1>1. r = IF met THEN [recs[a] EXCEPT !.published = None] ELSE recs[a]
  BY DEF Unpublished
<1> HIDE DEF r
<1>2. CASE met
  <2>1. recs[a] \in RecordWithin
    BY <1>2 DEF RecordsFit
  <2>2. /\ r \in RecordWithin /\ r.key = recs[a].key /\ r.state = recs[a].state /\ r.published = None
        /\ recs[a].published = None => r = recs[a]
    BY <1>1, <1>2, <2>1 DEF RecordWithin
  <2>3. r # None
    BY <2>2, WithinShapes
  <2> QED
    BY <1>2, <2>2, <2>3 DEF r
<1>3. CASE ~met
  <2>1. r = recs[a]
    BY <1>1, <1>3
  <2> QED
    BY <1>3, <2>1 DEF RecordsFit, r
<1> QED
  BY <1>2, <1>3

LEMMA PublishedKept ==
  ASSUME BooksInv, NEW chosen \in SUBSET Slots, NEW slots, RetiredOf(chosen, slots)
  PROVE  PublishedFits(Unpublished(records, chosen), slots)
<1> DEFINE recs == Unpublished(records, chosen)
<1>1. bounds \in Bounds /\ PoolFits(pool) /\ RecordsFit(records) /\ PublishedFits(records, pool)
  BY DEF BooksInv, StorageInv
<1>2. ASSUME NEW i \in Slots, slots[i].state = "Published", NEW a, a = slots[i].id.key.addr
      PROVE  /\ recs[a] # None /\ recs[a].key = slots[i].id.key
             /\ recs[a].published = i /\ recs[a].publishTop = slots[i].id.plan /\ recs[a].state = "Active"
             /\ recs[a].source = slots[i].id.source
  <2>1. pool[i].state = "Published" /\ i \notin chosen /\ slots[i].id = pool[i].id
    BY <1>2 DEF RetiredOf
  <2>2. /\ records[a] # None /\ records[a].key = pool[i].id.key
        /\ records[a].published = i /\ records[a].publishTop = pool[i].id.plan /\ records[a].state = "Active"
        /\ records[a].source = pool[i].id.source
    BY <1>1, <1>2, <2>1 DEF PublishedFits
  <2>3. a \in Addresses
    <3>1. pool[i].id \in Identities
      BY SMTT(30), <1>1, <2>1 DEF PoolFits, SlotFits
    <3> QED
      BY <1>2, <2>1, <3>1 DEF Identities, Keys
  <2>4. ASSUME NEW j \in chosen, pool[j].state = "Published", pool[j].id.key = records[a].key PROVE FALSE
    <3>1. j \in Slots
      OBVIOUS
    <3> QED
      BY <1>1, <1>2, <2>1, <2>2, <2>4, <3>1 DEF PublishedFits
  <2>5. recs[a] = records[a]
    BY <1>1, <2>3, <2>4, UnpublishedIs
  <2> QED
    BY <2>1, <2>2, <2>5
<1>3. ASSUME NEW a \in Addresses, recs[a] # None, recs[a].published # None
      PROVE  slots[recs[a].published].state = "Published" /\ slots[recs[a].published].id.key = recs[a].key
  <2>1. records[a] # None /\ recs[a] = records[a]
    BY <1>1, <1>3, UnpublishedIs
  <2>2. records[a].published \in Slots
    BY <1>1, <1>3, <2>1 DEF RecordsFit, RecordWithin
  <2>3. pool[records[a].published].state = "Published" /\ pool[records[a].published].id.key = records[a].key
    BY <1>1, <1>3, <2>1 DEF PublishedFits
  <2>4. records[a].published \notin chosen
    BY <1>1, <1>3, <2>1, <2>3, UnpublishedIs
  <2> QED
    BY <2>1, <2>2, <2>3, <2>4 DEF RetiredOf
<1> QED
  BY <1>2, <1>3 DEF PublishedFits

\* The same addresses are held for the same keys.
SameHolders(recs, next) ==
  \A a \in Addresses : (next[a] = None <=> recs[a] = None) /\ (recs[a] # None => next[a].key = recs[a].key)

LEMMA CountedSame ==
  ASSUME NEW recs, NEW next, NEW rows, SameHolders(recs, next), Counted(recs, rows)
  PROVE  Counted(next, rows)
<1>1. Registered(next) = Registered(recs)
  BY DEF Registered, SameHolders
<1>2. \A s \in Subscribers : RegisteredBy(next, s) = RegisteredBy(recs, s)
  BY DEF RegisteredBy, SameHolders
<1> QED
  BY <1>1, <1>2 DEF Counted

LEMMA FiniteHolders ==
  ASSUME NEW recs, NEW s
  PROVE  /\ IsFiniteSet(Registered(recs)) /\ IsFiniteSet(RegisteredBy(recs, s))
         /\ Cardinality(Registered(recs)) \in Nat /\ Cardinality(RegisteredBy(recs, s)) \in Nat
         /\ Cardinality(RegisteredBy(recs, s)) <= Cardinality(Registered(recs))
<1>1. RegisteredBy(recs, s) \in SUBSET Registered(recs) /\ Registered(recs) \in SUBSET Addresses
  BY DEF Registered, RegisteredBy
<1>2. IsFiniteSet(Registered(recs))
  BY <1>1, AddressAssumption, FS_Subset
<1> QED
  BY <1>1, <1>2, FS_Subset, FS_CardinalityType

\* A row that loses n of its registrations.
LEMMA RowDecremented ==
  ASSUME bounds \in Bounds, NEW row \in RowWithin, NEW n \in Nat, n <= row.registrations
  PROVE  LET r == Remembered([row EXCEPT !.registrations = row.registrations - n])
         IN  /\ r = None <=> ~row.open /\ row.registrations = n
             /\ r # None => r \in RowWithin /\ r.registrations = row.registrations - n /\ r.open = row.open
<1> DEFINE x == [row EXCEPT !.registrations = row.registrations - n]
<1>1. /\ x \in RowWithin /\ x.registrations = row.registrations - n /\ x.open = row.open
      /\ row.registrations \in Nat
  BY DEF RowWithin
<1>2. x # None
  BY <1>1, WithinShapes
<1> HIDE DEF x
<1>3. x.registrations = 0 <=> row.registrations = n
  BY <1>1
<1>4. Remembered(x) = IF ~row.open /\ row.registrations = n THEN None ELSE x
  BY <1>1, <1>3 DEF Remembered
<1> QED
  BY <1>1, <1>2, <1>4 DEF x

\* The rows after the registrations of gone have been taken off them.
LEMMA DecrementedRows ==
  ASSUME bounds \in Bounds, NEW recs, NEW rows, NEW top, NEW gone \in SUBSET Registered(recs),
         RowsFit(rows, top), Counted(recs, rows)
  PROVE  /\ RowsFit(Decremented(rows, recs, gone), top)
         /\ Counted(Without(recs, gone), Decremented(rows, recs, gone))
         /\ \A s \in Subscribers : OpenIn(rows, s) => OpenIn(Decremented(rows, recs, gone), s)
<1> DEFINE next == Without(recs, gone)
           down == Decremented(rows, recs, gone)
           lost(s) == {a \in gone : recs[a].key.sub = s}
<1>1. /\ \A s \in Subscribers : down[s] = IF rows[s] = None \/ Cardinality(lost(s)) = 0 THEN rows[s]
                                          ELSE Remembered([rows[s] EXCEPT !.registrations = @ - Cardinality(lost(s))])
      /\ down = [s \in Subscribers |-> down[s]]
  BY DEF Decremented
<1>2. Registered(next) = Registered(recs) \ gone
  BY DEF Registered, Without
<1>3. Cardinality(Registered(next)) <= MaxRegistrations
  <2>1. Registered(next) \in SUBSET Registered(recs)
    BY <1>2
  <2>2. Cardinality(Registered(next)) <= Cardinality(Registered(recs))
    BY <2>1, FiniteHolders, FS_Subset
  <2>3. Cardinality(Registered(next)) \in Nat /\ Cardinality(Registered(recs)) \in Nat /\ MaxRegistrations \in Nat
    BY FiniteHolders, LimitsAssumption
  <2> QED
    BY <2>2, <2>3 DEF Counted
<1>4. ASSUME NEW s \in Subscribers
      PROVE  /\ down[s] # None => down[s] \in RowWithin /\ s <= top
             /\ IF down[s] = None THEN Cardinality(RegisteredBy(next, s)) = 0
                ELSE /\ down[s].registrations = Cardinality(RegisteredBy(next, s))
                     /\ down[s].open \/ Cardinality(RegisteredBy(next, s)) > 0
             /\ OpenIn(rows, s) => OpenIn(down, s)
  <2> DEFINE had == Cardinality(RegisteredBy(recs, s))
             n == Cardinality(lost(s))
             has == Cardinality(RegisteredBy(next, s))
  <2>1. lost(s) \in SUBSET RegisteredBy(recs, s) /\ RegisteredBy(next, s) = RegisteredBy(recs, s) \ lost(s)
    BY DEF RegisteredBy, Registered, Without
  <2>2. n \in Nat /\ had \in Nat /\ n <= had /\ has = had - n
    <3>1. IsFiniteSet(RegisteredBy(recs, s)) /\ had \in Nat
      BY FiniteHolders
    <3>2. IsFiniteSet(lost(s)) /\ n <= had
      BY <2>1, <3>1, FS_Subset
    <3>3. n \in Nat
      BY <3>2, FS_CardinalityType
    <3>4. RegisteredBy(recs, s) \cap lost(s) = lost(s)
      BY <2>1
    <3>5. Cardinality(RegisteredBy(recs, s) \ lost(s)) = had - Cardinality(RegisteredBy(recs, s) \cap lost(s))
      BY <3>1, FS_Difference
    <3> QED
      BY <2>1, <3>1, <3>2, <3>3, <3>4, <3>5
  <2>3. IF rows[s] = None THEN had = 0 ELSE rows[s].registrations = had /\ (rows[s].open \/ had > 0)
    BY DEF Counted
  <2>4. rows[s] # None => rows[s] \in RowWithin /\ s <= top
    BY DEF RowsFit
  <2>5. down[s] = IF rows[s] = None \/ n = 0 THEN rows[s]
                  ELSE Remembered([rows[s] EXCEPT !.registrations = rows[s].registrations - n])
    BY <1>1
  <2> HIDE DEF had, n, has, down, next, lost
  <2>6. CASE rows[s] = None \/ n = 0
    <3>1. down[s] = rows[s] /\ has = had
      BY <2>2, <2>3, <2>5, <2>6
    <3> QED
      BY <2>3, <2>4, <3>1 DEF OpenIn, has
  <2>7. CASE rows[s] # None /\ n # 0
    <3>1. down[s] = Remembered([rows[s] EXCEPT !.registrations = rows[s].registrations - n])
      BY <2>5, <2>7
    <3>2. rows[s] \in RowWithin /\ rows[s].registrations = had /\ s <= top
      BY <2>3, <2>4, <2>7
    <3>3. /\ down[s] = None <=> ~rows[s].open /\ had = n
          /\ down[s] # None => down[s] \in RowWithin /\ down[s].registrations = had - n /\ down[s].open = rows[s].open
      BY <2>2, <3>1, <3>2, RowDecremented
    <3>4. has \in Nat /\ (has > 0 <=> had # n) /\ (has = 0 <=> had = n)
      BY <2>2
    <3> QED
      BY <2>2, <3>2, <3>3, <3>4 DEF OpenIn, has
  <2> QED
    BY <2>6, <2>7
<1> HIDE DEF down, next
<1>5. RowsFit(down, top)
  BY <1>1, <1>4 DEF RowsFit
<1>6. Counted(next, down)
  BY <1>3, <1>4 DEF Counted
<1> QED
  BY <1>4, <1>5, <1>6 DEF down, next

\* Settlement keeps the books, when all that is retiring but at candidates is owed.
LEMMA SettledBooks ==
  ASSUME bounds \in Bounds, NEW recs, NEW rows, NEW top, NEW slots, NEW candidates \in SUBSET Addresses,
         PoolFits(slots), RecordsFit(recs), RowsFit(rows, top), Counted(recs, rows), PublishedFits(recs, slots),
         \A a \in Addresses \ candidates : Owes(recs, slots, a)
  PROVE  LET gone == Settling(recs, slots, candidates)
         IN  /\ RecordsFit(Without(recs, gone)) /\ RowsFit(Decremented(rows, recs, gone), top)
             /\ Counted(Without(recs, gone), Decremented(rows, recs, gone))
             /\ PublishedFits(Without(recs, gone), slots) /\ Owed(Without(recs, gone), slots)
             /\ \A s \in Subscribers : OpenIn(rows, s) => OpenIn(Decremented(rows, recs, gone), s)
<1> DEFINE gone == Settling(recs, slots, candidates)
           next == Without(recs, gone)
<1>1. \A a \in Addresses : next[a] = IF a \in gone THEN None ELSE recs[a]
  BY DEF Without
<1>2. \A a \in gone : a \in Addresses /\ recs[a] # None /\ recs[a].state = "Retiring"
  BY DEF Settling
<1>3. RecordsFit(next)
  BY <1>1 DEF RecordsFit
<1>4. gone \in SUBSET Registered(recs)
  BY <1>2 DEF Registered
<1>5. ASSUME NEW i \in Slots, slots[i].state = "Published", NEW a, a = slots[i].id.key.addr
      PROVE  a \in Addresses => next[a] = recs[a]
  BY <1>1, <1>2, <1>5 DEF PublishedFits
<1>6. ASSUME NEW a \in Addresses PROVE Owes(next, slots, a)
  <2> SUFFICES ASSUME next[a] # None, next[a].state = "Retiring"
               PROVE  \E i \in Slots : slots[i].state = "Retained" /\ slots[i].id.key = next[a].key
    BY DEF Owes
  <2>1. a \notin gone /\ next[a] = recs[a]
    BY <1>1
  <2>2. CASE a \notin candidates
    BY <2>1, <2>2 DEF Owes
  <2>3. CASE a \in candidates
    <3>1. PICK i \in Slots : slots[i].state \in Readable /\ slots[i].id.key = recs[a].key
      BY <2>1, <2>3 DEF Settling
    <3>2. slots[i].state # "Published"
      <4>1. recs[a].key.addr = a
        BY <2>1 DEF RecordsFit
      <4> QED
        BY <2>1, <3>1, <4>1 DEF PublishedFits
    <3> QED
      BY <2>1, <3>1, <3>2 DEF Readable
  <2> QED
    BY <2>2, <2>3
<1> HIDE DEF next, gone
<1>7. PublishedFits(next, slots)
  <2>1. ASSUME NEW i \in Slots, slots[i].state = "Published", NEW a, a = slots[i].id.key.addr
        PROVE  /\ next[a] # None /\ next[a].key = slots[i].id.key
               /\ next[a].published = i /\ next[a].publishTop = slots[i].id.plan /\ next[a].state = "Active"
               /\ next[a].source = slots[i].id.source
    <3>1. /\ recs[a] # None /\ recs[a].key = slots[i].id.key
          /\ recs[a].published = i /\ recs[a].publishTop = slots[i].id.plan /\ recs[a].state = "Active"
          /\ recs[a].source = slots[i].id.source
      BY <2>1 DEF PublishedFits
    <3>2. slots[i].id \in Identities
      BY <2>1 DEF PoolFits, SlotFits
    <3>3. a \in Addresses
      BY <2>1, <3>2 DEF Identities, Keys
    <3> QED
      BY <1>5, <2>1, <3>1, <3>3
  <2>2. ASSUME NEW a \in Addresses, next[a] # None, next[a].published # None
        PROVE  slots[next[a].published].state = "Published" /\ slots[next[a].published].id.key = next[a].key
    BY <1>1, <2>2 DEF PublishedFits
  <2> QED
    BY <2>1, <2>2 DEF PublishedFits
<1> QED
  BY <1>3, <1>4, <1>6, <1>7, DecrementedRows DEF Owed, next, gone

-----------------------------------------------------------------------------
(* The books: the registry's steps.                                        *)

\* The books after a step.
GoodBooks ==
  /\ hostClock' \in Guards /\ conflicts' \subseteq Addresses \cup Initiators
  /\ PoolFits(pool') /\ RecordsFit(records') /\ RowsFit(subscribers', subscriberTop')
  /\ ViewsTyped(views') /\ NoticesFit(published', revoked', acks')
  /\ BindingFits(bound', worker', stream', workerTop', planTop')
  /\ Owed(records', pool') /\ PublishedFits(records', pool')
  /\ Stands(pool', bound', worker', stream', conflicts', hostClock')
  /\ Generations(pool', workerTop', planTop')
  /\ Counted(records', subscribers') /\ MastersFit(masters', masterCount', subscribers')

LEMMA BooksKept ==
  ASSUME StorageInv', UNCHANGED bounds, GoodBooks
  PROVE  BooksInv'
<1>1. /\ Ticks' = Ticks /\ Deadlines' = Deadlines /\ Subscribers' = Subscribers /\ Workers' = Workers
  BY DEF Ticks, Deadlines, Subscribers, Workers
<1>2. Keys' = Keys /\ Refs' = Refs /\ Guards' = Guards
  BY <1>1 DEF Keys, Refs, Guards
<1>3. Identities' = Identities
  BY <1>1, <1>2 DEF Identities
<1>4. SlotWithin' = SlotWithin /\ RecordWithin' = RecordWithin /\ RowWithin' = RowWithin
  BY <1>1, <1>2, <1>3 DEF SlotWithin, RecordWithin, RowWithin
<1>5. ViewWithin' = ViewWithin
  BY <1>1, <1>2, <1>3 DEF ViewWithin, KnownWithin, PinWithin
<1>6. (PoolFits(pool) /\ RecordsFit(records) /\ RowsFit(subscribers, subscriberTop))'
  BY <1>1, <1>3, <1>4 DEF GoodBooks, PoolFits, SlotFits, RecordsFit, RowsFit
<1>7. (ViewsTyped(views) /\ NoticesFit(published, revoked, acks))'
  BY <1>1, <1>2, <1>3, <1>5 DEF GoodBooks, ViewsTyped, ViewTyped, NoticesFit
<1>8. BindingFits(bound, worker, stream, workerTop, planTop)'
  BY <1>1 DEF GoodBooks, BindingFits
<1>9. (Owed(records, pool) /\ PublishedFits(records, pool))'
  BY DEF GoodBooks, Owed, Owes, PublishedFits
<1>10. (Stands(pool, bound, worker, stream, conflicts, hostClock) /\ Generations(pool, workerTop, planTop))'
  BY DEF GoodBooks, Stands, Generations
<1>11. Counted(records, subscribers)'
  BY <1>1 DEF GoodBooks, Counted, Registered, RegisteredBy
<1>12. MastersFit(masters, masterCount, subscribers)'
  BY <1>1 DEF GoodBooks, MastersFit, Bound, OpenIn
<1>13. hostClock' \in Guards' /\ conflicts' \subseteq Addresses \cup Initiators
  BY <1>2 DEF GoodBooks
<1> QED
  BY <1>6, <1>7, <1>8, <1>9, <1>10, <1>11, <1>12, <1>13 DEF BooksInv

\* Nothing is written or published, and identities are at most dropped.
Fades(slots) ==
  \A i \in Slots :
    /\ slots[i].id \in {pool[i].id, None}
    /\ slots[i].state = "Published" => pool[i].state = "Published" /\ slots[i].id = pool[i].id

LEMMA FadeKeeps ==
  ASSUME BooksInv, NEW slots, Fades(slots)
  PROVE  /\ Generations(slots, workerTop, planTop)
         /\ Stands(slots, bound, worker, stream, conflicts, hostClock)
<1>1. Generations(slots, workerTop, planTop)
  BY DEF BooksInv, Generations, Fades
<1>2. Stands(slots, bound, worker, stream, conflicts, hostClock)
  BY DEF BooksInv, Stands, Fades
<1> QED
  BY <1>1, <1>2

LEMMA OpenKept ==
  ASSUME NEW ms, NEW count, NEW rows, NEW next, MastersFit(ms, count, rows),
         \A s \in Subscribers : OpenIn(rows, s) => OpenIn(next, s)
  PROVE  MastersFit(ms, count, next)
BY DEF MastersFit

\* aa23Retire, and the settlement after it, keep the books.
LEMMA RetireBooks ==
  ASSUME BooksInv, NEW leaving \in SUBSET Active, NEW rows, NEW reason \in Reasons, NEW also \in SUBSET Slots,
         RowsFit(rows, subscriberTop), Counted(records, rows), RetireRecords(leaving, rows, reason, also)
  PROVE  /\ PoolFits(pool') /\ RecordsFit(records') /\ RowsFit(subscribers', subscriberTop)
         /\ Counted(records', subscribers') /\ Owed(records', pool') /\ PublishedFits(records', pool')
         /\ Fades(pool') /\ \A s \in Subscribers : OpenIn(rows, s) => OpenIn(subscribers', s)
<1> DEFINE chosen == also \cup UNION {SlotsOf(records[a].key) : a \in leaving}
           slots == RetiredPool(chosen, reason)
           quiet == Unpublished(records, chosen)
           recs == [a \in Addresses |-> IF a \in leaving THEN [quiet[a] EXCEPT !.state = "Retiring"] ELSE quiet[a]]
           gone == Settling(recs, slots, leaving)
<1>1. /\ pool' = slots /\ records' = Without(recs, gone) /\ subscribers' = Decremented(rows, recs, gone)
  BY DEF RetireRecords
<1>2. bounds \in Bounds /\ PoolFits(pool) /\ RecordsFit(records) /\ PublishedFits(records, pool) /\ Owed(records, pool)
  BY DEF BooksInv, StorageInv
<1>3. chosen \in SUBSET Slots
  BY DEF SlotsOf
<1>4. ASSUME NEW a \in leaving, NEW i \in Slots, pool[i].state # "Free", pool[i].id.key = records[a].key
      PROVE  i \in chosen
  <2>1. pool[i].id # None
    BY <1>2, <1>4, WithinShapes DEF PoolFits, SlotFits
  <2> QED
    BY <1>4, <2>1 DEF SlotsOf
<1>5. \A a \in leaving : a \in Addresses /\ records[a] # None /\ records[a].state = "Active"
  BY DEF Active
<1> HIDE DEF chosen
<1>6. /\ RetiredOf(chosen, slots)
      /\ \A i \in Slots : pool[i].state = "Retained" => slots[i].state = "Retained" /\ slots[i].id = pool[i].id
  BY <1>2, RetiredPoolFits
<1>7. PublishedFits(quiet, slots)
  BY <1>3, <1>6, PublishedKept
<1>8. PoolFits(slots) /\ Fades(slots)
  BY <1>6 DEF RetiredOf, Fades
<1>9. ASSUME NEW a \in Addresses
      PROVE  /\ quiet[a] = None <=> records[a] = None
             /\ quiet[a] # None => /\ quiet[a] \in RecordWithin /\ quiet[a].key = records[a].key
                                   /\ quiet[a].state = records[a].state
  BY <1>2, UnpublishedIs
<1> HIDE DEF slots, quiet
<1>10. ASSUME NEW a \in Addresses
       PROVE  /\ recs[a] = None <=> records[a] = None
              /\ recs[a] # None => /\ recs[a] \in RecordWithin /\ recs[a].key = records[a].key
                                   /\ recs[a].published = quiet[a].published
              /\ a \notin leaving => recs[a] = quiet[a]
  <2>1. CASE a \in leaving
    <3>1. quiet[a] \in RecordWithin /\ quiet[a].key = records[a].key
      BY <1>5, <1>9, <2>1
    <3>2. recs[a] \in RecordWithin /\ recs[a].key = quiet[a].key /\ recs[a].published = quiet[a].published
      BY <2>1, <3>1 DEF RecordWithin
    <3> QED
      BY <1>2, <1>5, <2>1, <3>1, <3>2, WithinShapes
  <2>2. CASE a \notin leaving
    BY <1>9, <2>2
  <2> QED
    BY <2>1, <2>2
<1> HIDE DEF recs
<1>11. RecordsFit(recs) /\ SameHolders(records, recs)
  <2>1. RecordsFit(recs)
    BY <1>2, <1>10 DEF RecordsFit
  <2>2. SameHolders(records, recs)
    BY <1>10 DEF SameHolders
  <2> QED
    BY <2>1, <2>2
<1>12. ASSUME NEW a \in Addresses, a \notin leaving PROVE Owes(recs, slots, a)
  <2> SUFFICES ASSUME recs[a] # None, recs[a].state = "Retiring"
               PROVE  \E i \in Slots : slots[i].state = "Retained" /\ slots[i].id.key = recs[a].key
    BY DEF Owes
  <2>1. records[a] # None /\ records[a].state = "Retiring" /\ recs[a].key = records[a].key
    BY <1>9, <1>10, <1>12
  <2>2. PICK i \in Slots : pool[i].state = "Retained" /\ pool[i].id.key = records[a].key
    BY <1>2, <2>1 DEF Owed, Owes
  <2> QED
    BY <1>6, <2>1, <2>2
<1>13. PublishedFits(recs, slots)
  <2>1. ASSUME NEW i \in Slots, slots[i].state = "Published", NEW a, a = slots[i].id.key.addr
        PROVE  a \in Addresses /\ recs[a] = quiet[a]
    <3>1. pool[i].state = "Published" /\ i \notin chosen /\ slots[i].id = pool[i].id
      BY <1>6, <2>1 DEF RetiredOf
    <3>2. pool[i].id \in Identities
      BY <1>2, <3>1 DEF PoolFits, SlotFits
    <3>3. a \in Addresses
      BY <2>1, <3>1, <3>2 DEF Identities, Keys
    <3>4. records[a].key = pool[i].id.key
      BY <1>2, <2>1, <3>1 DEF PublishedFits
    <3>5. a \notin leaving
      BY <1>4, <3>1, <3>4
    <3> QED
      BY <1>10, <3>3, <3>5
  <2>2. ASSUME NEW i \in Slots, slots[i].state = "Published", NEW a, a = slots[i].id.key.addr
        PROVE  /\ recs[a] # None /\ recs[a].key = slots[i].id.key
               /\ recs[a].published = i /\ recs[a].publishTop = slots[i].id.plan /\ recs[a].state = "Active"
               /\ recs[a].source = slots[i].id.source
    <3>1. recs[a] = quiet[a]
      BY <2>1, <2>2
    <3> QED
      BY <1>7, <2>2, <3>1 DEF PublishedFits
  <2>3. ASSUME NEW a \in Addresses, recs[a] # None, recs[a].published # None
        PROVE  slots[recs[a].published].state = "Published" /\ slots[recs[a].published].id.key = recs[a].key
    <3>1. quiet[a] # None /\ quiet[a].published = recs[a].published /\ quiet[a].key = recs[a].key
      BY <1>9, <1>10, <2>3
    <3> QED
      BY <1>7, <2>3, <3>1 DEF PublishedFits
  <2> QED
    BY <2>2, <2>3 DEF PublishedFits
<1>14. Counted(recs, rows)
  BY <1>11, CountedSame
<1>15. leaving \in SUBSET Addresses
  BY <1>5
<1>16. /\ RecordsFit(Without(recs, gone)) /\ RowsFit(Decremented(rows, recs, gone), subscriberTop)
       /\ Counted(Without(recs, gone), Decremented(rows, recs, gone))
       /\ PublishedFits(Without(recs, gone), slots) /\ Owed(Without(recs, gone), slots)
       /\ \A s \in Subscribers : OpenIn(rows, s) => OpenIn(Decremented(rows, recs, gone), s)
  BY <1>2, <1>8, <1>11, <1>12, <1>13, <1>14, <1>15, SettledBooks
<1> HIDE DEF gone
<1> QED
  BY <1>1, <1>8, <1>16

\* The parts of the books that stay with what they are about.
LEMMA OwedSame ==
  ASSUME NEW recs, NEW next, NEW slots, Owed(recs, slots),
         \A a \in Addresses : next[a] # None /\ next[a].state = "Retiring" =>
           recs[a] # None /\ recs[a].state = "Retiring" /\ next[a].key = recs[a].key
  PROVE  Owed(next, slots)
BY DEF Owed, Owes

LEMMA GenerationsFade ==
  ASSUME BooksInv, NEW slots, \A i \in Slots : slots[i].id \in {pool[i].id, None}
  PROVE  Generations(slots, workerTop, planTop)
BY DEF BooksInv, Generations

\* What retiring without settlement does: aa23RetireWhere.
LEMMA FencedBooks ==
  ASSUME BooksInv, NEW chosen \in SUBSET Slots, NEW reason \in Reasons, NEW recs, NEW slots,
         recs = Unpublished(records, chosen), slots = RetiredPool(chosen, reason)
  PROVE  /\ PoolFits(slots) /\ RecordsFit(recs) /\ PublishedFits(recs, slots) /\ Owed(recs, slots)
         /\ SameHolders(records, recs) /\ RetiredOf(chosen, slots) /\ Fades(slots)
<1>1. bounds \in Bounds /\ PoolFits(pool) /\ RecordsFit(records) /\ Owed(records, pool)
  BY DEF BooksInv, StorageInv
<1>2. /\ RetiredOf(chosen, slots)
      /\ \A i \in Slots : pool[i].state = "Retained" => slots[i].state = "Retained" /\ slots[i].id = pool[i].id
  BY <1>1, RetiredPoolFits
<1>3. PublishedFits(recs, slots)
  BY <1>2, PublishedKept
<1>4. ASSUME NEW a \in Addresses
      PROVE  /\ recs[a] = None <=> records[a] = None
             /\ recs[a] # None => /\ recs[a] \in RecordWithin /\ recs[a].key = records[a].key
                                  /\ recs[a].state = records[a].state
  BY <1>1, UnpublishedIs
<1>5. RecordsFit(recs)
  BY <1>1, <1>4 DEF RecordsFit
<1>6. SameHolders(records, recs)
  BY <1>4 DEF SameHolders
<1>7. Owed(records, slots)
  BY <1>1, <1>2 DEF Owed, Owes
<1>8. Owed(recs, slots)
  BY <1>4, <1>7, OwedSame
<1>9. PoolFits(slots) /\ Fades(slots)
  BY <1>2 DEF RetiredOf, Fades
<1> QED
  BY <1>2, <1>3, <1>5, <1>6, <1>8, <1>9

\* The books whose subject a step of the pool and the records leaves alone.
Aside ==
  /\ hostClock' \in Guards /\ conflicts' \subseteq Addresses \cup Initiators
  /\ UNCHANGED <<subscribers, subscriberTop, masters, masterCount, views, published, revoked, acks>>

LEMMA FenceStep ==
  ASSUME BooksInv, NEW chosen \in SUBSET Slots, pool' = RetiredPool(chosen, "Revoked"),
         records' = Unpublished(records, chosen), Aside,
         UNCHANGED <<bound, worker, stream, workerTop, planTop>>,
         Stands(pool', bound, worker, stream, conflicts', hostClock')
  PROVE  GoodBooks
<1>1. "Revoked" \in Reasons
  BY DEF Reasons
<1>2. /\ PoolFits(pool') /\ RecordsFit(records') /\ PublishedFits(records', pool') /\ Owed(records', pool')
      /\ SameHolders(records, records') /\ Fades(pool')
  BY <1>1, FencedBooks
<1>3. Counted(records', subscribers)
  BY <1>2, CountedSame DEF BooksInv
<1>4. Generations(pool', workerTop, planTop)
  BY <1>2, FadeKeeps
<1> QED
  BY <1>2, <1>3, <1>4 DEF GoodBooks, Aside, BooksInv

LEMMA ClockFaultBooks ==
  ASSUME BooksInv, HostClockFault
  PROVE  GoodBooks
<1>1. /\ hostClock' = [hostClock EXCEPT !.closed = TRUE] /\ pool' = RetiredPool(Slots, "Revoked")
      /\ records' = Unpublished(records, Slots)
      /\ UNCHANGED <<subscribers, subscriberTop, masters, masterCount, conflicts, bound, worker, stream, workerTop,
                     planTop, views, published, revoked, acks>>
  BY DEF HostClockFault, binding, sent
<1>2. Aside
  BY <1>1 DEF BooksInv, Aside, Guards
<1>3. "Revoked" \in Reasons
  BY DEF Reasons
<1>4. Slots \in SUBSET Slots
  OBVIOUS
<1>5. RetiredOf(Slots, pool')
  BY <1>1, <1>3, <1>4, FencedBooks
<1>6. Stands(pool', bound, worker, stream, conflicts', hostClock')
  BY <1>5 DEF RetiredOf, Stands
<1> QED
  BY <1>1, <1>2, <1>4, <1>6, FenceStep

LEMMA ConflictBooks ==
  ASSUME BooksInv, NEW a \in Addresses \cup Initiators, AA23MarkPhysicalConflict(a)
  PROVE  GoodBooks
<1>1. /\ conflicts' = conflicts \cup {a} /\ pool' = RetiredPool(SlotsAt(a), "Revoked")
      /\ records' = Unpublished(records, SlotsAt(a))
      /\ UNCHANGED <<hostClock, subscribers, subscriberTop, masters, masterCount, bound, worker, stream, workerTop,
                     planTop, views, published, revoked, acks>>
  BY DEF AA23MarkPhysicalConflict, binding, sent
<1>2. Aside
  BY <1>1 DEF BooksInv, Aside
<1>3. "Revoked" \in Reasons
  BY DEF Reasons
<1>4. SlotsAt(a) \in SUBSET Slots
  BY DEF SlotsAt
<1>5. RetiredOf(SlotsAt(a), pool') /\ Fades(pool')
  BY <1>1, <1>3, <1>4, FencedBooks
<1>6. Stands(pool', bound, worker, stream, conflicts', hostClock')
  <2>1. Stands(pool', bound, worker, stream, conflicts, hostClock)
    BY <1>5, FadeKeeps
  <2>2. ASSUME NEW i \in Slots, pool'[i].state = "Published" PROVE pool'[i].id.key.addr # a
    <3>1. pool[i].state = "Published" /\ i \notin SlotsAt(a) /\ pool'[i].id = pool[i].id
      BY <1>5, <2>2 DEF RetiredOf
    <3>2. pool[i].id # None
      BY <3>1, WithinShapes DEF BooksInv, StorageInv, PoolFits, SlotFits
    <3> QED
      BY <3>1, <3>2 DEF SlotsAt
  <2> QED
    BY <1>1, <2>1, <2>2 DEF Stands
<1> QED
  BY <1>1, <1>2, <1>4, <1>6, FenceStep

LEMMA ClearBooks ==
  ASSUME BooksInv, NEW a, AA23ClearPhysicalConflict(a)
  PROVE  GoodBooks
<1>1. /\ conflicts' = conflicts \ {a}
      /\ UNCHANGED <<hostClock, subscribers, subscriberTop, records, masters, masterCount, bound, worker, stream,
                     workerTop, planTop, pool, views, published, revoked, acks>>
  BY DEF AA23ClearPhysicalConflict, binding, sent
<1>2. Stands(pool', bound, worker, stream, conflicts', hostClock')
  BY <1>1 DEF BooksInv, Stands
<1> QED
  BY <1>1, <1>2 DEF BooksInv, GoodBooks

LEMMA AdvanceSourceBooks ==
  ASSUME BooksInv, NEW a \in Addresses, NEW x \in 1 .. bounds.source, NEW t \in Deadlines, NEW now \in Ticks,
         AA23AdvanceSource(a, x, t, now)
  PROVE  GoodBooks
<1> DEFINE chosen == SlotsOf(records[a].key)
           recs == Unpublished(records, chosen)
<1>1. /\ records[a] # None /\ records' = [recs EXCEPT ![a].source = x, ![a].sourceLease = t]
      /\ pool' = RetiredPool(chosen, "Revoked")
      /\ HostObserve(now)
      /\ UNCHANGED <<subscribers, subscriberTop, masters, masterCount, conflicts, bound, worker, stream, workerTop,
                     planTop, views, published, revoked, acks>>
  BY DEF AA23AdvanceSource, Active, binding, sent
<1>2. hostClock' \in Guards /\ hostClock'.closed = hostClock.closed
  BY <1>1 DEF HostObserve, BooksInv, Guards
<1>3. "Revoked" \in Reasons
  BY DEF Reasons
<1>4. chosen \in SUBSET Slots
  BY DEF SlotsOf
<1>5. recs = [b \in Addresses |-> recs[b]]
  BY DEF Unpublished
<1> HIDE DEF chosen
<1>6. /\ PoolFits(pool') /\ RecordsFit(recs) /\ PublishedFits(recs, pool') /\ Owed(recs, pool')
      /\ SameHolders(records, recs) /\ RetiredOf(chosen, pool') /\ Fades(pool')
  BY <1>1, <1>3, <1>4, FencedBooks
<1> HIDE DEF recs
<1>7. recs[a] \in RecordWithin /\ recs[a].key.addr = a
  BY <1>1, <1>6 DEF SameHolders, RecordsFit
<1>8. /\ records'[a] \in RecordWithin /\ records'[a].key = recs[a].key /\ records'[a].state = recs[a].state
      /\ records'[a].published = recs[a].published
      /\ \A b \in Addresses \ {a} : records'[b] = recs[b]
  <2>1. records' = [b \in Addresses |-> IF b = a THEN [recs[a] EXCEPT !.source = x, !.sourceLease = t] ELSE recs[b]]
    BY <1>1, <1>5
  <2> QED
    BY <1>7, <2>1 DEF RecordWithin
<1>9. records'[a] # None /\ recs[a] # None
  BY <1>7, <1>8, WithinShapes DEF BooksInv, StorageInv
<1>10. RecordsFit(records') /\ SameHolders(recs, records')
  BY <1>6, <1>7, <1>8, <1>9 DEF RecordsFit, SameHolders
<1>11. Counted(records', subscribers)
  BY <1>6, <1>10, CountedSame DEF BooksInv
<1>12. Owed(records', pool')
  BY <1>6, <1>8, <1>9, OwedSame
<1>13. PublishedFits(records', pool')
  <2>1. ASSUME NEW i \in Slots, pool'[i].state = "Published", NEW b, b = pool'[i].id.key.addr
        PROVE  b \in Addresses /\ b # a
    <3>1. pool[i].state = "Published" /\ i \notin chosen /\ pool'[i].id = pool[i].id
      BY <1>6, <2>1 DEF RetiredOf
    <3>2. pool[i].id \in Identities /\ pool[i].id # None
      BY <3>1, WithinShapes DEF BooksInv, StorageInv, PoolFits, SlotFits
    <3>3. records[b].key = pool[i].id.key
      BY <2>1, <3>1 DEF BooksInv, PublishedFits
    <3>4. b # a
      BY <3>1, <3>2, <3>3 DEF chosen, SlotsOf
    <3> QED
      BY <2>1, <3>1, <3>2, <3>4 DEF Identities, Keys
  <2>2. ASSUME NEW i \in Slots, pool'[i].state = "Published", NEW b, b = pool'[i].id.key.addr
        PROVE  /\ records'[b] # None /\ records'[b].key = pool'[i].id.key
               /\ records'[b].published = i /\ records'[b].publishTop = pool'[i].id.plan /\ records'[b].state = "Active"
               /\ records'[b].source = pool'[i].id.source
    <3>1. records'[b] = recs[b]
      BY <1>8, <2>1, <2>2
    <3> QED
      BY <1>6, <2>2, <3>1 DEF PublishedFits
  <2>3. ASSUME NEW b \in Addresses, records'[b] # None, records'[b].published # None
        PROVE  pool'[records'[b].published].state = "Published" /\ pool'[records'[b].published].id.key = records'[b].key
    <3>1. recs[b] # None /\ records'[b].published = recs[b].published /\ records'[b].key = recs[b].key
      BY <1>8, <1>9, <2>3
    <3> QED
      BY <1>6, <2>3, <3>1 DEF PublishedFits
  <2> QED
    BY <2>2, <2>3 DEF PublishedFits
<1>14. Generations(pool', workerTop, planTop) /\ Stands(pool', bound, worker, stream, conflicts, hostClock)
  BY <1>6, FadeKeeps
<1>15. Stands(pool', bound, worker, stream, conflicts, hostClock')
  BY <1>2, <1>14 DEF Stands
<1> QED
  BY <1>1, <1>2, <1>6, <1>10, <1>11, <1>12, <1>13, <1>14, <1>15 DEF BooksInv, GoodBooks

LEMMA BindWorkerBooks ==
  ASSUME BooksInv, NEW w \in Workers, NEW st \in 1 .. bounds.stream, AA23BindWorker(w, st)
  PROVE  GoodBooks
<1> DEFINE recs == Unpublished(records, Slots)
<1>1. /\ w > workerTop \/ (w = workerTop /\ bound /\ st > stream)
      /\ records' = [a \in Addresses |-> IF recs[a] # None /\ w > workerTop
                                         THEN [recs[a] EXCEPT !.publishTop = 0] ELSE recs[a]]
      /\ pool' = RetiredPool(Slots, "Revoked")
      /\ planTop' = IF w > workerTop THEN 0 ELSE planTop
      /\ bound' = TRUE /\ worker' = w /\ workerTop' = w /\ stream' = st
      /\ UNCHANGED <<hostClock, subscribers, subscriberTop, masters, masterCount, conflicts, views,
                     published, revoked, acks>>
  BY DEF AA23BindWorker, sent
<1>2. "Revoked" \in Reasons /\ Slots \in SUBSET Slots
  BY DEF Reasons
<1>3. /\ PoolFits(pool') /\ RecordsFit(recs) /\ PublishedFits(recs, pool') /\ Owed(recs, pool')
      /\ SameHolders(records, recs) /\ RetiredOf(Slots, pool') /\ Fades(pool')
  BY <1>1, <1>2, FencedBooks
<1> HIDE DEF recs
<1>4. \A i \in Slots : pool'[i].state # "Published"
  BY <1>3 DEF RetiredOf
<1>5. ASSUME NEW a \in Addresses
      PROVE  /\ records'[a] = None <=> recs[a] = None
             /\ recs[a] # None => /\ records'[a] \in RecordWithin /\ records'[a].key = recs[a].key
                                  /\ records'[a].state = recs[a].state /\ records'[a].published = recs[a].published
  <2>1. CASE recs[a] # None /\ w > workerTop
    <3>1. recs[a] \in RecordWithin /\ 0 \in 0 .. bounds.plan
      BY <1>3, <2>1, BoundsAre DEF RecordsFit, BooksInv, StorageInv
    <3>2. records'[a] = [recs[a] EXCEPT !.publishTop = 0]
      BY <1>1, <2>1
    <3>3. /\ records'[a] \in RecordWithin /\ records'[a].key = recs[a].key
          /\ records'[a].state = recs[a].state /\ records'[a].published = recs[a].published
      BY <3>1, <3>2 DEF RecordWithin
    <3> QED
      BY <2>1, <3>3, WithinShapes DEF BooksInv, StorageInv
  <2>2. CASE ~(recs[a] # None /\ w > workerTop)
    BY <1>1, <1>3, <2>2 DEF RecordsFit
  <2> QED
    BY <2>1, <2>2
<1>6. RecordsFit(records') /\ SameHolders(recs, records')
  BY <1>3, <1>5 DEF RecordsFit, SameHolders
<1>7. Counted(records', subscribers)
  BY <1>3, <1>6, CountedSame DEF BooksInv
<1>8. Owed(records', pool')
  BY <1>3, <1>5, OwedSame
<1>9. PublishedFits(records', pool')
  BY <1>3, <1>4, <1>5 DEF PublishedFits
<1>10. Stands(pool', bound', worker', stream', conflicts', hostClock')
  BY <1>4 DEF Stands
<1>11. /\ workerTop \in Nat /\ w \in Nat /\ w \in 0 .. bounds.worker /\ st \in 0 .. bounds.stream /\ planTop \in 0 .. bounds.plan
       /\ 0 \in 0 .. bounds.plan
  BY BoundsAre DEF BooksInv, StorageInv, BindingFits, Workers
<1>12. BindingFits(bound', worker', stream', workerTop', planTop')
  BY <1>1, <1>11 DEF BindingFits
<1>13. Generations(pool', workerTop', planTop')
  <2>1. Generations(pool', workerTop, planTop)
    BY <1>3, FadeKeeps
  <2>2. ASSUME NEW i \in Slots, pool'[i].id # None
        PROVE  pool'[i].id.worker <= w /\ (pool'[i].id.worker = w => pool'[i].id.plan <= planTop')
    <3>1. pool'[i].id \in Identities
      BY <1>3, <2>2 DEF PoolFits, SlotFits, SlotWithin
    <3>2. pool'[i].id.worker \in Nat /\ pool'[i].id.worker <= workerTop
          /\ (pool'[i].id.worker = workerTop => pool'[i].id.plan <= planTop)
      BY <2>1, <2>2, <3>1, BoundsAre DEF Generations, Identities, Workers, BooksInv, StorageInv
    <3> QED
      BY <1>1, <1>11, <3>2
  <2> QED
    BY <1>1, <2>1, <2>2 DEF Generations
<1> QED
  BY <1>1, <1>3, <1>6, <1>7, <1>8, <1>9, <1>10, <1>12, <1>13 DEF BooksInv, GoodBooks

\* What is published or retained stays so, and nothing else becomes so.
Steady(slots) ==
  /\ PoolFits(slots)
  /\ \A i \in Slots :
       /\ slots[i].id \in {pool[i].id, None}
       /\ slots[i].state = "Published" <=> pool[i].state = "Published"
       /\ pool[i].state \in Readable => slots[i].id = pool[i].id
       /\ pool[i].state = "Retained" => slots[i].state = "Retained"

LEMMA SteadyBooks ==
  ASSUME BooksInv, Steady(pool'), hostClock' \in Guards, hostClock'.closed = hostClock.closed,
         ViewsTyped(views'), NoticesFit(published', revoked', acks'),
         UNCHANGED <<subscribers, subscriberTop, records, masters, masterCount, conflicts, bound, worker, stream,
                     workerTop, planTop>>
  PROVE  GoodBooks
<1>1. Fades(pool')
  BY DEF Steady, Fades, Readable
<1>2. Generations(pool', workerTop, planTop) /\ Stands(pool', bound, worker, stream, conflicts, hostClock)
  BY <1>1, FadeKeeps
<1>3. Stands(pool', bound, worker, stream, conflicts, hostClock')
  BY <1>2 DEF Stands
<1>4. Owed(records, pool')
  BY DEF BooksInv, Owed, Owes, Steady, Readable
<1>5. PublishedFits(records, pool')
  <2>1. \A i \in Slots : pool'[i].state = "Published" => pool[i].state = "Published" /\ pool'[i].id = pool[i].id
    BY <1>1 DEF Fades
  <2>2. \A a \in Addresses : records[a] # None /\ records[a].published # None => records[a].published \in Slots
    BY DEF BooksInv, RecordsFit, RecordWithin
  <2>3. \A i \in Slots : pool[i].state = "Published" => pool'[i].state = "Published" /\ pool'[i].id = pool[i].id
    BY DEF Steady, Readable
  <2>4. PublishedFits(records, pool)
    BY DEF BooksInv
  <2> QED
    BY <2>1, <2>2, <2>3, <2>4 DEF PublishedFits
<1> QED
  BY <1>2, <1>3, <1>4, <1>5 DEF GoodBooks, BooksInv, Steady

LEMMA ObservedClock ==
  ASSUME BooksInv, NEW now \in Ticks, HostObserve(now)
  PROVE  hostClock' \in Guards /\ hostClock'.closed = hostClock.closed
BY DEF BooksInv, HostObserve, Guards

LEMMA SteadyPool ==
  ASSUME BooksInv
  PROVE  Steady(pool)
BY DEF BooksInv, Steady, Readable

LEMMA ReadingBooks ==
  ASSUME BooksInv, NEW now \in Ticks, HostReading(now)
  PROVE  GoodBooks
<1>1. /\ HostObserve(now)
      /\ UNCHANGED <<subscribers, subscriberTop, records, masters, masterCount, conflicts, bound, worker, stream,
                     workerTop, planTop, pool, views, published, revoked, acks>>
  BY DEF HostReading, registry, binding, sent
<1>2. hostClock' \in Guards /\ hostClock'.closed = hostClock.closed
  BY <1>1, ObservedClock
<1>3. Steady(pool') /\ ViewsTyped(views') /\ NoticesFit(published', revoked', acks')
  BY <1>1, SteadyPool DEF BooksInv
<1> QED
  BY <1>1, <1>2, <1>3, SteadyBooks

\* One slot is replaced by one that is neither published nor retained, and was not.
LEMMA SteadySlot ==
  ASSUME BooksInv, NEW i \in Slots, NEW t, pool' = [pool EXCEPT ![i] = t], SlotFits(t),
         t.id \in {pool[i].id, None}, t.state \notin Readable, pool[i].state \notin Readable
  PROVE  Steady(pool')
<1>1. pool' = [j \in Slots |-> IF j = i THEN t ELSE pool[j]]
  BY DEF BooksInv, StorageInv, PoolOK
<1> QED
  BY <1>1, SteadyPool DEF Steady, PoolFits, Readable

LEMMA GivesBackBooks ==
  ASSUME BooksInv, NEW i \in Slots, NEW now \in Ticks,
         AA23AbortPrepared(i) \/ PublishStale(i, now) \/ AA23Reclaim(i)
  PROVE  GoodBooks
<1>1. UNCHANGED <<subscribers, subscriberTop, records, masters, masterCount, conflicts, bound, worker, stream,
                  workerTop, planTop, views, published, revoked, acks>>
  BY DEF AA23AbortPrepared, PublishStale, AA23Reclaim, registry, binding, sent
<1>2. hostClock' \in Guards /\ hostClock'.closed = hostClock.closed
  <2>1. HostObserve(now) \/ hostClock' = hostClock
    BY DEF AA23AbortPrepared, PublishStale, AA23Reclaim
  <2> QED
    BY <2>1, ObservedClock DEF BooksInv
<1>3. SlotFits(pool[i]) /\ bounds \in Bounds
  BY DEF BooksInv, StorageInv, PoolFits
<1>4. \/ pool[i].state \in {"Writing", "Reclaimable"} /\ pool' = [pool EXCEPT ![i] = Released(pool[i])]
      \/ pool[i].state = "Writing" /\ pool' = [pool EXCEPT ![i] = ReleasedOrStranded(pool[i])]
  BY DEF AA23AbortPrepared, PublishStale, AA23Reclaim
<1>5. PICK t : /\ pool' = [pool EXCEPT ![i] = t] /\ SlotFits(t) /\ t.id \in {pool[i].id, None}
               /\ t.state \notin Readable /\ pool[i].state \notin Readable
  <2>1. CASE pool[i].state \in {"Writing", "Reclaimable"} /\ pool' = [pool EXCEPT ![i] = Released(pool[i])]
    BY <1>3, <2>1, ReleasedFits DEF Readable
  <2>2. CASE pool[i].state = "Writing" /\ pool' = [pool EXCEPT ![i] = ReleasedOrStranded(pool[i])]
    BY <1>3, <2>2, StrandedFits DEF Readable
  <2> QED
    BY <1>4, <2>1, <2>2
<1>6. Steady(pool')
  BY <1>5, SteadySlot
<1> QED
  BY <1>1, <1>2, <1>6, SteadyBooks DEF BooksInv

LEMMA OpenSubscriberBooks ==
  ASSUME BooksInv, AA23OpenSubscriber
  PROVE  GoodBooks
<1> DEFINE s == subscriberTop + 1
           row == [open |-> TRUE, epochHigh |-> 0, registrations |-> 0]
<1>1. /\ subscriberTop < bounds.subscriber /\ subscriberTop' = s /\ subscribers' = [subscribers EXCEPT ![s] = row]
      /\ UNCHANGED <<hostClock, records, masters, masterCount, conflicts, bound, worker, stream,
                     workerTop, planTop, pool, views, published, revoked, acks>>
  BY DEF AA23OpenSubscriber, binding, sent
<1>2. /\ bounds \in Bounds /\ RowsFit(subscribers, subscriberTop) /\ Counted(records, subscribers)
      /\ MastersFit(masters, masterCount, subscribers)
  BY DEF BooksInv, StorageInv
<1>3. s \in Subscribers /\ s \in 0 .. bounds.subscriber
  BY <1>1, <1>2, BoundsAre DEF RowsFit, Subscribers
<1>4. subscribers[s] = None
  BY <1>2, <1>3, BoundsAre DEF RowsFit
<1>5. row \in RowWithin /\ row # None /\ row.open /\ row.registrations = 0
  <2>1. 0 \in 0 .. bounds.epoch
    BY <1>2, BoundsAre
  <2>2. row \in RowWithin
    BY <2>1 DEF RowWithin
  <2> QED
    BY <1>2, <2>2, WithinShapes
<1> HIDE DEF row
<1>6. subscribers' = [x \in Subscribers |-> IF x = s THEN row ELSE subscribers[x]]
  BY <1>1, <1>2 DEF RowsFit
<1>7. RowsFit(subscribers', subscriberTop')
  <2>1. \A x \in Subscribers : x <= subscriberTop => x <= s
    BY <1>2 DEF RowsFit, Subscribers
  <2>2. s <= s
    BY <1>3
  <2> QED
    BY <1>1, <1>2, <1>3, <1>5, <1>6, <2>1, <2>2 DEF RowsFit
<1> HIDE DEF s
<1>8. Counted(records, subscribers')
  BY <1>2, <1>3, <1>4, <1>5, <1>6 DEF Counted
<1>9. MastersFit(masters, masterCount, subscribers')
  <2>1. \A x \in Subscribers : OpenIn(subscribers, x) => OpenIn(subscribers', x)
    BY <1>4, <1>6 DEF OpenIn
  <2>2. \A m \in Initiators : masters[m] # None => masters[m] \in Subscribers
    BY <1>2 DEF MastersFit
  <2> QED
    BY <1>2, <2>1, <2>2 DEF MastersFit
<1> QED
  BY <1>1, <1>7, <1>8, <1>9 DEF BooksInv, GoodBooks

LEMMA RegisterBooks ==
  ASSUME BooksInv, NEW s \in Subscribers, NEW a \in Addresses, NEW e \in 1 .. bounds.epoch, NEW x \in 1 .. bounds.source,
         NEW t \in Deadlines, NEW u \in Deadlines, NEW now \in Ticks, AA23Register(s, a, e, x, t, u, now)
  PROVE  GoodBooks
<1> DEFINE rec == [state |-> "Active", key |-> [sub |-> s, addr |-> a, epoch |-> e], lease |-> t,
                   source |-> x, sourceLease |-> u, published |-> None, publishTop |-> 0]
           n == subscribers[s].registrations + 1
           row == [subscribers[s] EXCEPT !.epochHigh = e, !.registrations = n]
<1>1. /\ HostObserve(now) /\ records[a] = None /\ Open(s)
      /\ Cardinality(Registered(records)) < MaxRegistrations
      /\ records' = [records EXCEPT ![a] = rec]
      /\ subscribers' = [subscribers EXCEPT ![s].epochHigh = e, ![s].registrations = @ + 1]
      /\ UNCHANGED <<subscriberTop, masters, masterCount, conflicts, bound, worker, stream, workerTop, planTop,
                     pool, views, published, revoked, acks>>
  BY DEF AA23Register, Registered, binding, sent
<1>2. /\ bounds \in Bounds /\ RowsFit(subscribers, subscriberTop) /\ Counted(records, subscribers)
      /\ MastersFit(masters, masterCount, subscribers) /\ RecordsFit(records) /\ Owed(records, pool)
      /\ PublishedFits(records, pool) /\ PoolFits(pool) /\ records = [b \in Addresses |-> records[b]]
  BY DEF BooksInv, StorageInv, RecordsOK
<1>3. hostClock' \in Guards /\ hostClock'.closed = hostClock.closed
  BY <1>1, ObservedClock
<1>4. rec \in RecordWithin /\ rec # None /\ rec.state = "Active" /\ rec.published = None
      /\ rec.key.addr = a /\ rec.key.sub = s
  <2>1. 0 \in 0 .. bounds.plan
    BY <1>2, BoundsAre
  <2>2. rec \in RecordWithin
    BY <2>1 DEF RecordWithin, Keys
  <2> QED
    BY <1>2, <2>2, WithinShapes
<1> HIDE DEF rec
<1>5. records' = [b \in Addresses |-> IF b = a THEN rec ELSE records[b]]
  BY <1>1, <1>2
<1>6. subscribers[s] # None /\ subscribers[s].open /\ subscribers[s] \in RowWithin /\ s <= subscriberTop
  BY <1>1, <1>2 DEF Open, RowsFit
<1>7. row \in RowWithin /\ row.open /\ row.registrations = n /\ row # None
  <2>1. e \in 0 .. bounds.epoch
    BY <1>2, BoundsAre
  <2>2. n \in Nat
    BY <1>6 DEF RowWithin
  <2> HIDE DEF n
  <2>3. row \in RowWithin /\ row.open = subscribers[s].open /\ row.registrations = n
    BY <1>6, <2>1, <2>2 DEF RowWithin
  <2> QED
    BY <1>2, <1>6, <2>3, WithinShapes
<1>8. subscribers' = [z \in Subscribers |-> IF z = s THEN row ELSE subscribers[z]]
  <2>1. subscribers = [z \in Subscribers |-> subscribers[z]]
    BY <1>2 DEF RowsFit
  <2> QED
    BY <1>1, <2>1
<1>9. RecordsFit(records')
  BY <1>2, <1>4, <1>5 DEF RecordsFit
<1> HIDE DEF row
<1>10. RowsFit(subscribers', subscriberTop')
  BY <1>1, <1>2, <1>6, <1>7, <1>8 DEF RowsFit
<1>11. Counted(records', subscribers')
  <2>1. Registered(records') = Registered(records) \cup {a} /\ a \notin Registered(records)
    BY <1>1, <1>4, <1>5 DEF Registered
  <2>2. Cardinality(Registered(records')) = Cardinality(Registered(records)) + 1
    BY <2>1, FiniteHolders, FS_AddElement
  <2>3. Cardinality(Registered(records')) <= MaxRegistrations
    BY <1>1, <2>2, FiniteHolders, LimitsAssumption
  <2>4. RegisteredBy(records', s) = RegisteredBy(records, s) \cup {a} /\ a \notin RegisteredBy(records, s)
    BY <1>1, <1>4, <1>5 DEF RegisteredBy
  <2>5. Cardinality(RegisteredBy(records', s)) = Cardinality(RegisteredBy(records, s)) + 1
    BY <2>4, FiniteHolders, FS_AddElement
  <2>6. \A z \in Subscribers : z # s => RegisteredBy(records', z) = RegisteredBy(records, z)
    BY <1>1, <1>4, <1>5 DEF RegisteredBy
  <2>7. n = Cardinality(RegisteredBy(records', s))
    BY <1>2, <1>6, <2>5 DEF Counted
  <2> QED
    BY <1>2, <1>7, <1>8, <2>3, <2>6, <2>7 DEF Counted
<1>12. MastersFit(masters, masterCount, subscribers')
  <2>1. \A z \in Subscribers : OpenIn(subscribers, z) => OpenIn(subscribers', z)
    BY <1>7, <1>8 DEF OpenIn
  <2> QED
    BY <1>2, <2>1, OpenKept
<1>13. Owed(records', pool)
  BY <1>2, <1>4, <1>5, OwedSame
<1>14. PublishedFits(records', pool)
  <2>1. \A i \in Slots : pool[i].state = "Published" => pool[i].id.key.addr \in Addresses \ {a}
    <3>1. \A i \in Slots : pool[i].state = "Published" => pool[i].id \in Identities
      BY <1>2 DEF PoolFits, SlotFits
    <3>2. \A i \in Slots : pool[i].state = "Published" => pool[i].id.key.addr \in Addresses
      BY <3>1 DEF Identities, Keys
    <3> QED
      BY <1>1, <1>2, <3>2 DEF PublishedFits
  <2>2. \A b \in Addresses \ {a} : records'[b] = records[b]
    BY <1>5
  <2>3. records'[a].published = None
    BY <1>4, <1>5
  <2> QED
    BY <1>2, <2>1, <2>2, <2>3 DEF PublishedFits
<1>15. Stands(pool, bound, worker, stream, conflicts, hostClock')
  BY <1>3 DEF BooksInv, Stands
<1> QED
  BY <1>1, <1>3, <1>9, <1>10, <1>11, <1>12, <1>13, <1>14, <1>15 DEF BooksInv, GoodBooks

LEMMA OneRecord ==
  ASSUME NEW recs, NEW next, NEW a \in Addresses, NEW rec, next = [b \in Addresses |-> IF b = a THEN rec ELSE recs[b]]
  PROVE  next[a] = rec /\ \A b \in Addresses \ {a} : next[b] = recs[b]
OBVIOUS

LEMMA RenewBooks ==
  ASSUME BooksInv, NEW a \in Addresses, NEW t \in Deadlines, NEW now \in Ticks, AA23RenewRegistration(a, t, now)
  PROVE  GoodBooks
<1> DEFINE rec == [records[a] EXCEPT !.lease = t]
<1>1. /\ HostObserve(now) /\ records[a] # None /\ records' = [records EXCEPT ![a].lease = t]
      /\ UNCHANGED <<subscribers, subscriberTop, masters, masterCount, conflicts, bound, worker, stream,
                     workerTop, planTop, pool, views, published, revoked, acks>>
  BY DEF AA23RenewRegistration, Active, binding, sent
<1>2. /\ bounds \in Bounds /\ Counted(records, subscribers) /\ RecordsFit(records) /\ Owed(records, pool)
      /\ PublishedFits(records, pool) /\ records = [b \in Addresses |-> records[b]]
  BY DEF BooksInv, StorageInv, RecordsOK
<1>3. hostClock' \in Guards /\ hostClock'.closed = hostClock.closed
  BY <1>1, ObservedClock
<1>4. records' = [b \in Addresses |-> IF b = a THEN rec ELSE records[b]]
  BY <1>1, <1>2
<1>5. /\ rec \in RecordWithin /\ rec.key = records[a].key /\ rec.state = records[a].state
      /\ rec.published = records[a].published /\ rec.publishTop = records[a].publishTop /\ rec.source = records[a].source
  BY <1>1, <1>2 DEF RecordsFit, RecordWithin
<1>6. rec # None
  BY <1>2, <1>5, WithinShapes
<1> HIDE DEF rec
<1>recs. records[a] # None /\ records'[a] = rec /\ \A b \in Addresses \ {a} : records'[b] = records[b]
  BY <1>1, <1>4, OneRecord
<1>7. RecordsFit(records') /\ SameHolders(records, records')
  BY <1>2, <1>5, <1>6, <1>recs DEF RecordsFit, SameHolders
<1>8. Counted(records', subscribers)
  BY <1>2, <1>7, CountedSame
<1>9. Owed(records', pool)
  <2>1. \A b \in Addresses : records'[b] # None /\ records'[b].state = "Retiring" =>
          records[b] # None /\ records[b].state = "Retiring" /\ records'[b].key = records[b].key
    BY <1>5, <1>recs
  <2> QED
    BY <1>2, <2>1, OwedSame
<1>10. PublishedFits(records', pool)
  <2>1. \A i \in Slots : pool[i].state = "Published" => pool[i].id.key.addr \in Addresses
    BY DEF BooksInv, PoolFits, SlotFits, Identities, Keys
  <2> QED
    BY <1>2, <1>5, <1>6, <1>recs, <2>1 DEF PublishedFits
<1>11. Stands(pool, bound, worker, stream, conflicts, hostClock')
  BY <1>3 DEF BooksInv, Stands
<1> QED
  BY <1>1, <1>3, <1>7, <1>8, <1>9, <1>10, <1>11 DEF BooksInv, GoodBooks

-----------------------------------------------------------------------------
(* The books: initiators, and the registrations that leave.                *)

LEMMA FiniteBound ==
  ASSUME NEW ms
  PROVE  IsFiniteSet(Bound(ms)) /\ Cardinality(Bound(ms)) \in Nat
<1>1. Bound(ms) \in SUBSET Initiators
  BY DEF Bound
<1>2. IsFiniteSet(Bound(ms))
  BY <1>1, AddressAssumption, FS_Subset
<1> QED
  BY <1>2, FS_CardinalityType

LEMMA BindMasterBooks ==
  ASSUME BooksInv, NEW s \in Subscribers, NEW m \in Initiators, AA23BindMaster(s, m)
  PROVE  GoodBooks
<1>1. /\ Open(s) /\ masters[m] = None /\ masterCount < MaxMasters
      /\ masters' = [masters EXCEPT ![m] = s] /\ masterCount' = masterCount + 1
      /\ UNCHANGED <<hostClock, subscribers, subscriberTop, records, conflicts, bound, worker, stream,
                     workerTop, planTop, pool, views, published, revoked, acks>>
  BY DEF AA23BindMaster, binding, sent
<1>2. MastersFit(masters, masterCount, subscribers)
  BY DEF BooksInv
<1>3. masters \in [Initiators -> Subscribers \cup {None}]
  BY <1>2 DEF MastersFit
<1>4. s # None
  <2>1. s \in Nat
    BY BoundsAre DEF BooksInv, StorageInv, Subscribers
  <2> QED
    BY <2>1, NoneAssumption
<1>5. Bound(masters') = Bound(masters) \cup {m} /\ m \notin Bound(masters)
  BY <1>1, <1>3, <1>4 DEF Bound
<1>6. Cardinality(Bound(masters')) = Cardinality(Bound(masters)) + 1
  BY <1>5, FiniteBound, FS_AddElement
<1>7. masterCount' = Cardinality(Bound(masters')) /\ masterCount' <= MaxMasters
  BY <1>1, <1>2, <1>6, FiniteBound, LimitsAssumption DEF MastersFit
<1>8. MastersFit(masters', masterCount', subscribers)
  BY <1>1, <1>2, <1>3, <1>7 DEF MastersFit, OpenIn, Open
<1> QED
  BY <1>1, <1>8 DEF BooksInv, GoodBooks

LEMMA ReleaseMasterBooks ==
  ASSUME BooksInv, NEW s \in Subscribers, NEW m \in Initiators, AA23ReleaseMaster(s, m)
  PROVE  GoodBooks
<1>1. /\ masters[m] = s /\ masters' = [masters EXCEPT ![m] = None] /\ masterCount' = masterCount - 1
      /\ UNCHANGED <<hostClock, subscribers, subscriberTop, records, conflicts, bound, worker, stream,
                     workerTop, planTop, pool, views, published, revoked, acks>>
  BY DEF AA23ReleaseMaster, binding, sent
<1>2. MastersFit(masters, masterCount, subscribers)
  BY DEF BooksInv
<1>3. masters \in [Initiators -> Subscribers \cup {None}]
  BY <1>2 DEF MastersFit
<1>4. s # None
  <2>1. s \in Nat
    BY BoundsAre DEF BooksInv, StorageInv, Subscribers
  <2> QED
    BY <2>1, NoneAssumption
<1>5. Bound(masters') = Bound(masters) \ {m} /\ m \in Bound(masters)
  BY <1>1, <1>3, <1>4 DEF Bound
<1>6. Cardinality(Bound(masters')) = Cardinality(Bound(masters)) - 1
  BY <1>5, FiniteBound, FS_RemoveElement
<1>7. masterCount' = Cardinality(Bound(masters')) /\ masterCount' <= MaxMasters
  BY <1>1, <1>2, <1>6, FiniteBound, LimitsAssumption DEF MastersFit
<1>8. MastersFit(masters', masterCount', subscribers)
  BY <1>1, <1>2, <1>3, <1>7 DEF MastersFit, OpenIn
<1> QED
  BY <1>1, <1>8 DEF BooksInv, GoodBooks

\* The initiators left after aa23ReleaseMastersWhere are not of owners.
LEMMA ReleasedMasters ==
  ASSUME BooksInv, NEW owners \in SUBSET Subscribers, ReleaseMasters(owners)
  PROVE  /\ MastersFit(masters', masterCount', subscribers)
         /\ \A m \in Initiators : masters'[m] # None => masters'[m] \in Subscribers \ owners
<1> DEFINE gone == {m \in Initiators : masters[m] \in owners}
<1>1. /\ masters' = [m \in Initiators |-> IF m \in gone THEN None ELSE masters[m]]
      /\ masterCount' = masterCount - Cardinality(gone)
  BY DEF ReleaseMasters
<1>2. MastersFit(masters, masterCount, subscribers)
  BY DEF BooksInv
<1>3. masters \in [Initiators -> Subscribers \cup {None}]
  BY <1>2 DEF MastersFit
<1>4. None \notin owners
  <2>1. Subscribers \subseteq Nat
    BY BoundsAre DEF BooksInv, StorageInv, Subscribers
  <2> QED
    BY <2>1, NoneAssumption
<1>5. Bound(masters') = Bound(masters) \ gone /\ Bound(masters) \cap gone = gone /\ gone \in SUBSET Bound(masters)
  BY <1>1, <1>4 DEF Bound
<1>6. \A m \in Initiators : masters'[m] # None => masters'[m] = masters[m] /\ masters'[m] \in Subscribers \ owners
  BY <1>1, <1>3
<1>7. masters' \in [Initiators -> Subscribers \cup {None}]
  BY <1>1, <1>3
<1> HIDE DEF gone
<1>8. Cardinality(Bound(masters')) = Cardinality(Bound(masters)) - Cardinality(gone)
  <2>1. Cardinality(Bound(masters) \ gone) = Cardinality(Bound(masters)) - Cardinality(Bound(masters) \cap gone)
    BY FiniteBound, FS_Difference
  <2> QED
    BY <1>5, <2>1
<1>9. Cardinality(gone) \in Nat
  BY <1>5, FiniteBound, FS_Subset, FS_CardinalityType
<1>10. masterCount' = Cardinality(Bound(masters')) /\ masterCount' <= MaxMasters
  BY <1>1, <1>2, <1>8, <1>9, FiniteBound, LimitsAssumption DEF MastersFit
<1> QED
  BY <1>2, <1>6, <1>7, <1>10 DEF MastersFit

LEMMA UnregisterBooks ==
  ASSUME BooksInv, NEW a, AA23Unregister(a)
  PROVE  GoodBooks
<1>1. /\ {a} \in SUBSET Active /\ RetireRecords({a}, subscribers, "Revoked", {})
      /\ UNCHANGED <<hostClock, subscriberTop, masters, masterCount, conflicts, bound, worker, stream,
                     workerTop, planTop, views, published, revoked, acks>>
  BY DEF AA23Unregister, binding, sent
<1>2. "Revoked" \in Reasons /\ {} \in SUBSET Slots
  BY DEF Reasons
<1>3. /\ PoolFits(pool') /\ RecordsFit(records') /\ RowsFit(subscribers', subscriberTop)
      /\ Counted(records', subscribers') /\ Owed(records', pool') /\ PublishedFits(records', pool')
      /\ Fades(pool') /\ \A s \in Subscribers : OpenIn(subscribers, s) => OpenIn(subscribers', s)
  BY <1>1, <1>2, RetireBooks DEF BooksInv
<1>4. MastersFit(masters, masterCount, subscribers')
  BY <1>3, OpenKept DEF BooksInv
<1>5. Generations(pool', workerTop, planTop) /\ Stands(pool', bound, worker, stream, conflicts, hostClock)
  BY <1>3, FadeKeeps
<1> QED
  BY <1>1, <1>3, <1>4, <1>5 DEF BooksInv, GoodBooks

LEMMA ResetBooks ==
  ASSUME BooksInv, AA23Reset
  PROVE  GoodBooks
<1>1. /\ ReleaseMasters(Subscribers) /\ RetireRecords(Active, subscribers, "Revoked", {})
      /\ UNCHANGED <<hostClock, subscriberTop, conflicts, bound, worker, stream,
                     workerTop, planTop, views, published, revoked, acks>>
  BY DEF AA23Reset, binding, sent
<1>2. "Revoked" \in Reasons /\ {} \in SUBSET Slots /\ Active \in SUBSET Active /\ Subscribers \in SUBSET Subscribers
  BY DEF Reasons
<1>3. /\ PoolFits(pool') /\ RecordsFit(records') /\ RowsFit(subscribers', subscriberTop)
      /\ Counted(records', subscribers') /\ Owed(records', pool') /\ PublishedFits(records', pool')
      /\ Fades(pool') /\ \A s \in Subscribers : OpenIn(subscribers, s) => OpenIn(subscribers', s)
  BY <1>1, <1>2, RetireBooks DEF BooksInv
<1>4. MastersFit(masters', masterCount', subscribers)
  BY <1>1, <1>2, ReleasedMasters
<1>5. MastersFit(masters', masterCount', subscribers')
  BY <1>3, <1>4, OpenKept
<1>6. Generations(pool', workerTop, planTop) /\ Stands(pool', bound, worker, stream, conflicts, hostClock)
  BY <1>3, FadeKeeps
<1> QED
  BY <1>1, <1>3, <1>5, <1>6 DEF BooksInv, GoodBooks

LEMMA ExpireBooks ==
  ASSUME BooksInv, NEW now \in Ticks, AA23ExpireDue(now)
  PROVE  GoodBooks
<1> DEFINE leaving == {a \in Active : now >= records[a].lease}
           also == {i \in Slots : pool[i].state = "Published" /\ ~Valid(pool[i], now)}
<1>1. /\ HostObserve(now) /\ RetireRecords(leaving, subscribers, "Expired", also)
      /\ UNCHANGED <<subscriberTop, masters, masterCount, conflicts, bound, worker, stream,
                     workerTop, planTop, views, published, revoked, acks>>
  BY DEF AA23ExpireDue, binding, sent
<1>2. "Expired" \in Reasons /\ also \in SUBSET Slots /\ leaving \in SUBSET Active
  BY DEF Reasons
<1> HIDE DEF leaving, also
<1>3. /\ PoolFits(pool') /\ RecordsFit(records') /\ RowsFit(subscribers', subscriberTop)
      /\ Counted(records', subscribers') /\ Owed(records', pool') /\ PublishedFits(records', pool')
      /\ Fades(pool') /\ \A s \in Subscribers : OpenIn(subscribers, s) => OpenIn(subscribers', s)
  BY <1>1, <1>2, RetireBooks DEF BooksInv
<1>4. MastersFit(masters, masterCount, subscribers')
  BY <1>3, OpenKept DEF BooksInv
<1>5. Generations(pool', workerTop, planTop) /\ Stands(pool', bound, worker, stream, conflicts, hostClock)
  BY <1>3, FadeKeeps
<1>6. hostClock' \in Guards /\ hostClock'.closed = hostClock.closed
  BY <1>1, ObservedClock
<1>7. Stands(pool', bound, worker, stream, conflicts, hostClock')
  BY <1>5, <1>6 DEF Stands
<1> QED
  BY <1>1, <1>3, <1>4, <1>5, <1>6, <1>7 DEF BooksInv, GoodBooks

LEMMA DisconnectBooks ==
  ASSUME BooksInv, NEW s \in Subscribers, AA23DisconnectSubscriber(s)
  PROVE  GoodBooks
<1> DEFINE closed == [subscribers EXCEPT ![s].open = FALSE]
           rows == [closed EXCEPT ![s] = Remembered(@)]
           leaving == {a \in Active : records[a].key.sub = s}
           shut == [subscribers[s] EXCEPT !.open = FALSE]
<1>1. /\ subscribers[s] # None /\ ReleaseMasters({s}) /\ RetireRecords(leaving, rows, "Revoked", {})
      /\ UNCHANGED <<hostClock, subscriberTop, conflicts, bound, worker, stream,
                     workerTop, planTop, views, published, revoked, acks>>
  BY DEF AA23DisconnectSubscriber, binding, sent
<1>2. /\ bounds \in Bounds /\ RowsFit(subscribers, subscriberTop) /\ Counted(records, subscribers)
  BY DEF BooksInv, StorageInv
<1>3. shut \in RowWithin /\ ~shut.open /\ shut.registrations = subscribers[s].registrations /\ s <= subscriberTop
  BY <1>1, <1>2 DEF RowsFit, RowWithin
<1>4. rows = [z \in Subscribers |-> IF z = s THEN Remembered(shut) ELSE subscribers[z]]
  <2>1. subscribers = [z \in Subscribers |-> subscribers[z]]
    BY <1>2 DEF RowsFit
  <2>2. closed = [z \in Subscribers |-> IF z = s THEN shut ELSE subscribers[z]]
    BY <2>1
  <2> HIDE DEF shut, closed
  <2> QED
    BY <2>2
<1> HIDE DEF shut, closed, rows, leaving
<1>5. Remembered(shut) = IF subscribers[s].registrations = 0 THEN None ELSE shut
  BY <1>3 DEF Remembered
<1>6. shut # None
  BY <1>2, <1>3, WithinShapes
<1>7. subscribers[s].registrations = Cardinality(RegisteredBy(records, s))
  BY <1>1, <1>2 DEF Counted
<1>8. RowsFit(rows, subscriberTop)
  <2>1. \A z \in Subscribers : rows[z] # None => rows[z] \in RowWithin /\ z <= subscriberTop
    BY <1>2, <1>3, <1>4, <1>5 DEF RowsFit
  <2>2. rows = [z \in Subscribers |-> rows[z]]
    BY <1>4
  <2> QED
    BY <1>2, <2>1, <2>2 DEF RowsFit
<1>9. Counted(records, rows)
  <2>1. ASSUME NEW z \in Subscribers
        PROVE  IF rows[z] = None THEN Cardinality(RegisteredBy(records, z)) = 0
               ELSE /\ rows[z].registrations = Cardinality(RegisteredBy(records, z))
                    /\ rows[z].open \/ Cardinality(RegisteredBy(records, z)) > 0
    <3>1. CASE z = s
      <4>1. rows[z] = IF subscribers[s].registrations = 0 THEN None ELSE shut
        BY <1>4, <1>5, <3>1
      <4>2. Cardinality(RegisteredBy(records, s)) \in Nat
        BY FiniteHolders
      <4> QED
        BY <1>3, <1>6, <1>7, <3>1, <4>1, <4>2
    <3>2. CASE z # s
      BY <1>2, <1>4, <3>2 DEF Counted
    <3> QED
      BY <3>1, <3>2
  <2> QED
    BY <1>2, <2>1 DEF Counted
<1>10. "Revoked" \in Reasons /\ {} \in SUBSET Slots /\ leaving \in SUBSET Active /\ {s} \in SUBSET Subscribers
  BY DEF Reasons, leaving
<1>11. /\ PoolFits(pool') /\ RecordsFit(records') /\ RowsFit(subscribers', subscriberTop)
       /\ Counted(records', subscribers') /\ Owed(records', pool') /\ PublishedFits(records', pool')
       /\ Fades(pool') /\ \A z \in Subscribers : OpenIn(rows, z) => OpenIn(subscribers', z)
  BY <1>1, <1>8, <1>9, <1>10, RetireBooks
<1>12. /\ MastersFit(masters', masterCount', subscribers)
       /\ \A m \in Initiators : masters'[m] # None => masters'[m] \in Subscribers \ {s}
  BY <1>1, <1>10, ReleasedMasters
<1>13. MastersFit(masters', masterCount', subscribers')
  <2>1. \A z \in Subscribers \ {s} : OpenIn(subscribers, z) => OpenIn(subscribers', z)
    BY <1>4, <1>11 DEF OpenIn
  <2> QED
    BY <1>12, <2>1 DEF MastersFit
<1>14. Generations(pool', workerTop, planTop) /\ Stands(pool', bound, worker, stream, conflicts, hostClock)
  BY <1>11, FadeKeeps
<1> QED
  BY <1>1, <1>11, <1>13, <1>14 DEF BooksInv, GoodBooks

-----------------------------------------------------------------------------
(* The books: publication, acknowledgement and the worker's end.           *)

\* One slot is replaced by one that can be read as little as it could.
LEMMA QuietSlot ==
  ASSUME BooksInv, NEW i \in Slots, NEW t, pool' = [pool EXCEPT ![i] = t], SlotFits(t),
         t.state \notin Readable, pool[i].state \notin Readable
  PROVE  /\ pool' = [j \in Slots |-> IF j = i THEN t ELSE pool[j]]
         /\ PoolFits(pool') /\ Owed(records, pool') /\ PublishedFits(records, pool')
         /\ Stands(pool', bound, worker, stream, conflicts, hostClock)
<1>1. pool' = [j \in Slots |-> IF j = i THEN t ELSE pool[j]]
  BY DEF BooksInv, StorageInv, PoolOK
<1>2. PoolFits(pool')
  BY <1>1 DEF PoolFits, BooksInv
<1>3. Owed(records, pool')
  BY <1>1 DEF BooksInv, Owed, Owes, Readable
<1>4. PublishedFits(records, pool')
  <2>1. \A a \in Addresses : records[a] # None /\ records[a].published # None => records[a].published \in Slots
    BY DEF BooksInv, RecordsFit, RecordWithin
  <2> QED
    BY <1>1, <2>1 DEF BooksInv, PublishedFits, Readable
<1>5. Stands(pool', bound, worker, stream, conflicts, hostClock)
  BY <1>1 DEF BooksInv, Stands, Readable
<1> QED
  BY <1>1, <1>2, <1>3, <1>4, <1>5

LEMMA MinIsOne ==
  ASSUME NEW x \in Nat, NEW y \in Nat
  PROVE  Min({x, y}) \in {x, y}
<1>1. \E m \in {x, y} : \A n \in {x, y} : m <= n
  <2>1. CASE x <= y
    BY <2>1
  <2>2. CASE y <= x
    BY <2>2
  <2> QED
    BY <2>1, <2>2
<1> QED
  BY <1>1 DEF Min

LEMMA PrepareBooks ==
  ASSUME BooksInv, NEW a \in Addresses, NEW g \in 1 .. bounds.plan, NEW t \in Deadlines, NEW i \in Slots,
         NEW now \in Ticks, AA23PreparePlan(a, g, t, i, now)
  PROVE  GoodBooks
<1> DEFINE id == [key |-> records[a].key, worker |-> worker, stream |-> stream, plan |-> g, source |-> records[a].source]
           lease == Min({records[a].lease, records[a].sourceLease})
           s == [pool[i] EXCEPT !.state = "Writing", !.id = id, !.expiry = t, !.lease = lease]
<1>1. /\ HostObserve(now) /\ bound /\ records[a] # None /\ g > planTop /\ pool[i].state = "Free" /\ planTop' = g
      /\ pool' = [pool EXCEPT ![i].state = "Writing", ![i].id = id, ![i].expiry = t, ![i].lease = lease]
      /\ UNCHANGED <<subscribers, subscriberTop, records, masters, masterCount, conflicts, bound, worker, stream,
                     workerTop, views, published, revoked, acks>>
  BY DEF AA23PreparePlan, Publishable, Active, registry, sent
<1>2. /\ bounds \in Bounds /\ PoolFits(pool) /\ RecordsFit(records) /\ Generations(pool, workerTop, planTop)
      /\ BindingFits(bound, worker, stream, workerTop, planTop)
  BY DEF BooksInv, StorageInv
<1>3. hostClock' \in Guards /\ hostClock'.closed = hostClock.closed
  BY <1>1, ObservedClock
<1>4. records[a] \in RecordWithin
  BY <1>1, <1>2 DEF RecordsFit
<1>5. id \in Identities /\ id.worker = worker /\ id.plan = g
  BY <1>1, <1>2, <1>4 DEF Identities, RecordWithin, BindingFits
<1>6. lease \in Deadlines
  <2>1. records[a].lease \in Deadlines /\ records[a].sourceLease \in Deadlines
    BY <1>4 DEF RecordWithin
  <2>2. Deadlines \subseteq Nat
    BY <1>2, BoundsAreNatural
  <2> QED
    BY <2>1, <2>2, MinIsOne
<1>7. t \in 0 .. bounds.tick + 1 /\ lease \in 0 .. bounds.tick + 1
  BY <1>2, <1>6, BoundsAre DEF Deadlines
<1> HIDE DEF id, lease
<1>8. pool' = [pool EXCEPT ![i] = s]
  BY <1>1 DEF BooksInv, StorageInv, PoolOK
<1>9. SlotFits(s) /\ s.state = "Writing" /\ s.id = id
  BY <1>2, <1>5, <1>7 DEF PoolFits, SlotFits, SlotWithin, States
<1> HIDE DEF s
<1>10. /\ pool' = [j \in Slots |-> IF j = i THEN s ELSE pool[j]]
       /\ PoolFits(pool') /\ Owed(records, pool') /\ PublishedFits(records, pool')
       /\ Stands(pool', bound, worker, stream, conflicts, hostClock)
  BY <1>1, <1>8, <1>9, QuietSlot DEF Readable
<1>11. Stands(pool', bound, worker, stream, conflicts, hostClock')
  BY <1>3, <1>10 DEF Stands
<1>12. g \in Nat /\ planTop \in Nat /\ g \in 0 .. bounds.plan /\ worker = workerTop /\ workerTop \in Nat
  BY <1>2, BoundsAre DEF BindingFits
<1>13. BindingFits(bound, worker, stream, workerTop, g)
  BY <1>2, <1>12 DEF BindingFits
<1>14. Generations(pool', workerTop, g)
  <2>1. ASSUME NEW j \in Slots, pool[j].id # None
        PROVE  /\ pool[j].id.worker <= workerTop
               /\ pool[j].id.worker = workerTop => pool[j].id.plan < g /\ pool[j].id.plan <= g /\ pool[j].id.plan # g
    <3>1. pool[j].id \in Identities
      BY <1>2, <2>1 DEF PoolFits, SlotFits, SlotWithin
    <3>2. pool[j].id.plan \in Nat
      BY <1>2, <3>1, BoundsAre DEF Identities
    <3>3. pool[j].id.worker <= workerTop /\ (pool[j].id.worker = workerTop => pool[j].id.plan <= planTop)
      BY <1>2, <2>1 DEF Generations
    <3> QED
      BY <1>1, <1>12, <3>2, <3>3
  <2>2. pool'[i].id = id /\ \A j \in Slots \ {i} : pool'[j] = pool[j]
    BY <1>9, <1>10
  <2>3. id.worker <= workerTop /\ id.plan <= g
    BY <1>5, <1>12
  <2>4. \A j \in Slots : pool'[j].id # None =>
          pool'[j].id.worker <= workerTop /\ (pool'[j].id.worker = workerTop => pool'[j].id.plan <= g)
    BY <2>1, <2>2, <2>3
  <2>5. \A j, k \in Slots : j # k /\ pool'[j].id # None /\ pool'[k].id # None =>
          pool'[j].id.worker # pool'[k].id.worker \/ pool'[j].id.plan # pool'[k].id.plan
    <3>1. \A j \in Slots \ {i} : pool[j].id # None => pool[j].id.worker # id.worker \/ pool[j].id.plan # id.plan
      BY <1>5, <1>12, <2>1
    <3>2. \A j, k \in Slots \ {i} : j # k /\ pool[j].id # None /\ pool[k].id # None =>
            pool[j].id.worker # pool[k].id.worker \/ pool[j].id.plan # pool[k].id.plan
      BY <1>2 DEF Generations
    <3> QED
      BY <2>2, <3>1, <3>2
  <2> QED
    BY <2>4, <2>5 DEF Generations
<1> QED
  BY <1>1, <1>3, <1>10, <1>11, <1>13, <1>14 DEF BooksInv, GoodBooks

LEMMA PublishBooks ==
  ASSUME BooksInv, NEW i \in Slots, NEW now \in Ticks, AA23PublishPrepared(i, now)
  PROVE  GoodBooks
<1> DEFINE id == pool[i].id
           a == id.key.addr
           previous == records[a].published
           rec == [records[a] EXCEPT !.published = i, !.publishTop = id.plan]
<1>1. /\ HostObserve(now) /\ ~hostClock.closed /\ pool[i].state = "Writing"
      /\ bound /\ id.worker = worker /\ id.stream = stream
      /\ records[a] # None /\ records[a].state = "Active" /\ records[a].key = id.key /\ records[a].source = id.source
      /\ a \notin conflicts
  BY DEF AA23PublishPrepared, HostSound, Sound, Current, Publishable, Active
<1>2. /\ pool' = [j \in Slots |-> CASE j = i -> [pool[i] EXCEPT !.state = "Published"]
                                    [] j # i /\ j = previous -> RetiredSlot(pool[j], "Superseded")
                                    [] OTHER -> pool[j]]
      /\ records' = [records EXCEPT ![a].published = i, ![a].publishTop = id.plan]
      /\ published' = published \cup {[ref |-> Ref(i), id |-> id]}
  BY DEF AA23PublishPrepared
<1>same. UNCHANGED <<subscribers, subscriberTop, masters, masterCount, conflicts, bound, worker, stream,
                     workerTop, planTop, views, revoked, acks>>
  BY DEF AA23PublishPrepared, binding
<1> HIDE DEF id, a, previous, rec
<1>slots. /\ pool'[i] = [pool[i] EXCEPT !.state = "Published"]
          /\ \A j \in Slots \ {i} : j # previous => pool'[j] = pool[j]
  BY <1>2
<1>retired. ASSUME NEW j \in Slots, j # i, j = previous PROVE pool'[j] = RetiredSlot(pool[j], "Superseded")
  BY <1>2, <1>retired
<1>3. /\ bounds \in Bounds /\ PoolFits(pool) /\ RecordsFit(records) /\ PublishedFits(records, pool)
      /\ Owed(records, pool) /\ Counted(records, subscribers) /\ records = [b \in Addresses |-> records[b]]
      /\ Stands(pool, bound, worker, stream, conflicts, hostClock)
  BY DEF BooksInv, StorageInv, RecordsOK
<1>4. hostClock' \in Guards /\ hostClock'.closed = hostClock.closed
  BY <1>1, ObservedClock
<1>5. SlotFits(pool[i]) /\ id \in Identities /\ a \in Addresses /\ id.plan \in 0 .. bounds.plan
  <2>1. SlotFits(pool[i]) /\ id \in Identities
    BY <1>1, <1>3 DEF PoolFits, SlotFits, id
  <2> QED
    BY <1>3, <2>1, BoundsAre DEF Identities, Keys, a
<1>6. rec \in RecordWithin /\ rec.key = id.key /\ rec.state = "Active" /\ rec.published = i
      /\ rec.publishTop = id.plan /\ rec.source = id.source /\ rec # None
  <2>1. records[a] \in RecordWithin
    BY <1>1, <1>3, <1>5 DEF RecordsFit
  <2>2. /\ rec \in RecordWithin /\ rec.key = records[a].key /\ rec.state = records[a].state
        /\ rec.published = i /\ rec.publishTop = id.plan /\ rec.source = records[a].source
    BY <1>5, <2>1 DEF RecordWithin, rec
  <2> QED
    BY <1>1, <1>3, <2>2, WithinShapes
<1>7. records' = [b \in Addresses |-> IF b = a THEN rec ELSE records[b]]
  BY <1>2, <1>3 DEF rec
<1>8. /\ SlotFits(pool'[i]) /\ pool'[i].state = "Published" /\ pool'[i].id = id
  <2>1. pool[i] \in SlotWithin /\ pool[i].id \in Identities
    BY <1>5 DEF SlotFits, id
  <2>2. pool'[i] \in SlotWithin /\ pool'[i].state = "Published" /\ pool'[i].id = pool[i].id
    BY <1>slots, <2>1 DEF SlotWithin, States
  <2> QED
    BY <2>1, <2>2 DEF SlotFits, id
<1>9. previous # None => /\ previous \in Slots \ {i} /\ pool[previous].state = "Published"
                         /\ pool[previous].id.key.addr = a
  <2>1. previous # None => pool[previous].state = "Published" /\ pool[previous].id.key = records[a].key
    BY <1>1, <1>3, <1>5 DEF PublishedFits, previous
  <2>2. previous # None => previous \in Slots
    BY <1>1, <1>3, <1>5 DEF RecordsFit, RecordWithin, previous
  <2> QED
    BY <1>1, <2>1, <2>2 DEF a
<1>10. previous # None => SlotFits(pool'[previous]) /\ pool'[previous].state = "Retained"
                          /\ pool'[previous].id = pool[previous].id
  <2>1. previous # None => pool'[previous] = RetiredSlot(pool[previous], "Superseded")
    BY <1>retired, <1>9
  <2>2. "Superseded" \in Reasons
    BY DEF Reasons
  <2>3. previous # None => SlotFits(pool[previous])
    BY <1>3, <1>9 DEF PoolFits
  <2> QED
    BY <1>3, <1>9, <2>1, <2>2, <2>3, RetiredFits DEF Readable
<1>11. \A j \in Slots : j # i /\ j # previous => pool'[j] = pool[j]
  BY <1>slots
<1>12. Ref(i) \in Refs
  BY <1>5 DEF Ref, Refs, SlotFits, SlotWithin
<1>13. \A j \in Slots : /\ SlotFits(pool'[j]) /\ pool'[j].id = pool[j].id
                        /\ pool'[j].state = "Published" => j = i \/ (j # previous /\ pool[j].state = "Published")
                        /\ pool[j].state = "Retained" => pool'[j].state = "Retained"
  <2>1. ASSUME NEW j \in Slots
        PROVE  /\ SlotFits(pool'[j]) /\ pool'[j].id = pool[j].id
               /\ pool'[j].state = "Published" => j = i \/ (j # previous /\ pool[j].state = "Published")
               /\ pool[j].state = "Retained" => pool'[j].state = "Retained"
    <3>1. CASE j = i
      BY <1>1, <1>8, <3>1 DEF id
    <3>2. CASE j # i /\ j = previous
      <4>1. previous # None
        BY <3>2, SlotsAssumption
      <4> QED
        BY <1>9, <1>10, <3>2, <4>1
    <3>3. CASE j # i /\ j # previous
      BY <1>3, <1>11, <3>3 DEF PoolFits
    <3> QED
      BY <3>1, <3>2, <3>3
  <2> QED
    BY <2>1
<1>14. PoolFits(pool') /\ Generations(pool', workerTop, planTop)
  BY <1>13, GenerationsFade DEF PoolFits
<1>15. RecordsFit(records') /\ SameHolders(records, records')
  <2>1. records[a] # None /\ rec.key = records[a].key /\ rec # None
    BY <1>1, <1>6
  <2> QED
    BY <1>3, <1>6, <1>7, <2>1 DEF RecordsFit, SameHolders
<1>16. Counted(records', subscribers)
  BY <1>3, <1>15, CountedSame
<1>17. Owed(records', pool')
  <2>1. Owed(records, pool')
    BY <1>3, <1>13 DEF Owed, Owes
  <2> QED
    BY <1>6, <1>7, <2>1, OwedSame
<1>18. Stands(pool', bound, worker, stream, conflicts, hostClock')
  <2>1. pool[i].id.worker = worker /\ pool[i].id.stream = stream /\ pool[i].id.key.addr \notin conflicts
    BY <1>1 DEF id, a
  <2> QED
    BY <1>1, <1>3, <1>4, <1>13, <2>1, <1>same DEF Stands
<1>19. NoticesFit(published', revoked', acks')
  <2>1. NoticesFit(published, revoked, acks)
    BY DEF BooksInv
  <2>2. [ref |-> Ref(i), id |-> id] \in [ref : Refs, id : Identities]
    BY <1>5, <1>12
  <2> QED
    BY <1>2, <1>same, <2>1, <2>2 DEF NoticesFit
<1>20. PublishedFits(records', pool')
  <2>1. ASSUME NEW j \in Slots, pool'[j].state = "Published", NEW b, b = pool'[j].id.key.addr
        PROVE  /\ records'[b] # None /\ records'[b].key = pool'[j].id.key
               /\ records'[b].published = j /\ records'[b].publishTop = pool'[j].id.plan /\ records'[b].state = "Active"
               /\ records'[b].source = pool'[j].id.source
    <3>1. CASE j = i
      <4>1. pool'[j].id = id /\ b = a
        BY <1>8, <2>1, <3>1 DEF a, id
      <4>2. records'[b] = rec
        BY <1>5, <1>7, <4>1
      <4> QED
        BY <1>6, <3>1, <4>1, <4>2
    <3>2. CASE j # i
      <4>1. j # previous /\ pool[j].state = "Published" /\ pool'[j].id = pool[j].id
        BY <1>13, <2>1, <3>2
      <4>2. /\ records[b] # None /\ records[b].key = pool[j].id.key
            /\ records[b].published = j /\ records[b].publishTop = pool[j].id.plan /\ records[b].state = "Active"
            /\ records[b].source = pool[j].id.source
        BY <1>3, <2>1, <4>1 DEF PublishedFits
      <4>3. b # a
        BY <4>1, <4>2 DEF previous
      <4>4. b \in Addresses
        BY <1>3, <2>1, <4>1 DEF PoolFits, SlotFits, Identities, Keys
      <4>5. records'[b] = records[b]
        BY <1>7, <4>3, <4>4
      <4> QED
        BY <4>1, <4>2, <4>5
    <3> QED
      BY <3>1, <3>2
  <2>2. ASSUME NEW b \in Addresses, records'[b] # None, records'[b].published # None
        PROVE  pool'[records'[b].published].state = "Published" /\ pool'[records'[b].published].id.key = records'[b].key
    <3>1. CASE b = a
      <4>1. records'[b] = rec
        BY <1>7, <3>1
      <4> QED
        BY <1>6, <1>8, <4>1
    <3>2. CASE b # a
      <4>1. records'[b] = records[b]
        BY <1>7, <3>2
      <4>2. /\ records[b].published \in Slots /\ pool[records[b].published].state = "Published"
            /\ pool[records[b].published].id.key = records[b].key /\ records[b].key.addr = b
        BY <1>3, <2>2, <4>1 DEF RecordsFit, RecordWithin, PublishedFits
      <4>3. records[b].published # i /\ records[b].published # previous
        BY <1>1, <1>9, <3>2, <4>2, SlotsAssumption
      <4> QED
        BY <1>11, <4>1, <4>2, <4>3
    <3> QED
      BY <3>1, <3>2
  <2> QED
    BY <2>1, <2>2 DEF PublishedFits
<1> QED
  BY SMTT(40), <1>same, <1>4, <1>14, <1>15, <1>16, <1>17, <1>18, <1>19, <1>20 DEF BooksInv, GoodBooks

LEMMA PendingBooks ==
  ASSUME BooksInv, AA23PendingRevocations
  PROVE  GoodBooks
<1> DEFINE notices == {[ref |-> Ref(i), id |-> pool[i].id, reason |-> pool[i].reason] :
                        i \in {j \in Slots : pool[j].state = "Retained"}}
<1>1. /\ revoked' = revoked \cup notices
      /\ UNCHANGED <<hostClock, subscribers, subscriberTop, records, masters, masterCount, conflicts, bound, worker,
                     stream, workerTop, planTop, pool, views, published, acks>>
  BY DEF AA23PendingRevocations, registry, binding
<1>2. ASSUME NEW i \in Slots, pool[i].state = "Retained"
      PROVE  Ref(i) \in Refs /\ pool[i].id \in Identities /\ pool[i].reason \in Reasons
  BY <1>2 DEF BooksInv, PoolFits, SlotFits, SlotWithin, Ref, Refs
<1>3. notices \subseteq [ref : Refs, id : Identities, reason : Reasons]
  BY <1>2
<1>4. NoticesFit(published', revoked', acks')
  BY <1>1, <1>3 DEF BooksInv, NoticesFit
<1> QED
  BY <1>1, <1>4 DEF BooksInv, GoodBooks

LEMMA AcknowledgementBooks ==
  ASSUME BooksInv, NEW ack \in acks, AA23ObserveAcknowledgement(ack)
  PROVE  GoodBooks
<1> DEFINE i == ack.ref.slot
           a == pool[i].id.key.addr
           slots == [pool EXCEPT ![i].state = "Reclaimable"]
           gone == Settling(records, slots, {a})
<1>1. /\ pool[i].state = "Retained" /\ pool' = slots /\ records' = Without(records, gone)
      /\ subscribers' = Decremented(subscribers, records, gone)
      /\ UNCHANGED <<hostClock, subscriberTop, masters, masterCount, conflicts, bound, worker, stream,
                     workerTop, planTop, views, published, revoked, acks>>
  BY DEF AA23ObserveAcknowledgement, binding, sent
<1>2. /\ bounds \in Bounds /\ PoolFits(pool) /\ RecordsFit(records) /\ PublishedFits(records, pool)
      /\ Owed(records, pool) /\ Counted(records, subscribers) /\ RowsFit(subscribers, subscriberTop)
      /\ pool = [j \in Slots |-> pool[j]]
  BY DEF BooksInv, StorageInv, PoolOK
<1>3. i \in Slots
  BY DEF BooksInv, NoticesFit, Refs
<1>4. slots = [j \in Slots |-> IF j = i THEN [pool[i] EXCEPT !.state = "Reclaimable"] ELSE pool[j]]
  BY <1>2, <1>3
<1> HIDE DEF slots
<1>5. SlotFits(slots[i]) /\ slots[i].state = "Reclaimable" /\ slots[i].id = pool[i].id
  <2>1. pool[i] \in SlotWithin /\ pool[i].id \in Identities
    BY <1>1, <1>2, <1>3 DEF PoolFits, SlotFits
  <2>2. slots[i] = [pool[i] EXCEPT !.state = "Reclaimable"]
    BY <1>3, <1>4
  <2>3. slots[i] \in SlotWithin /\ slots[i].state = "Reclaimable" /\ slots[i].id = pool[i].id
    BY <2>1, <2>2 DEF SlotWithin, States
  <2> QED
    BY <2>1, <2>3 DEF SlotFits
<1>6. \A j \in Slots \ {i} : slots[j] = pool[j]
  BY <1>4
<1>7. a \in Addresses
  BY <1>1, <1>2, <1>3 DEF PoolFits, SlotFits, Identities, Keys
<1> HIDE DEF i
<1>8. PoolFits(slots) /\ Fades(slots)
  BY <1>2, <1>5, <1>6 DEF PoolFits, Fades
<1>9. PublishedFits(records, slots)
  <2>1. \A b \in Addresses : records[b] # None /\ records[b].published # None => records[b].published \in Slots
    BY <1>2 DEF RecordsFit, RecordWithin
  <2>2. \A j \in Slots : slots[j].state = "Published" => slots[j] = pool[j]
    BY <1>5, <1>6
  <2>3. \A j \in Slots : pool[j].state = "Published" => slots[j] = pool[j]
    BY <1>1, <1>6
  <2> QED
    BY <1>2, <2>1, <2>2, <2>3 DEF PublishedFits
<1>10. ASSUME NEW b \in Addresses \ {a} PROVE Owes(records, slots, b)
  <2> SUFFICES ASSUME records[b] # None, records[b].state = "Retiring"
               PROVE  \E j \in Slots : slots[j].state = "Retained" /\ slots[j].id.key = records[b].key
    BY DEF Owes
  <2>1. PICK j \in Slots : pool[j].state = "Retained" /\ pool[j].id.key = records[b].key
    BY <1>2 DEF Owed, Owes
  <2>2. records[b].key.addr = b
    BY <1>2 DEF RecordsFit
  <2> QED
    BY <1>6, <2>1, <2>2
<1>11. {a} \in SUBSET Addresses
  BY <1>7
<1> HIDE DEF a
<1>12. /\ RecordsFit(Without(records, gone)) /\ RowsFit(Decremented(subscribers, records, gone), subscriberTop)
       /\ Counted(Without(records, gone), Decremented(subscribers, records, gone))
       /\ PublishedFits(Without(records, gone), slots) /\ Owed(Without(records, gone), slots)
       /\ \A s \in Subscribers : OpenIn(subscribers, s) => OpenIn(Decremented(subscribers, records, gone), s)
  BY <1>2, <1>8, <1>9, <1>10, <1>11, SettledBooks
<1> HIDE DEF gone
<1>13. MastersFit(masters, masterCount, subscribers')
  BY <1>1, <1>12, OpenKept DEF BooksInv
<1>14. Generations(slots, workerTop, planTop) /\ Stands(slots, bound, worker, stream, conflicts, hostClock)
  BY <1>8, FadeKeeps
<1> QED
  BY <1>1, <1>8, <1>12, <1>13, <1>14 DEF BooksInv, GoodBooks

LEMMA TerminatedBooks ==
  ASSUME BooksInv, NEW w \in Workers, AA23ObserveWorkerTerminated(w)
  PROVE  GoodBooks
<1> DEFINE own == bound /\ worker = w
           writing == {i \in Slots : own /\ pool[i].state = "Writing"}
           ended == {i \in Slots : pool[i].state \in Readable /\ pool[i].id.worker = w}
           slots == [i \in Slots |->
                      IF i \in ended THEN [RetiredSlot(pool[i], "Revoked") EXCEPT !.pinned = FALSE, !.state = "Reclaimable"]
                      ELSE IF i \in writing THEN RetiredSlot(pool[i], "Revoked") ELSE pool[i]]
           recs == Unpublished(records, ended)
           candidates == {pool[i].id.key.addr : i \in ended}
           gone == Settling(recs, slots, candidates)
<1>1. /\ bound' = (bound /\ ~own) /\ pool' = slots /\ records' = Without(recs, gone)
      /\ subscribers' = Decremented(subscribers, recs, gone)
      /\ views' = [views EXCEPT ![w] = None]
      /\ UNCHANGED <<hostClock, subscriberTop, masters, masterCount, conflicts, worker, stream, workerTop, planTop,
                     published, revoked, acks>>
  BY DEF AA23ObserveWorkerTerminated, sent
<1>2. /\ bounds \in Bounds /\ PoolFits(pool) /\ RecordsFit(records) /\ Owed(records, pool)
      /\ Counted(records, subscribers) /\ RowsFit(subscribers, subscriberTop)
  BY DEF BooksInv, StorageInv
<1>3. "Revoked" \in Reasons
  BY DEF Reasons
<1>4. ASSUME NEW i \in Slots
      PROVE  /\ SlotFits(slots[i]) /\ slots[i].id \in {pool[i].id, None}
             /\ slots[i].state = "Published" => pool[i].state = "Published" /\ i \notin ended /\ slots[i].id = pool[i].id
             /\ i \notin ended /\ pool[i].state \in Readable => slots[i] = pool[i]
  <2> DEFINE t == RetiredSlot(pool[i], "Revoked")
  <2>1. SlotFits(pool[i])
    BY <1>2 DEF PoolFits
  <2>2. /\ SlotFits(t) /\ t.id \in {pool[i].id, None} /\ t.state # "Published"
        /\ pool[i].state \in Readable => t.state = "Retained" /\ t.id = pool[i].id
    BY <1>2, <1>3, <2>1, RetiredFits
  <2> HIDE DEF t
  <2>3. CASE i \in ended
    <3>1. slots[i] = [t EXCEPT !.pinned = FALSE, !.state = "Reclaimable"]
      BY <2>3 DEF t
    <3>2. t.id \in Identities
      BY <2>2, <2>3 DEF SlotFits
    <3>3. slots[i] \in SlotWithin /\ slots[i].state = "Reclaimable" /\ slots[i].id = t.id
      BY <2>2, <3>1 DEF SlotFits, SlotWithin, States
    <3> QED
      BY <2>2, <2>3, <3>2, <3>3 DEF SlotFits
  <2>4. CASE i \notin ended /\ i \in writing
    <3>1. slots[i] = t
      BY <2>4 DEF t
    <3> QED
      BY <2>2, <2>4, <3>1 DEF Readable
  <2>5. CASE i \notin ended /\ i \notin writing
    <3>1. slots[i] = pool[i]
      BY <2>5
    <3> QED
      BY <2>1, <2>5, <3>1
  <2> QED
    BY <2>3, <2>4, <2>5
<1>5. ended \in SUBSET Slots
  OBVIOUS
<1>6. candidates \in SUBSET Addresses
  BY <1>2 DEF PoolFits, SlotFits, Identities, Keys, Readable
<1> HIDE DEF slots
<1>7. RetiredOf(ended, slots) /\ PoolFits(slots) /\ Fades(slots)
  BY <1>4 DEF RetiredOf, PoolFits, Fades, Readable
<1>8. PublishedFits(recs, slots)
  BY <1>5, <1>7, PublishedKept
<1>9. ASSUME NEW a \in Addresses
      PROVE  /\ recs[a] = None <=> records[a] = None
             /\ recs[a] # None => /\ recs[a] \in RecordWithin /\ recs[a].key = records[a].key
                                  /\ recs[a].state = records[a].state
  BY <1>2, UnpublishedIs
<1> HIDE DEF recs
<1>10. RecordsFit(recs) /\ SameHolders(records, recs)
  <2>1. RecordsFit(recs)
    BY <1>2, <1>9 DEF RecordsFit
  <2>2. SameHolders(records, recs)
    BY <1>9 DEF SameHolders
  <2> QED
    BY <2>1, <2>2
<1>11. Counted(recs, subscribers)
  BY <1>2, <1>10, CountedSame
<1>12. ASSUME NEW a \in Addresses \ candidates PROVE Owes(recs, slots, a)
  <2> SUFFICES ASSUME recs[a] # None, recs[a].state = "Retiring"
               PROVE  \E i \in Slots : slots[i].state = "Retained" /\ slots[i].id.key = recs[a].key
    BY DEF Owes
  <2>1. records[a] # None /\ records[a].state = "Retiring" /\ recs[a].key = records[a].key /\ records[a].key.addr = a
    BY <1>2, <1>9 DEF RecordsFit
  <2>2. PICK i \in Slots : pool[i].state = "Retained" /\ pool[i].id.key = records[a].key
    BY <1>2, <2>1 DEF Owed, Owes
  <2>3. i \notin ended
    BY <2>1, <2>2
  <2>4. slots[i] = pool[i]
    BY <1>4, <2>2, <2>3 DEF Readable
  <2> QED
    BY <2>1, <2>2, <2>4
<1> HIDE DEF candidates
<1>13. /\ RecordsFit(Without(recs, gone)) /\ RowsFit(Decremented(subscribers, recs, gone), subscriberTop)
       /\ Counted(Without(recs, gone), Decremented(subscribers, recs, gone))
       /\ PublishedFits(Without(recs, gone), slots) /\ Owed(Without(recs, gone), slots)
       /\ \A s \in Subscribers : OpenIn(subscribers, s) => OpenIn(Decremented(subscribers, recs, gone), s)
  BY <1>2, <1>6, <1>7, <1>8, <1>10, <1>11, <1>12, SettledBooks
<1> HIDE DEF gone
<1>14. MastersFit(masters, masterCount, subscribers')
  BY <1>1, <1>13, OpenKept DEF BooksInv
<1>15. Generations(slots, workerTop, planTop) /\ Stands(slots, bound, worker, stream, conflicts, hostClock)
  BY <1>7, FadeKeeps
<1>16. Stands(slots, bound', worker, stream, conflicts, hostClock)
  <2>1. ASSUME NEW i \in Slots, slots[i].state = "Published" PROVE bound'
    <3>1. pool[i].state = "Published" /\ i \notin ended /\ slots[i].id = pool[i].id
      BY <1>4, <2>1
    <3>2. bound /\ slots[i].id.worker = worker
      BY <1>15, <2>1 DEF Stands
    <3>3. pool[i].id.worker # w
      BY <3>1 DEF Readable
    <3> QED
      BY <1>1, <3>1, <3>2, <3>3
  <2> QED
    BY <1>15, <2>1 DEF Stands
<1>17. BindingFits(bound', worker, stream, workerTop, planTop)
  <2>1. bound' \in BOOLEAN /\ (bound' => bound)
    BY <1>1
  <2>2. BindingFits(bound, worker, stream, workerTop, planTop)
    BY DEF BooksInv
  <2> QED
    BY <2>1, <2>2 DEF BindingFits
<1>18. ViewsTyped(views')
  <2>1. views' = [v \in Workers |-> IF v = w THEN None ELSE views[v]]
    BY <1>1 DEF BooksInv, StorageInv, ViewsFit
  <2> QED
    BY <2>1 DEF BooksInv, ViewsTyped, ViewTyped
<1> QED
  BY <1>1, <1>7, <1>13, <1>14, <1>15, <1>16, <1>17, <1>18 DEF BooksInv, GoodBooks

-----------------------------------------------------------------------------
(* The books: the steps of a view.                                         *)

LEMMA ViewBooks ==
  ASSUME BooksInv, NEW w \in Workers, NEW view, views' = [views EXCEPT ![w] = view], ViewTyped(view),
         Steady(pool'), NoticesFit(published, revoked, acks'),
         UNCHANGED <<hostClock, subscribers, subscriberTop, records, masters, masterCount, conflicts, bound, worker,
                     stream, workerTop, planTop, published, revoked>>
  PROVE  GoodBooks
<1>1. views' = [u \in Workers |-> IF u = w THEN view ELSE views[u]]
  BY DEF BooksInv, StorageInv, ViewsFit
<1>2. ViewsTyped(views')
  BY <1>1 DEF BooksInv, ViewsTyped
<1>3. hostClock' \in Guards /\ hostClock'.closed = hostClock.closed
  BY DEF BooksInv
<1> QED
  BY <1>2, <1>3, SteadyBooks

LEMMA ViewWithinIs ==
  ASSUME BooksInv, NEW w \in Workers, Running(w)
  PROVE  /\ views[w] \in ViewWithin
         /\ views[w].pin.active => views[w].pin.ref \in Refs /\ views[w].pin.id \in Identities
         /\ \A ref \in Refs : Known(w, ref) \in KnownWithin
<1>1. /\ views[w] \in ViewWithin
      /\ views[w].pin.active => views[w].pin.ref \in Refs /\ views[w].pin.id \in Identities
  BY DEF BooksInv, ViewsTyped, ViewTyped, Running
<1>2. ASSUME NEW ref \in Refs PROVE Known(w, ref) \in KnownWithin
  <2>1. views[w].records[ref.slot] \in KnownWithin
    BY <1>1 DEF ViewWithin, Refs
  <2>2. ref.inc \in 0 .. bounds.incarnation
    BY BoundsAre DEF Refs, BooksInv, StorageInv
  <2>3. [Unseen EXCEPT !.inc = ref.inc] \in KnownWithin
    BY <2>2 DEF Unseen, KnownWithin
  <2> QED
    BY <2>1, <2>3 DEF Known
<1> QED
  BY <1>1, <1>2

LEMMA NoPinWithin == NoPin \in PinWithin /\ ~NoPin.active
BY DEF NoPin, PinWithin

LEMMA NewViewBooks ==
  ASSUME BooksInv, NEW w \in Workers, AA23NewWorkerView(w)
  PROVE  GoodBooks
<1> DEFINE view == [stream |-> stream, clock |-> [closed |-> FALSE, last |-> 0], planTop |-> [a \in Addresses |-> 0],
                    current |-> [a \in Addresses |-> None], records |-> [i \in Slots |-> Unseen], pin |-> NoPin]
<1>1. /\ views' = [views EXCEPT ![w] = view] /\ bound
      /\ UNCHANGED <<hostClock, subscribers, subscriberTop, records, masters, masterCount, conflicts, bound, worker,
                     stream, workerTop, planTop, pool, published, revoked, acks>>
  BY DEF AA23NewWorkerView, registry, binding, sent
<1>2. stream \in 1 .. bounds.stream
  BY <1>1 DEF BooksInv, BindingFits
<1>3. 0 \in 0 .. bounds.plan /\ 0 \in 0 .. bounds.incarnation /\ 0 \in Ticks
  BY BoundsAre DEF BooksInv, StorageInv, Ticks
<1>4. Unseen \in KnownWithin
  BY <1>3 DEF Unseen, KnownWithin
<1>5. view \in ViewWithin /\ view.pin = NoPin
  BY <1>2, <1>3, <1>4, NoPinWithin DEF ViewWithin, Guards
<1> HIDE DEF view
<1>6. ViewTyped(view)
  BY <1>5, NoPinWithin DEF ViewTyped
<1>7. Steady(pool') /\ NoticesFit(published, revoked, acks')
  BY <1>1, SteadyPool DEF BooksInv
<1> QED
  BY <1>1, <1>6, <1>7, ViewBooks

LEMMA ViewClockBooks ==
  ASSUME BooksInv, NEW w \in Workers, ViewClockFault(w) \/ \E now \in Ticks : ViewReading(w, now)
  PROVE  GoodBooks
<1>1. Running(w)
  BY DEF ViewClockFault, ViewReading, ViewSound
<1>2. /\ views[w] \in ViewWithin
      /\ views[w].pin.active => views[w].pin.ref \in Refs /\ views[w].pin.id \in Identities
  BY <1>1, ViewWithinIs
<1>3. PICK clock \in Guards : views' = [views EXCEPT ![w].clock = clock]
  <2>1. views[w].clock \in Guards
    BY <1>2 DEF ViewWithin
  <2>2. CASE ViewClockFault(w)
    <3>1. views' = [views EXCEPT ![w].clock = [views[w].clock EXCEPT !.closed = TRUE]]
      BY <2>2 DEF ViewClockFault
    <3> QED
      BY <2>1, <3>1 DEF Guards
  <2>3. ASSUME NEW now \in Ticks, ViewReading(w, now) PROVE \E clock \in Guards : views' = [views EXCEPT ![w].clock = clock]
    <3>1. views' = [views EXCEPT ![w].clock = [views[w].clock EXCEPT !.last = now]]
      BY <2>3 DEF ViewReading
    <3> QED
      BY <2>1, <3>1 DEF Guards
  <2> QED
    BY <2>2, <2>3
<1> DEFINE view == [views[w] EXCEPT !.clock = clock]
<1>4. /\ views' = [views EXCEPT ![w] = view]
      /\ UNCHANGED <<hostClock, subscribers, subscriberTop, records, masters, masterCount, conflicts, bound, worker,
                     stream, workerTop, planTop, pool, published, revoked, acks>>
  BY <1>3 DEF ViewClockFault, ViewReading, registry, binding, sent
<1>5. view \in ViewWithin /\ view.pin = views[w].pin
  BY <1>2 DEF ViewWithin
<1> HIDE DEF view
<1>6. ViewTyped(view)
  BY <1>2, <1>5 DEF ViewTyped
<1>7. Steady(pool') /\ NoticesFit(published, revoked, acks')
  BY <1>4, SteadyPool DEF BooksInv
<1> QED
  BY <1>4, <1>6, <1>7, ViewBooks

LEMMA AdoptBooks ==
  ASSUME BooksInv, NEW w \in Workers, NEW notice \in published, NEW now \in Ticks, AA23AdoptPlan(w, notice, now)
  PROVE  GoodBooks
<1> DEFINE a == notice.id.key.addr
           previous == views[w].current[a]
           superseded == previous # None /\ Resolves(previous)
           known == [Known(w, previous) EXCEPT !.superseded = TRUE]
           recs == IF superseded THEN [views[w].records EXCEPT ![previous.slot] = known] ELSE views[w].records
           view == [views[w] EXCEPT !.clock.last = now, !.planTop[a] = notice.id.plan,
                                    !.current[a] = notice.ref, !.records = recs]
           new == IF superseded THEN AckOf(w, previous, pool[previous.slot].id) ELSE {}
<1>1. Running(w)
  BY DEF AA23AdoptPlan, ViewSound
<1>2. views' = [views EXCEPT ![w] = view]
  BY DEF AA23AdoptPlan
<1>3. acks' = acks \cup new
  BY DEF AA23AdoptPlan
<1>4. UNCHANGED <<hostClock, subscribers, subscriberTop, records, masters, masterCount, conflicts, bound, worker,
                  stream, workerTop, planTop, pool, published, revoked>>
  BY DEF AA23AdoptPlan, registry, binding
<1> HIDE DEF a, previous, superseded, known, recs, view, new
<1>5. notice.ref \in Refs /\ notice.id \in Identities
  BY DEF BooksInv, NoticesFit
<1>6. a \in Addresses /\ notice.id.plan \in 0 .. bounds.plan
  BY <1>5, BoundsAre DEF Identities, Keys, BooksInv, StorageInv, a
<1>7. /\ views[w] \in ViewWithin
      /\ views[w].pin.active => views[w].pin.ref \in Refs /\ views[w].pin.id \in Identities
      /\ \A ref \in Refs : Known(w, ref) \in KnownWithin
  BY <1>1, ViewWithinIs
<1>8. superseded => /\ previous \in Refs /\ previous.slot \in Slots /\ known \in KnownWithin
                    /\ pool[previous.slot].id \in Identities
  <2> SUFFICES ASSUME superseded
               PROVE  /\ previous \in Refs /\ previous.slot \in Slots /\ known \in KnownWithin
                      /\ pool[previous.slot].id \in Identities
    OBVIOUS
  <2>1. previous \in Refs /\ previous.slot \in Slots
    BY <1>6, <1>7 DEF ViewWithin, Refs, previous, superseded
  <2>2. known \in KnownWithin
    BY <1>7, <2>1 DEF KnownWithin, known
  <2>3. pool[previous.slot].state # "Free"
    BY <1>1, <1>6, ViewIs DEF BooksInv, CurrentFits, In, Resolves, previous, superseded
  <2> QED
    BY <2>1, <2>2, <2>3 DEF BooksInv, PoolFits, SlotFits
<1>9. recs \in [Slots -> KnownWithin]
  <2>1. views[w].records \in [Slots -> KnownWithin]
    BY <1>7 DEF ViewWithin
  <2> QED
    BY <1>8, <2>1 DEF recs
<1>10. view \in ViewWithin /\ view.pin = views[w].pin
  BY <1>5, <1>6, <1>7, <1>9 DEF ViewWithin, Guards, view
<1>11. ViewTyped(view)
  BY <1>7, <1>10 DEF ViewTyped
<1>12. new \subseteq [ref : Refs, id : Identities]
  BY <1>8 DEF new, AckOf
<1>13. NoticesFit(published, revoked, acks')
  BY <1>3, <1>12 DEF BooksInv, NoticesFit
<1>14. Steady(pool')
  BY <1>4, SteadyPool
<1> QED
  BY <1>2, <1>4, <1>11, <1>13, <1>14, ViewBooks

LEMMA RevocationBooks ==
  ASSUME BooksInv, NEW w \in Workers, NEW notice \in revoked, AA23ObserveRevocation(w, notice)
  PROVE  GoodBooks
<1> DEFINE i == notice.ref.slot
           a == notice.id.key.addr
           known == IF notice.reason = "Superseded" THEN [Known(w, notice.ref) EXCEPT !.superseded = TRUE]
                    ELSE [Known(w, notice.ref) EXCEPT !.revoked = TRUE]
           current == IF views[w].current[a] = notice.ref THEN None ELSE views[w].current[a]
           view == [views[w] EXCEPT !.records[i] = known, !.current[a] = current]
<1>1. Running(w) /\ acks' = acks \cup AckOf(w, notice.ref, notice.id)
  BY DEF AA23ObserveRevocation
<1>2. views' = [views EXCEPT ![w] = view]
  BY DEF AA23ObserveRevocation
<1>3. UNCHANGED <<hostClock, subscribers, subscriberTop, records, masters, masterCount, conflicts, bound, worker,
                  stream, workerTop, planTop, pool, published, revoked>>
  BY DEF AA23ObserveRevocation, registry, binding
<1> HIDE DEF i, a, known, current, view
<1>4. notice.ref \in Refs /\ notice.id \in Identities
  BY DEF BooksInv, NoticesFit
<1>5. a \in Addresses /\ i \in Slots
  BY <1>4 DEF Identities, Keys, Refs, a, i
<1>6. /\ views[w] \in ViewWithin
      /\ views[w].pin.active => views[w].pin.ref \in Refs /\ views[w].pin.id \in Identities
      /\ \A ref \in Refs : Known(w, ref) \in KnownWithin
  BY <1>1, ViewWithinIs
<1>7. known \in KnownWithin
  BY <1>4, <1>6 DEF KnownWithin, known
<1>8. current \in Refs \cup {None}
  BY <1>5, <1>6 DEF ViewWithin, current
<1>9. view \in ViewWithin /\ view.pin = views[w].pin
  BY <1>5, <1>6, <1>7, <1>8 DEF ViewWithin, view
<1>10. ViewTyped(view)
  BY <1>6, <1>9 DEF ViewTyped
<1>11. AckOf(w, notice.ref, notice.id) \subseteq [ref : Refs, id : Identities]
  BY <1>4 DEF AckOf
<1>12. NoticesFit(published, revoked, acks')
  BY <1>1, <1>11 DEF BooksInv, NoticesFit
<1>13. Steady(pool')
  BY <1>3, SteadyPool
<1> QED
  BY <1>2, <1>3, <1>10, <1>12, <1>13, ViewBooks

\* A slot whose pin is taken or dropped.
LEMMA PinnedFits ==
  ASSUME NEW s, SlotFits(s)
  PROVE  \A b \in BOOLEAN : LET t == [s EXCEPT !.pinned = b]
                            IN  SlotFits(t) /\ t.id = s.id /\ t.state = s.state
BY DEF SlotFits, SlotWithin, States

LEMMA UnpinnedSteady ==
  ASSUME BooksInv, NEW w, pool' = Unpinned(w)
  PROVE  Steady(pool')
<1>1. ASSUME NEW i \in Slots PROVE SlotFits(pool'[i]) /\ pool'[i].id = pool[i].id /\ pool'[i].state = pool[i].state
  <2>1. SlotFits(pool[i])
    BY DEF BooksInv, PoolFits
  <2>2. pool'[i] = pool[i] \/ pool'[i] = [pool[i] EXCEPT !.pinned = FALSE]
    BY DEF Unpinned
  <2>3. SlotFits([pool[i] EXCEPT !.pinned = FALSE]) /\ [pool[i] EXCEPT !.pinned = FALSE].id = pool[i].id
        /\ [pool[i] EXCEPT !.pinned = FALSE].state = pool[i].state
    BY <2>1, PinnedFits
  <2> QED
    BY <2>1, <2>2, <2>3
<1> QED
  BY <1>1 DEF Steady, PoolFits

LEMMA AdvanceStreamBooks ==
  ASSUME BooksInv, NEW w \in Workers, NEW st \in 1 .. bounds.stream, AA23AdvanceStream(w, st)
  PROVE  GoodBooks
<1> DEFINE view == [views[w] EXCEPT !.stream = st, !.pin = NoPin, !.current = [a \in Addresses |-> None]]
<1>1. /\ Running(w) /\ pool' = Unpinned(w) /\ views' = [views EXCEPT ![w] = view]
      /\ UNCHANGED <<hostClock, subscribers, subscriberTop, records, masters, masterCount, conflicts, bound, worker,
                     stream, workerTop, planTop, published, revoked, acks>>
  BY DEF AA23AdvanceStream, registry, binding, sent
<1>2. views[w] \in ViewWithin
  BY <1>1, ViewWithinIs
<1>3. view \in ViewWithin /\ view.pin = NoPin
  BY <1>2, NoPinWithin DEF ViewWithin
<1> HIDE DEF view
<1>4. ViewTyped(view)
  BY <1>3, NoPinWithin DEF ViewTyped
<1>5. Steady(pool') /\ NoticesFit(published, revoked, acks')
  BY <1>1, UnpinnedSteady DEF BooksInv
<1> QED
  BY <1>1, <1>4, <1>5, ViewBooks

LEMMA ReleaseBooks ==
  ASSUME BooksInv, NEW w \in Workers, AA23Release(w)
  PROVE  GoodBooks
<1> DEFINE pin == views[w].pin
           known == Known(w, pin.ref)
           view == [views[w] EXCEPT !.pin = NoPin, !.records[pin.ref.slot] = known]
           new == IF known.superseded \/ known.revoked THEN {[ref |-> pin.ref, id |-> pin.id]} ELSE {}
<1>1. /\ Running(w) /\ pin.active /\ pool' = Unpinned(w) /\ views' = [views EXCEPT ![w] = view] /\ acks' = acks \cup new
      /\ UNCHANGED <<hostClock, subscribers, subscriberTop, records, masters, masterCount, conflicts, bound, worker,
                     stream, workerTop, planTop, published, revoked>>
  BY DEF AA23Release, registry, binding
<1> HIDE DEF pin, known, view, new
<1>2. /\ views[w] \in ViewWithin /\ pin.ref \in Refs /\ pin.id \in Identities /\ known \in KnownWithin
  BY <1>1, ViewWithinIs DEF pin, known
<1>3. pin.ref.slot \in Slots
  BY <1>2 DEF Refs
<1>4. view \in ViewWithin /\ view.pin = NoPin
  BY <1>2, <1>3, NoPinWithin DEF ViewWithin, view
<1>5. ViewTyped(view)
  BY <1>4, NoPinWithin DEF ViewTyped
<1>6. new \subseteq [ref : Refs, id : Identities]
  BY <1>2 DEF new
<1>7. NoticesFit(published, revoked, acks')
  BY <1>1, <1>6 DEF BooksInv, NoticesFit
<1>8. Steady(pool')
  BY <1>1, UnpinnedSteady
<1> QED
  BY <1>1, <1>5, <1>7, <1>8, ViewBooks

LEMMA SelectBooks ==
  ASSUME BooksInv, NEW w \in Workers, NEW a \in Addresses, NEW now \in Ticks, AA23SelectProvisional(w, a, now)
  PROVE  GoodBooks
<1> DEFINE ref == views[w].current[a]
           i == ref.slot
           pin == [active |-> TRUE, ref |-> ref, id |-> pool[i].id]
           view == [views[w] EXCEPT !.clock.last = now, !.pin = pin]
           slot == [pool[i] EXCEPT !.pinned = TRUE]
<1>1. /\ Running(w) /\ ref # None /\ pool[i].state \in Readable
      /\ pool' = [pool EXCEPT ![i] = slot] /\ views' = [views EXCEPT ![w] = view]
      /\ UNCHANGED <<hostClock, subscribers, subscriberTop, records, masters, masterCount, conflicts, bound, worker,
                     stream, workerTop, planTop, published, revoked, acks>>
  BY DEF AA23SelectProvisional, ViewSound, registry, binding, sent
<1> HIDE DEF ref, i, pin, view, slot
<1>2. views[w] \in ViewWithin
  BY <1>1, ViewWithinIs
<1>3. ref \in Refs /\ i \in Slots
  BY <1>1, <1>2 DEF ViewWithin, Refs, ref, i
<1>4. SlotFits(pool[i]) /\ pool[i].id \in Identities
  BY <1>1, <1>3 DEF BooksInv, PoolFits, SlotFits, Readable
<1>5. pin \in PinWithin /\ pin.ref = ref /\ pin.id = pool[i].id
  BY <1>3, <1>4 DEF PinWithin, pin
<1>6. view \in ViewWithin /\ view.pin = pin
  BY <1>2, <1>5 DEF ViewWithin, Guards, view
<1>7. ViewTyped(view)
  BY <1>3, <1>4, <1>5, <1>6 DEF ViewTyped
<1>8. SlotFits(slot) /\ slot.id = pool[i].id /\ slot.state = pool[i].state
  BY <1>4, PinnedFits DEF slot
<1>9. Steady(pool')
  <2>1. pool' = [j \in Slots |-> IF j = i THEN slot ELSE pool[j]]
    BY <1>1, <1>3 DEF BooksInv, StorageInv, PoolOK
  <2>2. \A j \in Slots : SlotFits(pool'[j]) /\ pool'[j].id = pool[j].id /\ pool'[j].state = pool[j].state
    BY <1>8, <2>1 DEF BooksInv, PoolFits
  <2> QED
    BY <2>2 DEF Steady, PoolFits
<1>10. NoticesFit(published, revoked, acks')
  BY <1>1 DEF BooksInv
<1> QED
  BY <1>1, <1>7, <1>9, <1>10, ViewBooks

-----------------------------------------------------------------------------
(* The books: the theorem.                                                 *)

LEMMA InitBooks ==
  ASSUME Init
  PROVE  BooksInv
<1>1. StorageInv /\ bounds \in Bounds
  BY InitStorage DEF StorageInv
<1>2. /\ 0 \in 0 .. bounds.tick + 1 /\ 1 \in 1 .. bounds.incarnation /\ 0 \in Ticks /\ 0 \in 0 .. bounds.subscriber
      /\ 0 \in 0 .. bounds.worker /\ 0 \in 0 .. bounds.stream /\ 0 \in 0 .. bounds.plan /\ Subscribers \subseteq Nat
  BY <1>1, BoundsAre DEF Ticks, Subscribers
<1>3. SlotFits(FreeSlot(1)) /\ FreeSlot(1).state = "Free" /\ FreeSlot(1).id = None
  BY <1>2 DEF FreeSlot, SlotFits, SlotWithin, States, Reasons
<1>4. \A i \in Slots : pool[i] = FreeSlot(1)
  BY DEF Init
<1>5. \A a \in Addresses : records[a] = None
  BY DEF Init
<1>6. PoolFits(pool) /\ RecordsFit(records) /\ Owed(records, pool) /\ PublishedFits(records, pool)
  BY <1>3, <1>4, <1>5 DEF PoolFits, RecordsFit, Owed, Owes, PublishedFits
<1>7. /\ Stands(pool, bound, worker, stream, conflicts, hostClock) /\ Generations(pool, workerTop, planTop)
  BY <1>3, <1>4 DEF Stands, Generations
<1>8. RowsFit(subscribers, subscriberTop) /\ ViewsTyped(views) /\ NoticesFit(published, revoked, acks)
  BY <1>2 DEF Init, RowsFit, ViewsTyped, ViewTyped, NoticesFit
<1>9. BindingFits(bound, worker, stream, workerTop, planTop)
  BY <1>2 DEF Init, BindingFits
<1>10. hostClock \in Guards /\ conflicts \subseteq Addresses \cup Initiators
  BY <1>2 DEF Init, Guards
<1>11. Counted(records, subscribers)
  <2>1. Registered(records) = {} /\ \A s \in Subscribers : RegisteredBy(records, s) = {}
    BY <1>5 DEF Registered, RegisteredBy
  <2>2. \A s \in Subscribers : subscribers[s] = None
    BY DEF Init
  <2> QED
    BY <2>1, <2>2, FS_EmptySet, LimitsAssumption DEF Counted
<1>12. MastersFit(masters, masterCount, subscribers)
  <2>1. Bound(masters) = {} /\ masters \in [Initiators -> Subscribers \cup {None}] /\ masterCount = 0
    BY DEF Init, Bound
  <2>2. \A m \in Initiators : masters[m] = None
    BY DEF Init
  <2> QED
    BY <2>1, <2>2, FS_EmptySet, LimitsAssumption DEF MastersFit
<1> QED
  BY <1>1, <1>6, <1>7, <1>8, <1>9, <1>10, <1>11, <1>12 DEF BooksInv

LEMMA TimedBooks ==
  ASSUME BooksInv, NEW now \in Ticks, HostTimedNext(now)
  PROVE  GoodBooks
<1>1. CASE HostReading(now)
  BY <1>1, ReadingBooks
<1>2. CASE AA23ExpireDue(now)
  BY <1>2, ExpireBooks
<1>3. ASSUME NEW a \in Addresses, NEW t \in Deadlines, NEW s \in Subscribers, NEW e \in 1 .. bounds.epoch,
             NEW x \in 1 .. bounds.source, NEW u \in Deadlines, AA23Register(s, a, e, x, t, u, now)
      PROVE  GoodBooks
  BY <1>3, RegisterBooks
<1>4. ASSUME NEW a \in Addresses, NEW t \in Deadlines, AA23RenewRegistration(a, t, now) PROVE GoodBooks
  BY <1>4, RenewBooks
<1>5. ASSUME NEW a \in Addresses, NEW t \in Deadlines, NEW x \in 1 .. bounds.source, AA23AdvanceSource(a, x, t, now)
      PROVE  GoodBooks
  BY <1>5, AdvanceSourceBooks
<1>6. ASSUME NEW a \in Addresses, NEW t \in Deadlines, NEW g \in 1 .. bounds.plan, NEW i \in Slots,
             AA23PreparePlan(a, g, t, i, now)
      PROVE  GoodBooks
  BY <1>6, PrepareBooks
<1>7. ASSUME NEW i \in Slots, AA23PublishPrepared(i, now) PROVE GoodBooks
  BY <1>7, PublishBooks
<1>8. ASSUME NEW i \in Slots, PublishStale(i, now) PROVE GoodBooks
  BY <1>8, GivesBackBooks
<1> QED
  BY <1>1, <1>2, <1>3, <1>4, <1>5, <1>6, <1>7, <1>8 DEF HostTimedNext

LEMMA HostBooks ==
  ASSUME BooksInv, HostNext
  PROVE  GoodBooks
<1>1. CASE HostClockFault
  BY <1>1, ClockFaultBooks
<1>2. CASE AA23OpenSubscriber
  BY <1>2, OpenSubscriberBooks
<1>3. CASE AA23Reset
  BY <1>3, ResetBooks
<1>4. CASE AA23PendingRevocations
  BY <1>4, PendingBooks
<1>5. ASSUME NEW now \in Ticks, HostTimedNext(now) PROVE GoodBooks
  BY <1>5, TimedBooks
<1>6. ASSUME NEW s \in Subscribers, AA23DisconnectSubscriber(s) PROVE GoodBooks
  BY <1>6, DisconnectBooks
<1>7. ASSUME NEW s \in Subscribers, NEW m \in Initiators, AA23BindMaster(s, m) PROVE GoodBooks
  BY <1>7, BindMasterBooks
<1>8. ASSUME NEW s \in Subscribers, NEW m \in Initiators, AA23ReleaseMaster(s, m) PROVE GoodBooks
  BY <1>8, ReleaseMasterBooks
<1>9. ASSUME NEW a \in Addresses, AA23Unregister(a) PROVE GoodBooks
  BY <1>9, UnregisterBooks
<1>10. ASSUME NEW a \in bounds.addresses, AA23MarkPhysicalConflict(a) PROVE GoodBooks
  <2>1. a \in Addresses \cup Initiators
    BY BoundsAre DEF BooksInv, StorageInv
  <2> QED
    BY <1>10, <2>1, ConflictBooks
<1>11. ASSUME NEW a \in bounds.addresses, AA23ClearPhysicalConflict(a) PROVE GoodBooks
  BY <1>11, ClearBooks
<1>12. ASSUME NEW w \in Workers, NEW st \in 1 .. bounds.stream, AA23BindWorker(w, st) PROVE GoodBooks
  BY <1>12, BindWorkerBooks
<1>13. ASSUME NEW w \in Workers, AA23ObserveWorkerTerminated(w) PROVE GoodBooks
  BY <1>13, TerminatedBooks
<1>14. ASSUME NEW i \in Slots, AA23AbortPrepared(i) \/ AA23Reclaim(i) PROVE GoodBooks
  <2>1. 0 \in Ticks
    BY BoundsAre DEF BooksInv, StorageInv, Ticks
  <2> QED
    BY <1>14, <2>1, GivesBackBooks
<1>15. ASSUME NEW ack \in acks, AA23ObserveAcknowledgement(ack) PROVE GoodBooks
  BY <1>15, AcknowledgementBooks
<1> QED
  BY <1>1, <1>2, <1>3, <1>4, <1>5, <1>6, <1>7, <1>8, <1>9, <1>10, <1>11, <1>12, <1>13, <1>14, <1>15 DEF HostNext

LEMMA ViewNextBooks ==
  ASSUME BooksInv, NEW w \in Workers, ViewNext(w)
  PROVE  GoodBooks
<1>1. CASE AA23NewWorkerView(w)
  BY <1>1, NewViewBooks
<1>2. CASE ViewClockFault(w)
  BY <1>2, ViewClockBooks
<1>3. CASE AA23Release(w)
  BY <1>3, ReleaseBooks
<1>4. ASSUME NEW st \in 1 .. bounds.stream, AA23AdvanceStream(w, st) PROVE GoodBooks
  BY <1>4, AdvanceStreamBooks
<1>5. ASSUME NEW notice \in revoked, AA23ObserveRevocation(w, notice) PROVE GoodBooks
  BY <1>5, RevocationBooks
<1>6. ASSUME NEW now \in Ticks, ViewReading(w, now) PROVE GoodBooks
  BY <1>6, ViewClockBooks
<1>7. ASSUME NEW now \in Ticks, NEW notice \in published, AA23AdoptPlan(w, notice, now) PROVE GoodBooks
  BY <1>7, AdoptBooks
<1>8. ASSUME NEW now \in Ticks, NEW a \in Addresses, AA23SelectProvisional(w, a, now) PROVE GoodBooks
  BY <1>8, SelectBooks
<1> QED
  BY <1>1, <1>2, <1>3, <1>4, <1>5, <1>6, <1>7, <1>8 DEF ViewNext

LEMMA NextBooks ==
  ASSUME BooksInv, [Next]_vars
  PROVE  BooksInv'
<1>1. StorageInv'
  BY NextStorage DEF BooksInv
<1>2. UNCHANGED bounds
  BY DEF Next, vars
<1>3. GoodBooks
  <2>1. CASE Next
    BY <2>1, HostBooks, ViewNextBooks DEF Next
  <2>2. CASE UNCHANGED vars
    <3>1. UNCHANGED <<hostClock, subscribers, subscriberTop, records, masters, masterCount, conflicts, bound, worker,
                      stream, workerTop, planTop, pool, views, published, revoked, acks>>
      BY <2>2 DEF vars, registry, binding, sent
    <3> QED
      BY <3>1 DEF BooksInv, GoodBooks
  <2> QED
    BY <2>1, <2>2
<1> QED
  BY <1>1, <1>2, <1>3, BooksKept

LEMMA BooksTyped ==
  ASSUME BooksInv
  PROVE  TypeOK
<1>1. bounds \in Bounds
  BY DEF BooksInv, StorageInv
<1>2. \A s \in Subscribers : subscribers[s] = None
        \/ subscribers[s] \in [open : BOOLEAN, epochHigh : 0 .. bounds.epoch, registrations : 0 .. MaxRegistrations]
  <2>1. ASSUME NEW s \in Subscribers, subscribers[s] # None
        PROVE  subscribers[s] \in [open : BOOLEAN, epochHigh : 0 .. bounds.epoch, registrations : 0 .. MaxRegistrations]
    <3>1. subscribers[s] \in RowWithin /\ subscribers[s].registrations = Cardinality(RegisteredBy(records, s))
      BY <2>1 DEF BooksInv, RowsFit, Counted
    <3>2. Cardinality(Registered(records)) <= MaxRegistrations
      BY DEF BooksInv, Counted
    <3>3. subscribers[s].registrations \in 0 .. MaxRegistrations
      BY <3>1, <3>2, FiniteHolders, LimitsAssumption
    <3> QED
      BY <3>1, <3>3 DEF RowWithin
  <2> QED
    BY <2>1
<1>3. subscriberTop \in 0 .. bounds.subscriber
  BY DEF BooksInv, RowsFit
<1>4. \A a \in Addresses : records[a] = None \/ (records[a] \in RecordWithin /\ records[a].key.addr = a)
  BY DEF BooksInv, RecordsFit
<1>5. masters \in [Initiators -> Subscribers \cup {None}] /\ masterCount \in 0 .. MaxMasters
  <2>1. masterCount = Cardinality(Bound(masters)) /\ masterCount <= MaxMasters
        /\ masters \in [Initiators -> Subscribers \cup {None}]
    BY DEF BooksInv, MastersFit
  <2> QED
    BY <2>1, FiniteBound, LimitsAssumption
<1>6. /\ hostClock \in Guards /\ conflicts \subseteq Addresses \cup Initiators
      /\ bound \in BOOLEAN /\ worker \in 0 .. bounds.worker /\ stream \in 0 .. bounds.stream
      /\ workerTop \in 0 .. bounds.worker /\ planTop \in 0 .. bounds.plan
  BY DEF BooksInv, BindingFits
<1>7. pool \in [Slots -> SlotWithin]
  BY DEF BooksInv, StorageInv, PoolOK, PoolFits, SlotFits
<1>8. \A w \in Workers : views[w] = None \/ views[w] \in ViewWithin
  BY DEF BooksInv, ViewsTyped, ViewTyped
<1>9. /\ published \subseteq [ref : Refs, id : Identities] /\ revoked \subseteq [ref : Refs, id : Identities, reason : Reasons]
      /\ acks \subseteq [ref : Refs, id : Identities]
  BY DEF BooksInv, NoticesFit
<1> QED
  BY <1>1, <1>2, <1>3, <1>4, <1>5, <1>6, <1>7, <1>8, <1>9
     DEF TypeOK, RecordWithin, SlotWithin, States, ViewWithin, KnownWithin, PinWithin

LEMMA BooksImplied ==
  ASSUME BooksInv
  PROVE  BooksAgree
<1>1. RetiringIsOwed
  BY DEF BooksInv, Owed, Owes, RetiringIsOwed
<1>2. OneCurrentPlan
  <2>1. \A i \in Slots : pool[i].state = "Published" =>
          LET r == records[pool[i].id.key.addr]
          IN  /\ r.published = i /\ r.publishTop = pool[i].id.plan /\ r.state = "Active" /\ r.source = pool[i].id.source
    BY DEF BooksInv, PublishedFits
  <2>2. \A i \in Slots : pool[i].state = "Published" =>
          /\ bound /\ pool[i].id.worker = worker /\ pool[i].id.stream = stream
          /\ pool[i].id.key.addr \notin conflicts /\ ~hostClock.closed
    BY DEF BooksInv, Stands
  <2>3. \A a \in Addresses : records[a] # None /\ records[a].published # None => pool[records[a].published].state = "Published"
    BY DEF BooksInv, PublishedFits
  <2> QED
    BY <2>1, <2>2, <2>3 DEF OneCurrentPlan
<1>3. GenerationsDiffer
  BY DEF BooksInv, Generations, GenerationsDiffer
<1>4. CountsExact
  <2>1. \A s \in Subscribers : IF subscribers[s] = None THEN Cardinality(RegisteredBy(records, s)) = 0
          ELSE /\ subscribers[s].registrations = Cardinality(RegisteredBy(records, s))
               /\ subscribers[s].open \/ Cardinality(RegisteredBy(records, s)) > 0
    BY DEF BooksInv, Counted
  <2>2. /\ masterCount = Cardinality(Bound(masters))
        /\ \A m \in Initiators : masters[m] # None => OpenIn(subscribers, masters[m])
    BY DEF BooksInv, MastersFit
  <2> QED
    BY <2>1, <2>2 DEF CountsExact, RegisteredBy, Bound, OpenIn, Open
<1> QED
  BY <1>1, <1>2, <1>3, <1>4, BooksTyped DEF BooksAgree

\* The registry's books agree with the pool through every interleaving of the registry's
\* operations with late, repeated and reordered notices and acknowledgements: what aa23Retire
\* leaves retiring is owed an acknowledgement, the plan a registration calls current is the one
\* published for its address, no generation is given out twice, and aa23Settle and
\* aa23ForgetClosedSubscriber keep the counters exact.
THEOREM BooksAreKept == Spec => []BooksAgree
<1>1. Init => BooksInv
  BY InitBooks
<1>2. BooksInv /\ [Next]_vars => BooksInv'
  BY NextBooks
<1>3. BooksInv => BooksAgree
  BY BooksImplied
<1> QED
  BY <1>1, <1>2, <1>3, PTL DEF Spec
=============================================================================
