----------------------------- MODULE Aa23Plans -----------------------------
(***************************************************************************)
(* localworker/aa23_plans.go: the host's registry and plan pool, and the   *)
(* views that worker processes have of the pool.                           *)
(*                                                                         *)
(* Registry and views exchange only publish notices, revocation notices    *)
(* and acknowledgements.  All three are kept once sent, so each may arrive *)
(* late, twice, out of order or never.  A worker that is neither scheduled *)
(* nor known to be dead simply takes no step.                              *)
(*                                                                         *)
(* A plan is its identity; the entries it holds are PlanCandidate's        *)
(* subject.  An operation that is refused changes nothing but the clock    *)
(* guard, which is HostReading or ViewReading.  Readings of another clock  *)
(* domain are Foreign.  The counters stop at a bound as the code's at      *)
(* MaxUint64.                                                              *)
(***************************************************************************)
EXTENDS Naturals, FiniteSets, FiniteSetsExt

CONSTANTS
  Addresses,          \* target addresses
  Initiators,         \* initiator addresses
  Slots,              \* AA23MaxPlanSlots of them
  MaxSubscribers, MaxRegistrations, MaxMasters, MaxLeaseTicks,   \* AA23Limits
  Bounds,             \* a behaviour is bounded by one of these records
  None

ASSUME AddressAssumption == IsFiniteSet(Addresses) /\ IsFiniteSet(Initiators) /\ Addresses \cap Initiators = {}

\* What a registration record, a subscriber's row and a plan identity consist of;
\* None is none of them.
KeyShape == [sub : Nat, addr : Addresses, epoch : Nat]
RecordShape == [state : {"Active", "Retiring"}, key : KeyShape, lease : Nat, source : Nat,
                sourceLease : Nat, published : Slots \cup {None}, publishTop : Nat]
RowShape == [open : BOOLEAN, epochHigh : Nat, registrations : Nat]
IdShape == [key : KeyShape, worker : Nat, stream : Nat, plan : Nat, source : Nat]

ASSUME SlotsAssumption == IsFiniteSet(Slots) /\ None \notin Slots \cup RecordShape
ASSUME NoneAssumption == None \notin Nat \cup RowShape \cup IdShape
ASSUME LimitsAssumption == {MaxSubscribers, MaxRegistrations, MaxMasters, MaxLeaseTicks} \subseteq Nat \ {0}
\* Readings are 0 .. tick and deadlines reach one beyond; the counters count up
\* to their bound; addresses are those in play.
ASSUME BoundsAssumption ==
  Bounds \subseteq [tick : Nat, subscriber : Nat \ {0}, epoch : Nat \ {0}, source : Nat \ {0}, worker : Nat \ {0},
                    stream : Nat \ {0}, plan : Nat \ {0}, incarnation : Nat \ {0}, addresses : SUBSET (Addresses \cup Initiators)]

VARIABLES
  bounds,
  hostClock,    \* the registry's aa23ClockGuard
  subscribers,  \* aa23Subscribers by identity, None for no row
  subscriberTop,
  records,      \* aa23Records by address, None for no record
  masters, masterCount,
  conflicts,
  bound, worker, stream, workerTop, planTop,
  pool,         \* per slot: ownership, incarnation, identity, deadlines, pin
  views,        \* per worker: its AA23WorkerView, None before it and after the worker's end
  published, revoked, acks   \* the notices and acknowledgements sent so far

registry == <<subscribers, subscriberTop, records, masters, masterCount, conflicts>>
binding == <<bound, worker, stream, workerTop, planTop>>
sent == <<published, revoked, acks>>
vars == <<bounds, hostClock, registry, binding, pool, views, sent>>

Ticks == 0 .. bounds.tick
Deadlines == 1 .. bounds.tick + 1
Subscribers == 1 .. bounds.subscriber
Workers == 1 .. bounds.worker
Readable == {"Published", "Retained"}
Reasons == {"None", "Superseded", "Expired", "Revoked"}
Rank(reason) == CASE reason = "None" -> 0 [] reason = "Superseded" -> 1
                  [] reason = "Expired" -> 2 [] reason = "Revoked" -> 3

FreeSlot(incarnation) ==
  [state |-> "Free", inc |-> incarnation, id |-> None, expiry |-> 0, lease |-> 0,
   reason |-> "None", pinned |-> FALSE]

Init ==
  /\ bounds \in Bounds
  /\ hostClock = [closed |-> FALSE, last |-> 0]
  /\ subscribers = [s \in Subscribers |-> None] /\ subscriberTop = 0
  /\ records = [a \in Addresses |-> None]
  /\ masters = [m \in Initiators |-> None] /\ masterCount = 0
  /\ conflicts = {}
  /\ bound = FALSE /\ worker = 0 /\ stream = 0 /\ workerTop = 0 /\ planTop = 0
  /\ pool = [i \in Slots |-> FreeSlot(1)]
  /\ views = [w \in Workers |-> None]
  /\ published = {} /\ revoked = {} /\ acks = {}

-----------------------------------------------------------------------------
(* The pool                                                                *)

Ref(i) == [slot |-> i, inc |-> pool[i].inc]
Resolves(ref) == pool[ref.slot].inc = ref.inc

\* An incarnation that cannot advance leaves the slot as it is.
Exhausted(s) == s.inc = bounds.incarnation
ReleasedUnchecked(s) == [FreeSlot(s.inc + 1) EXCEPT !.pinned = s.pinned]
Released(s) == IF Exhausted(s) THEN s ELSE [FreeSlot(s.inc + 1) EXCEPT !.pinned = s.pinned]
ReleasedOrStranded(s) == IF Exhausted(s) THEN [s EXCEPT !.state = "Reclaimable"] ELSE Released(s)

RetiredSlot(s, reason) ==
  CASE s.state = "Writing" -> ReleasedOrStranded(s)
    [] s.state = "Published" -> [s EXCEPT !.state = "Retained", !.reason = reason]
    [] s.state = "Retained" -> [s EXCEPT !.reason = IF Rank(reason) > Rank(@) THEN reason ELSE @]
    [] OTHER -> s

\* aa23RetireWhere, for the slots in chosen.
RetiredPool(chosen, reason) ==
  [i \in Slots |-> IF i \in chosen THEN RetiredSlot(pool[i], reason) ELSE pool[i]]

\* The records that lose their published plan with it.
UnpublishedLater(recs, chosen) == recs
Unpublished(recs, chosen) ==
  [a \in Addresses |->
    IF recs[a] # None /\ \E i \in chosen : pool[i].state = "Published" /\ pool[i].id.key = recs[a].key
    THEN [recs[a] EXCEPT !.published = None] ELSE recs[a]]

SlotsOf(key) == {i \in Slots : pool[i].id # None /\ pool[i].id.key = key}
SlotsAt(a) == {i \in Slots : pool[i].id # None /\ pool[i].id.key.addr = a}

-----------------------------------------------------------------------------
(* The clock guards: a regression or an incomparable reading closes for good. *)

Sound(guard, now) == ~guard.closed /\ now >= guard.last
HostSound(now) == Sound(hostClock, now)
HostObserve(now) == hostClock' = [hostClock EXCEPT !.last = now]

\* Whichever operation observes the fault, aa23ObserveClock retires every plan.
HostClockFault ==
  /\ ~hostClock.closed
  /\ hostClock' = [hostClock EXCEPT !.closed = TRUE]
  /\ pool' = RetiredPool(Slots, "Revoked")
  /\ records' = Unpublished(records, Slots)
  /\ UNCHANGED <<subscribers, subscriberTop, masters, masterCount, conflicts, binding, views, sent>>

HostReading(now) ==
  /\ HostSound(now) /\ HostObserve(now)
  /\ UNCHANGED <<registry, binding, pool, views, sent>>

\* aa23CheckLease
LeaseAdmitted(expiry, now) == now < expiry /\ expiry - now <= MaxLeaseTicks

-----------------------------------------------------------------------------
(* Settlement: an address is freed once no readable plan of its retiring   *)
(* key is left, and with the last one a closed subscriber's row.           *)

SettlingEagerly(recs, slots, candidates) == {a \in candidates : recs[a] # None /\ recs[a].state = "Retiring"}
SettlingAtReclaim(recs, slots, candidates) ==
  {a \in candidates :
    /\ recs[a] # None /\ recs[a].state = "Retiring"
    /\ \A i \in Slots : slots[i].id # None => slots[i].id.key # recs[a].key}
Settling(recs, slots, candidates) ==
  {a \in candidates :
    /\ recs[a] # None /\ recs[a].state = "Retiring"
    /\ \A i \in Slots : slots[i].state \in Readable => slots[i].id.key # recs[a].key}

Without(recs, gone) == [a \in Addresses |-> IF a \in gone THEN None ELSE recs[a]]

\* aa23ForgetClosedSubscriber
Remembered(row) == IF ~row.open /\ row.registrations = 0 THEN None ELSE row

DecrementedOnce(rows, recs, gone) ==
  [s \in Subscribers |-> IF rows[s] = None \/ \A a \in gone : recs[a].key.sub # s THEN rows[s]
                         ELSE Remembered([rows[s] EXCEPT !.registrations = @ - 1])]
Decremented(rows, recs, gone) ==
  [s \in Subscribers |->
    LET n == Cardinality({a \in gone : recs[a].key.sub = s})
    IN  IF rows[s] = None \/ n = 0 THEN rows[s]
        ELSE Remembered([rows[s] EXCEPT !.registrations = @ - n])]

\* aa23Retire of the active registrations at leaving; also: the slots that the
\* operation retires besides theirs.
RetireRecords(leaving, rows, reason, also) ==
  LET chosen == also \cup UNION {SlotsOf(records[a].key) : a \in leaving}
      slots == RetiredPool(chosen, reason)
      recs == [a \in Addresses |-> IF a \in leaving
                                   THEN [Unpublished(records, chosen)[a] EXCEPT !.state = "Retiring"]
                                   ELSE Unpublished(records, chosen)[a]]
      gone == Settling(recs, slots, leaving)
  IN  /\ pool' = slots
      /\ records' = Without(recs, gone)
      /\ subscribers' = Decremented(rows, recs, gone)

Active == {a \in Addresses : records[a] # None /\ records[a].state = "Active"}

-----------------------------------------------------------------------------
(* Subscribers and registrations                                           *)

Rows == {s \in Subscribers : subscribers[s] # None}
Open(s) == subscribers[s] # None /\ subscribers[s].open

AA23OpenSubscriber ==
  /\ subscriberTop < bounds.subscriber
  /\ Cardinality(Rows) < MaxSubscribers
  /\ subscriberTop' = subscriberTop + 1
  /\ subscribers' = [subscribers EXCEPT ![subscriberTop + 1] = [open |-> TRUE, epochHigh |-> 0, registrations |-> 0]]
  /\ UNCHANGED <<hostClock, records, masters, masterCount, conflicts, binding, pool, views, sent>>

AA23Register(s, a, epoch, source, expiry, sourceExpiry, now) ==
  /\ HostSound(now) /\ HostObserve(now)
  /\ records[a] = None
  /\ Open(s)
  /\ a \notin conflicts
  /\ epoch > subscribers[s].epochHigh
  /\ LeaseAdmitted(expiry, now) /\ LeaseAdmitted(sourceExpiry, now)
  /\ Cardinality({x \in Addresses : records[x] # None}) < MaxRegistrations
  /\ records' = [records EXCEPT ![a] =
       [state |-> "Active", key |-> [sub |-> s, addr |-> a, epoch |-> epoch], lease |-> expiry,
        source |-> source, sourceLease |-> sourceExpiry, published |-> None, publishTop |-> 0]]
  /\ subscribers' = [subscribers EXCEPT ![s].epochHigh = epoch, ![s].registrations = @ + 1]
  /\ UNCHANGED <<subscriberTop, masters, masterCount, conflicts, binding, pool, views, sent>>

AA23Unregister(a) ==
  /\ a \in Active
  /\ RetireRecords({a}, subscribers, "Revoked", {})
  /\ UNCHANGED <<hostClock, subscriberTop, masters, masterCount, conflicts, binding, views, sent>>

\* aa23ReleaseMastersWhere
ReleaseMasters(owners) ==
  LET gone == {m \in Initiators : masters[m] \in owners}
  IN  /\ masters' = [m \in Initiators |-> IF m \in gone THEN None ELSE masters[m]]
      /\ masterCount' = masterCount - Cardinality(gone)

AA23DisconnectSubscriber(s) ==
  /\ subscribers[s] # None
  /\ ReleaseMasters({s})
  /\ LET closed == [subscribers EXCEPT ![s].open = FALSE]
     IN  RetireRecords({a \in Active : records[a].key.sub = s},
                       [closed EXCEPT ![s] = Remembered(@)], "Revoked", {})
  /\ UNCHANGED <<hostClock, subscriberTop, conflicts, binding, views, sent>>

AA23Reset ==
  /\ ReleaseMasters(Subscribers)
  /\ RetireRecords(Active, subscribers, "Revoked", {})
  /\ UNCHANGED <<hostClock, subscriberTop, conflicts, binding, views, sent>>

AA23BindMaster(s, m) ==
  /\ Open(s)
  /\ m \notin conflicts
  /\ masters[m] = None /\ masterCount < MaxMasters
  /\ masters' = [masters EXCEPT ![m] = s]
  /\ masterCount' = masterCount + 1
  /\ UNCHANGED <<hostClock, subscribers, subscriberTop, records, conflicts, binding, pool, views, sent>>

AA23ReleaseMaster(s, m) ==
  /\ masters[m] = s
  /\ masters' = [masters EXCEPT ![m] = None]
  /\ masterCount' = masterCount - 1
  /\ UNCHANGED <<hostClock, subscribers, subscriberTop, records, conflicts, binding, pool, views, sent>>

AA23MarkPhysicalConflict(a) ==
  /\ conflicts' = conflicts \cup {a}
  /\ pool' = RetiredPool(SlotsAt(a), "Revoked")
  /\ records' = Unpublished(records, SlotsAt(a))
  /\ UNCHANGED <<hostClock, subscribers, subscriberTop, masters, masterCount, binding, views, sent>>

AA23ClearPhysicalConflict(a) ==
  /\ conflicts' = conflicts \ {a}
  /\ UNCHANGED <<hostClock, subscribers, subscriberTop, records, masters, masterCount, binding, pool, views, sent>>

RenewExtendsPlans(a, expiry, now) ==
  /\ HostSound(now) /\ HostObserve(now)
  /\ a \in Active
  /\ now < records[a].lease /\ expiry >= records[a].lease
  /\ LeaseAdmitted(expiry, now)
  /\ records' = [records EXCEPT ![a].lease = expiry]
  /\ pool' = [i \in Slots |-> IF pool[i].state = "Published" /\ i \in SlotsOf(records[a].key)
                              THEN [pool[i] EXCEPT !.lease = expiry] ELSE pool[i]]
  /\ UNCHANGED <<subscribers, subscriberTop, masters, masterCount, conflicts, binding, views, sent>>

AA23RenewRegistration(a, expiry, now) ==
  /\ HostSound(now) /\ HostObserve(now)
  /\ a \in Active
  /\ now < records[a].lease /\ expiry >= records[a].lease
  /\ LeaseAdmitted(expiry, now)
  /\ records' = [records EXCEPT ![a].lease = expiry]
  /\ UNCHANGED <<subscribers, subscriberTop, masters, masterCount, conflicts, binding, pool, views, sent>>

AA23AdvanceSource(a, source, expiry, now) ==
  /\ HostSound(now) /\ HostObserve(now)
  /\ a \in Active
  /\ source > records[a].source
  /\ LeaseAdmitted(expiry, now)
  /\ pool' = RetiredPool(SlotsOf(records[a].key), "Revoked")
  /\ records' = [Unpublished(records, SlotsOf(records[a].key)) EXCEPT ![a].source = source, ![a].sourceLease = expiry]
  /\ UNCHANGED <<subscribers, subscriberTop, masters, masterCount, conflicts, binding, views, sent>>

Valid(s, now) == now < s.expiry /\ now < s.lease

AA23ExpireDue(now) ==
  /\ HostSound(now) /\ HostObserve(now)
  /\ RetireRecords({a \in Active : now >= records[a].lease}, subscribers, "Expired",
                   {i \in Slots : pool[i].state = "Published" /\ ~Valid(pool[i], now)})
  /\ UNCHANGED <<subscriberTop, masters, masterCount, conflicts, binding, views, sent>>

-----------------------------------------------------------------------------
(* Workers                                                                 *)

AA23BindWorker(w, st) ==
  /\ w > workerTop \/ (w = workerTop /\ bound /\ st > stream)
  /\ pool' = RetiredPool(Slots, "Revoked")
  /\ LET recs == Unpublished(records, Slots)
     IN  records' = [a \in Addresses |-> IF recs[a] # None /\ w > workerTop
                                         THEN [recs[a] EXCEPT !.publishTop = 0] ELSE recs[a]]
  /\ planTop' = IF w > workerTop THEN 0 ELSE planTop
  /\ bound' = TRUE /\ worker' = w /\ workerTop' = w /\ stream' = st
  /\ UNCHANGED <<hostClock, subscribers, subscriberTop, masters, masterCount, conflicts, views, sent>>

TerminationReapsAll(w) ==
  /\ w <= workerTop
  /\ LET own == bound /\ worker = w
         writing == {i \in Slots : own /\ pool[i].state = "Writing"}
         ended == {i \in Slots : pool[i].state \in Readable}
         slots == [i \in Slots |->
                    IF i \in ended THEN [RetiredSlot(pool[i], "Revoked") EXCEPT !.pinned = FALSE, !.state = "Reclaimable"]
                    ELSE IF i \in writing THEN RetiredSlot(pool[i], "Revoked") ELSE pool[i]]
         recs == Unpublished(records, ended)
         gone == Settling(recs, slots, {pool[i].id.key.addr : i \in ended})
     IN  /\ bound' = (bound /\ ~own)
         /\ pool' = slots
         /\ records' = Without(recs, gone)
         /\ subscribers' = Decremented(subscribers, recs, gone)
  /\ views' = [views EXCEPT ![w] = None]
  /\ UNCHANGED <<hostClock, subscriberTop, masters, masterCount, conflicts, worker, stream, workerTop, planTop, sent>>

\* The supervisor has seen the worker exit: the view and its pin are gone.
AA23ObserveWorkerTerminated(w) ==
  /\ w <= workerTop
  /\ LET own == bound /\ worker = w
         writing == {i \in Slots : own /\ pool[i].state = "Writing"}
         ended == {i \in Slots : pool[i].state \in Readable /\ pool[i].id.worker = w}
         slots == [i \in Slots |->
                    IF i \in ended THEN [RetiredSlot(pool[i], "Revoked") EXCEPT !.pinned = FALSE, !.state = "Reclaimable"]
                    ELSE IF i \in writing THEN RetiredSlot(pool[i], "Revoked") ELSE pool[i]]
         recs == Unpublished(records, ended)
         gone == Settling(recs, slots, {pool[i].id.key.addr : i \in ended})
     IN  /\ bound' = (bound /\ ~own)
         /\ pool' = slots
         /\ records' = Without(recs, gone)
         /\ subscribers' = Decremented(subscribers, recs, gone)
  /\ views' = [views EXCEPT ![w] = None]
  /\ UNCHANGED <<hostClock, subscriberTop, masters, masterCount, conflicts, worker, stream, workerTop, planTop, sent>>

-----------------------------------------------------------------------------
(* Publication                                                             *)

\* aa23CheckPublishable, for an identity and a plan deadline.
Publishable(id, expiry, now) ==
  LET a == id.key.addr
  IN  /\ bound /\ id.worker = worker /\ id.stream = stream
      /\ a \in Active /\ records[a].key = id.key /\ records[a].source = id.source
      /\ a \notin conflicts
      /\ now < expiry /\ now < records[a].lease /\ now < records[a].sourceLease

PrepareReusesAborted(a, plan, expiry, i, now) ==
  LET id == [key |-> records[a].key, worker |-> worker, stream |-> stream, plan |-> plan, source |-> records[a].source]
  IN  /\ HostSound(now) /\ HostObserve(now)
      /\ a \in Active
      /\ Publishable(id, expiry, now) /\ LeaseAdmitted(expiry, now)
      /\ plan > records[a].publishTop
      /\ pool[i].state = "Free"
      /\ planTop' = plan
      /\ pool' = [pool EXCEPT ![i].state = "Writing", ![i].id = id, ![i].expiry = expiry,
                              ![i].lease = Min({records[a].lease, records[a].sourceLease})]
      /\ UNCHANGED <<registry, bound, worker, stream, workerTop, views, sent>>

AA23PreparePlan(a, plan, expiry, i, now) ==
  LET id == [key |-> records[a].key, worker |-> worker, stream |-> stream, plan |-> plan, source |-> records[a].source]
  IN  /\ HostSound(now) /\ HostObserve(now)
      /\ a \in Active
      /\ Publishable(id, expiry, now) /\ LeaseAdmitted(expiry, now)
      /\ plan > planTop
      /\ pool[i].state = "Free"
      /\ planTop' = plan
      /\ pool' = [pool EXCEPT ![i].state = "Writing", ![i].id = id, ![i].expiry = expiry,
                              ![i].lease = Min({records[a].lease, records[a].sourceLease})]
      /\ UNCHANGED <<registry, bound, worker, stream, workerTop, views, sent>>

AA23AbortPrepared(i) ==
  /\ pool[i].state = "Writing"
  /\ pool' = [pool EXCEPT ![i] = Released(@)]
  /\ UNCHANGED <<hostClock, registry, binding, views, sent>>

\* The tests of AA23PublishPrepared once the slot is known to be writing.
Current(i, now) ==
  /\ Publishable(pool[i].id, pool[i].expiry, now)
  /\ Valid(pool[i], now)
  /\ LET record == records[pool[i].id.key.addr]
     IN  /\ pool[i].id.plan > record.publishTop
         /\ record.published # None => pool[i].id.plan > pool[record.published].id.plan

AA23PublishPrepared(i, now) ==
  LET id == pool[i].id
      previous == records[id.key.addr].published
  IN  /\ HostSound(now) /\ HostObserve(now)
      /\ pool[i].state = "Writing"
      /\ Current(i, now)
      /\ pool' = [j \in Slots |-> CASE j = i -> [pool[i] EXCEPT !.state = "Published"]
                                    [] j # i /\ j = previous -> RetiredSlot(pool[j], "Superseded")
                                    [] OTHER -> pool[j]]
      /\ records' = [records EXCEPT ![id.key.addr].published = i, ![id.key.addr].publishTop = id.plan]
      /\ published' = published \cup {[ref |-> Ref(i), id |-> id]}
      /\ UNCHANGED <<subscribers, subscriberTop, masters, masterCount, conflicts, binding, views, revoked, acks>>

\* A candidate gone stale while writing is returned.
PublishStale(i, now) ==
  /\ HostSound(now) /\ HostObserve(now)
  /\ pool[i].state = "Writing"
  /\ ~Current(i, now)
  /\ pool' = [pool EXCEPT ![i] = ReleasedOrStranded(@)]
  /\ UNCHANGED <<registry, binding, views, sent>>

AA23PendingRevocations ==
  /\ revoked' = revoked \cup {[ref |-> Ref(i), id |-> pool[i].id, reason |-> pool[i].reason] :
                               i \in {j \in Slots : pool[j].state = "Retained"}}
  /\ UNCHANGED <<hostClock, registry, binding, pool, views, published, acks>>

AA23ObserveAcknowledgement(ack) ==
  LET i == ack.ref.slot
      slots == [pool EXCEPT ![i].state = "Reclaimable"]
      gone == Settling(records, slots, {pool[i].id.key.addr})
  IN  /\ Resolves(ack.ref)
      /\ pool[i].state = "Retained" /\ pool[i].id = ack.id /\ ~pool[i].pinned
      /\ pool' = slots
      /\ records' = Without(records, gone)
      /\ subscribers' = Decremented(subscribers, records, gone)
      /\ UNCHANGED <<hostClock, subscriberTop, masters, masterCount, conflicts, binding, views, sent>>

AA23Reclaim(i) ==
  /\ pool[i].state = "Reclaimable"
  /\ pool' = [pool EXCEPT ![i] = Released(@)]
  /\ UNCHANGED <<hostClock, registry, binding, views, sent>>

-----------------------------------------------------------------------------
(* The worker's view                                                       *)

NoPin == [active |-> FALSE, ref |-> None, id |-> None]
Unseen == [inc |-> 0, superseded |-> FALSE, revoked |-> FALSE]

AA23NewWorkerView(w) ==
  /\ views[w] = None /\ bound /\ worker = w
  /\ views' = [views EXCEPT ![w] =
       [stream |-> stream, clock |-> [closed |-> FALSE, last |-> 0], planTop |-> [a \in Addresses |-> 0],
        current |-> [a \in Addresses |-> None], records |-> [i \in Slots |-> Unseen], pin |-> NoPin]]
  /\ UNCHANGED <<hostClock, registry, binding, pool, sent>>

Running(w) == views[w] # None
ViewSound(w, now) == Running(w) /\ Sound(views[w].clock, now)

ViewClockFault(w) ==
  /\ Running(w) /\ ~views[w].clock.closed
  /\ views' = [views EXCEPT ![w].clock.closed = TRUE]
  /\ UNCHANGED <<hostClock, registry, binding, pool, sent>>

ViewReading(w, now) ==
  /\ ViewSound(w, now)
  /\ views' = [views EXCEPT ![w].clock.last = now]
  /\ UNCHANGED <<hostClock, registry, binding, pool, sent>>

\* aa23Record: what the view knows of this incarnation of the slot.
Known(w, ref) == IF views[w].records[ref.slot].inc = ref.inc THEN views[w].records[ref.slot]
                 ELSE [Unseen EXCEPT !.inc = ref.inc]

\* aa23Acknowledge: nothing is acknowledged while a transaction holds the slot.
AckOf(w, ref, id) == IF views[w].pin.active /\ views[w].pin.ref = ref THEN {} ELSE {[ref |-> ref, id |-> id]}

AA23AdoptPlan(w, notice, now) ==
  LET i == notice.ref.slot
      a == notice.id.key.addr
      previous == views[w].current[a]
      superseded == previous # None /\ Resolves(previous)
  IN  /\ ViewSound(w, now)
      /\ Resolves(notice.ref)
      /\ pool[i].state = "Published" /\ pool[i].id = notice.id
      /\ notice.id.worker = w /\ notice.id.stream = views[w].stream
      /\ notice.id.plan > views[w].planTop[a]
      /\ Valid(pool[i], now)
      /\ views' = [views EXCEPT ![w] =
           [views[w] EXCEPT !.clock.last = now, !.planTop[a] = notice.id.plan, !.current[a] = notice.ref,
                            !.records = IF superseded
                                        THEN [views[w].records EXCEPT
                                                ![previous.slot] = [Known(w, previous) EXCEPT !.superseded = TRUE]]
                                        ELSE views[w].records]]
      /\ acks' = acks \cup (IF superseded THEN AckOf(w, previous, pool[previous.slot].id) ELSE {})
      /\ UNCHANGED <<hostClock, registry, binding, pool, published, revoked>>

AA23ObserveRevocation(w, notice) ==
  LET i == notice.ref.slot
      a == notice.id.key.addr
  IN  /\ Running(w)
      /\ Resolves(notice.ref)
      /\ pool[i].state = "Retained" /\ pool[i].id = notice.id
      /\ notice.id.worker = w /\ notice.id.stream <= views[w].stream
      /\ views' = [views EXCEPT ![w] =
           [views[w] EXCEPT
             !.records[i] = IF notice.reason = "Superseded" THEN [Known(w, notice.ref) EXCEPT !.superseded = TRUE]
                            ELSE [Known(w, notice.ref) EXCEPT !.revoked = TRUE],
             !.current[a] = IF views[w].current[a] = notice.ref THEN None ELSE views[w].current[a]]]
      /\ acks' = acks \cup AckOf(w, notice.ref, notice.id)
      /\ UNCHANGED <<hostClock, registry, binding, pool, published, revoked>>

\* aa23DropPin
Unpinned(w) == [i \in Slots |-> IF views[w].pin.active /\ views[w].pin.ref = Ref(i)
                                THEN [pool[i] EXCEPT !.pinned = FALSE] ELSE pool[i]]

AA23AdvanceStream(w, st) ==
  /\ Running(w) /\ st > views[w].stream
  /\ pool' = Unpinned(w)
  /\ views' = [views EXCEPT ![w].stream = st, ![w].pin = NoPin, ![w].current = [a \in Addresses |-> None]]
  /\ UNCHANGED <<hostClock, registry, binding, sent>>

\* The ordinal of a transaction is taken to be new.
AA23SelectProvisional(w, a, now) ==
  LET ref == views[w].current[a]
  IN  /\ ViewSound(w, now)
      /\ ~views[w].pin.active
      /\ ref # None /\ Resolves(ref)
      /\ pool[ref.slot].state \in Readable /\ Valid(pool[ref.slot], now)
      /\ pool' = [pool EXCEPT ![ref.slot].pinned = TRUE]
      /\ views' = [views EXCEPT ![w].clock.last = now,
                                ![w].pin = [active |-> TRUE, ref |-> ref, id |-> pool[ref.slot].id]]
      /\ UNCHANGED <<hostClock, registry, binding, sent>>

\* aa23Live, which every match, length and response symbol passes first.
Live(w, now) ==
  /\ ViewSound(w, now)
  /\ views[w].pin.active
  /\ LET ref == views[w].pin.ref
     IN  /\ Resolves(ref)
         /\ pool[ref.slot].state \in Readable
         /\ ~Known(w, ref).revoked
         /\ Valid(pool[ref.slot], now)

AA23Release(w) ==
  LET pin == views[w].pin
      known == Known(w, pin.ref)
  IN  /\ Running(w) /\ pin.active
      /\ pool' = Unpinned(w)
      /\ views' = [views EXCEPT ![w].pin = NoPin, ![w].records[pin.ref.slot] = known]
      /\ acks' = acks \cup (IF known.superseded \/ known.revoked THEN {[ref |-> pin.ref, id |-> pin.id]} ELSE {})
      /\ UNCHANGED <<hostClock, registry, binding, published, revoked>>

-----------------------------------------------------------------------------

\* The operations of the registry that read the clock.
HostTimedNext(now) ==
  \/ HostReading(now) \/ AA23ExpireDue(now)
  \/ \E a \in Addresses \cap bounds.addresses, t \in Deadlines :
       \/ \E s \in Subscribers, e \in 1 .. bounds.epoch, x \in 1 .. bounds.source, u \in Deadlines :
            AA23Register(s, a, e, x, t, u, now)
       \/ AA23RenewRegistration(a, t, now)
       \/ \E x \in 1 .. bounds.source : AA23AdvanceSource(a, x, t, now)
       \/ \E g \in 1 .. bounds.plan, i \in Slots : AA23PreparePlan(a, g, t, i, now)
  \/ \E i \in Slots : AA23PublishPrepared(i, now) \/ PublishStale(i, now)

HostNext ==
  \/ HostClockFault
  \/ AA23OpenSubscriber \/ AA23Reset \/ AA23PendingRevocations
  \/ \E now \in Ticks : HostTimedNext(now)
  \/ \E s \in Subscribers :
       \/ AA23DisconnectSubscriber(s)
       \/ \E m \in Initiators \cap bounds.addresses : AA23BindMaster(s, m) \/ AA23ReleaseMaster(s, m)
  \/ \E a \in Addresses : AA23Unregister(a)
  \/ \E a \in bounds.addresses : AA23MarkPhysicalConflict(a) \/ AA23ClearPhysicalConflict(a)
  \/ \E w \in Workers :
       \/ \E st \in 1 .. bounds.stream : AA23BindWorker(w, st)
       \/ AA23ObserveWorkerTerminated(w)
  \/ \E i \in Slots : AA23AbortPrepared(i) \/ AA23Reclaim(i)
  \/ \E ack \in acks : AA23ObserveAcknowledgement(ack)

ViewNext(w) ==
  \/ AA23NewWorkerView(w) \/ ViewClockFault(w) \/ AA23Release(w)
  \/ \E st \in 1 .. bounds.stream : AA23AdvanceStream(w, st)
  \/ \E notice \in revoked : AA23ObserveRevocation(w, notice)
  \/ \E now \in Ticks :
       \/ ViewReading(w, now)
       \/ \E notice \in published : AA23AdoptPlan(w, notice, now)
       \/ \E a \in Addresses : AA23SelectProvisional(w, a, now)

Next == (HostNext \/ \E w \in Workers : ViewNext(w)) /\ UNCHANGED bounds

Spec == Init /\ [][Next]_vars

-----------------------------------------------------------------------------
(* Properties                                                              *)

Keys == [sub : Subscribers, addr : Addresses, epoch : 1 .. bounds.epoch]
Identities == [key : Keys, worker : Workers, stream : 1 .. bounds.stream, plan : 1 .. bounds.plan, source : 1 .. bounds.source]
Refs == [slot : Slots, inc : 1 .. bounds.incarnation]
Guards == [closed : BOOLEAN, last : Ticks]

\* The state is well formed: what a slot, a record, a row and a view hold.
TypeOK ==
  /\ bounds \in Bounds
  /\ hostClock \in Guards
  /\ \A s \in Subscribers : subscribers[s] = None
       \/ subscribers[s] \in [open : BOOLEAN, epochHigh : 0 .. bounds.epoch, registrations : 0 .. MaxRegistrations]
  /\ subscriberTop \in 0 .. bounds.subscriber
  /\ \A a \in Addresses : records[a] = None
       \/ /\ records[a] \in [state : {"Active", "Retiring"}, key : Keys, lease : Deadlines, source : 1 .. bounds.source,
                               sourceLease : Deadlines, published : Slots \cup {None}, publishTop : 0 .. bounds.plan]
          /\ records[a].key.addr = a
  /\ masters \in [Initiators -> Subscribers \cup {None}] /\ masterCount \in 0 .. MaxMasters
  /\ conflicts \subseteq Addresses \cup Initiators
  /\ bound \in BOOLEAN /\ worker \in 0 .. bounds.worker /\ stream \in 0 .. bounds.stream
  /\ workerTop \in 0 .. bounds.worker /\ planTop \in 0 .. bounds.plan
  /\ pool \in [Slots -> [state : {"Free", "Writing", "Published", "Retained", "Reclaimable"}, inc : 1 .. bounds.incarnation,
                         id : Identities \cup {None}, expiry : 0 .. bounds.tick + 1, lease : 0 .. bounds.tick + 1,
                         reason : Reasons, pinned : BOOLEAN]]
  /\ \A w \in Workers : views[w] = None
       \/ views[w] \in [stream : 1 .. bounds.stream, clock : Guards, planTop : [Addresses -> 0 .. bounds.plan],
                         current : [Addresses -> Refs \cup {None}],
                         records : [Slots -> [inc : 0 .. bounds.incarnation, superseded : BOOLEAN, revoked : BOOLEAN]],
                         pin : [active : BOOLEAN, ref : Refs \cup {None}, id : Identities \cup {None}]]
  /\ published \subseteq [ref : Refs, id : Identities]
  /\ revoked \subseteq [ref : Refs, id : Identities, reason : Reasons]
  /\ acks \subseteq [ref : Refs, id : Identities]

\* A transaction that a running worker has pinned keeps the slot: neither a late
\* or repeated acknowledgement, nor reclaiming, nor another worker's end hands
\* the storage to another plan while the transaction may still read it.
PinHoldsSlot ==
  \A w \in Workers : Running(w) /\ views[w].pin.active =>
    LET pin == views[w].pin
    IN  /\ Resolves(pin.ref) /\ pool[pin.ref.slot].id = pin.id
        /\ pool[pin.ref.slot].state \in Readable /\ pool[pin.ref.slot].pinned

\* An address is not given to a successor while any worker can still answer at
\* it for the predecessor: a plan that may be read, selected or pinned belongs
\* to the registration that holds the address.
AddressHeld ==
  /\ \A i \in Slots : pool[i].state \in Readable =>
       LET a == pool[i].id.key.addr IN records[a] # None /\ records[a].key = pool[i].id.key
  /\ \A w \in Workers, now \in Ticks : Live(w, now) =>
       LET a == views[w].pin.id.key.addr IN records[a] # None /\ records[a].key = views[w].pin.id.key

\* What a worker may still read is nobody else's: neither its slot nor its address.
StorageHeld ==
  /\ PinHoldsSlot
  /\ AddressHeld

\* A retiring registration has a plan whose acknowledgement will free it, so no
\* address is held for ever by a registration with nothing left to wait for.
RetiringIsOwed ==
  \A a \in Addresses : records[a] # None /\ records[a].state = "Retiring" =>
    \E i \in Slots : pool[i].state = "Retained" /\ pool[i].id.key = records[a].key

\* The plan a registration calls current is the one published plan of its
\* address, of the bound worker and stream, of the current source and unopposed.
OneCurrentPlan ==
  /\ \A i \in Slots : pool[i].state = "Published" =>
       LET r == records[pool[i].id.key.addr]
       IN  /\ r.published = i /\ r.publishTop = pool[i].id.plan /\ r.state = "Active"
           /\ r.source = pool[i].id.source /\ bound /\ pool[i].id.worker = worker /\ pool[i].id.stream = stream
           /\ pool[i].id.key.addr \notin conflicts /\ ~hostClock.closed
  /\ \A a \in Addresses : records[a] # None /\ records[a].published # None => pool[records[a].published].state = "Published"

\* No generation of a worker stands for two plans, even after an abort.
GenerationsDiffer ==
  \A i, j \in Slots : i # j /\ pool[i].id # None /\ pool[j].id # None =>
    pool[i].id.worker # pool[j].id.worker \/ pool[i].id.plan # pool[j].id.plan

\* The counters agree with what they count, through settlement in any order: a
\* row that is closed is still owed something, and initiators have open owners.
CountsExact ==
  /\ \A s \in Subscribers :
       LET n == Cardinality({a \in Addresses : records[a] # None /\ records[a].key.sub = s})
       IN  IF subscribers[s] = None THEN n = 0
           ELSE subscribers[s].registrations = n /\ (subscribers[s].open \/ n > 0)
  /\ masterCount = Cardinality({m \in Initiators : masters[m] # None})
  /\ \A m \in Initiators : masters[m] # None => Open(masters[m])

\* The registry's books agree with the pool: what is retiring is owed something, one
\* plan is current, generations are not reused and the counters are exact.
BooksAgree ==
  /\ TypeOK
  /\ RetiringIsOwed
  /\ OneCurrentPlan
  /\ GenerationsDiffer
  /\ CountsExact

Order(state) == CASE state = "Free" -> 0 [] state = "Writing" -> 1 [] state = "Published" -> 2
                  [] state = "Retained" -> 3 [] state = "Reclaimable" -> 4

\* Within an incarnation a slot only moves on, and what is written in it, with
\* its deadlines, stays as it was: a renewal never extends a published plan.
PublishedIsImmutable ==
  [][\A i \in Slots : pool'[i].inc = pool[i].inc =>
       /\ Order(pool'[i].state) >= Order(pool[i].state)
       /\ pool[i].state # "Free" => pool'[i].id = pool[i].id /\ pool'[i].expiry = pool[i].expiry
                                    /\ pool'[i].lease = pool[i].lease]_vars
=============================================================================
