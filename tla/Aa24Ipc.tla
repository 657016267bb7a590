------------------------------- MODULE Aa24Ipc -------------------------------
(***************************************************************************)
(* localworker/aa24_ipc.go: the host and the worker of one mapping, which  *)
(* speak over four lanes: host control hc, worker control wc, host data hd *)
(* and worker data wd.  Lanes are FIFOs with a count of records read;      *)
(* Aa24Lane shows that the shared-memory ring is one.                      *)
(*                                                                         *)
(* Each endpoint is one thread.  AA24Poll and the worker's service are     *)
(* split where the peer can act between two accesses of the lanes; the     *)
(* other operations touch the peer's state once.  An operation that is     *)
(* refused does no more than its tick, which is HostRefuses or a service.  *)
(* A command's deadline is the earliest of its three; records of another   *)
(* stream cannot be on a fresh mapping.  Left out: payloads, lane counters *)
(* and corrupted lanes.  aa24RetireRetry is never appended to, so its      *)
(* retry has nothing to do.                                                *)
(***************************************************************************)
EXTENDS Integers, FiniteSets, SequencesExt

CONSTANT Setups   \* capacities, limits and bounds of a mapping, see SetupsAssumption

ReservedSlots == 1

ASSUME SetupsAssumption ==
  \A s \in Setups :
    /\ {s.hc, s.wc} \subseteq Nat \ (0 .. ReservedSlots)               \* capacities of the lanes
    /\ {s.hd, s.wd, s.maxPlans, s.maxOutstanding, s.maxSequence, s.service} \subseteq Nat \ {0}
    /\ {s.plans, s.tokens, s.ticks, s.streams} \subseteq Nat   \* bounds
    /\ s.expiries \subseteq Nat \ {0}                                    \* of plans
    /\ s.uses \subseteq {"raw", "revoke", "stop", "refused"}              \* what callers do
    /\ {s.badClock, s.dies} \subseteq BOOLEAN                          \* faults that may happen

VARIABLES
  setup, now, stream,
  hc, wc, hd, wd,   \* the lanes: unread records and how many were read
  h, w,             \* the endpoints
  hpc, wpc,         \* where AA24Poll and the worker's operation are
  fenceHead,        \* the records that had been put on wd when the host's fence closed
  started,          \* tokens the worker has delivered
  overtaken         \* plans whose retirement the host refused for its capture time

lanes == <<hc, wc, hd, wd>>
vars == <<setup, now, stream, lanes, h, w, hpc, wpc, fenceHead, started, overtaken>>

-----------------------------------------------------------------------------
(* Lanes and records                                                       *)

EmptyLane == [q |-> <<>>, read |-> 0]
Produced(lane) == lane.read + Len(lane.q)
Put(lane, record) == [lane EXCEPT !.q = Append(@, record)]
Take(lane) == [q |-> Tail(lane.q), read |-> lane.read + 1]
RoomForOneMore(lane, capacity, reserve) == Len(lane.q) + reserve <= capacity
HasRoom(lane, capacity, reserve) == Len(lane.q) + reserve < capacity

\* until is the plan's expiry or the command's deadline.
Record(kind, plan, token, until, sequence, time) ==
  [kind |-> kind, plan |-> plan, token |-> token, until |-> until, sequence |-> sequence, time |-> time]
NoCommand == [plan |-> 0, token |-> 0, until |-> 0]
Command(record) == [plan |-> record.plan, token |-> record.token, until |-> record.until]
Live(command, tick) == tick < command.until

KindOnLane == [hc |-> {"publish", "revoke", "stop"}, wc |-> {"acknowledge", "gap"},
               hd |-> {"command"}, wd |-> {"raw", "completion"}]

\* The fields a kind of record has; the others are zero.
Shape(r, lane) ==
  /\ r.kind \in KindOnLane[lane]
  /\ (r.plan # 0 /\ r.until # 0) = (r.kind \in {"publish", "revoke", "acknowledge", "command", "completion"})
  /\ (r.token # 0) = (r.kind \in {"command", "completion"})
  /\ (r.sequence # 0 /\ r.time # 0) = (lane \in {"wc", "wd"})

\* aa24ServiceExpired: the backlog's progress, and whether it ran out of its budget.
Stalled(lane, progress) == lane.q # <<>> /\ lane.read = progress.read /\ progress.tick # 0
Progress(lane, progress, tick) == IF Stalled(lane, progress) THEN progress ELSE [read |-> lane.read, tick |-> tick]
ServiceExpired(lane, progress, tick) == Stalled(lane, progress) /\ tick - progress.tick >= setup.service

-----------------------------------------------------------------------------
(* Initial state                                                           *)

NoFence == [reason |-> "None", sequence |-> 0]
NotRetained == 0 - 1

AttachHost(planFloor, tokenFloor) ==
  [fence |-> NoFence, closed |-> FALSE, progress |-> [read |-> 0, tick |-> 0],
   stopSent |-> FALSE, stopIndex |-> 0, terminated |-> FALSE, detached |-> FALSE,
   plans |-> {}, planFloor |-> planFloor, tokenFloor |-> tokenFloor,
   outstanding |-> <<>>, lingering |-> <<>>, retained |-> NotRetained, cancelled |-> {},
   nextCapture |-> 1, explained |-> {}, lastControl |-> 0, lastData |-> 0]

AttachWorker(planFloor, tokenFloor) ==
  [fence |-> "None", closed |-> FALSE, last |-> 0, progress |-> [read |-> 0, tick |-> 0],
   gapLatched |-> FALSE, gapWritten |-> FALSE, gapIndex |-> 0,
   gap |-> Record("gap", 0, 0, 0, 0, 0),
   stopObserved |-> FALSE, adopted |-> {}, refused |-> {},
   planFloor |-> planFloor, tokenFloor |-> tokenFloor, active |-> NoCommand,
   nextSequence |-> 1, detached |-> FALSE, alive |-> TRUE]

HostIdle == [at |-> "idle", head |-> 0, reading |-> 0]
WorkerIdle == [at |-> "idle", op |-> "none", plan |-> 0, budget |-> 0, reading |-> 0, fenced |-> FALSE]

Init ==
  /\ setup \in Setups /\ now = 1 /\ stream = 1
  /\ hc = EmptyLane /\ wc = EmptyLane /\ hd = EmptyLane /\ wd = EmptyLane
  /\ h = AttachHost(0, 0) /\ w = AttachWorker(0, 0)
  /\ hpc = HostIdle /\ wpc = WorkerIdle
  /\ fenceHead = NotRetained /\ started = {} /\ overtaken = {}

Advance ==
  /\ now < setup.ticks /\ now' = now + 1
  /\ UNCHANGED <<setup, stream, lanes, h, w, hpc, wpc, fenceHead, started, overtaken>>

-----------------------------------------------------------------------------
(* The host's tables                                                       *)

HostOpen(x) == ~x.detached /\ x.fence.reason = "None"

\* A full list of lingering identities drops those that cannot meet a completion
\* any more: the data tail is past the horizon, and the worker can post no other.
EvictsAll(x, entry) == FALSE
StillNeeded(x, entry) ==
  LET progress == IF x.lastData > x.lastControl THEN x.lastData ELSE x.lastControl
      pending == ~entry.strict /\ ~entry.retired
                 /\ (wd.q # <<>> \/ Live(entry.command, progress))
  IN  entry.horizon > wd.read \/ pending

\* aa24Linger for the commands of moving, in order; those that find no room stay
\* outstanding.
Lingered(x, moving, strict, horizon, retired) ==
  LET entry(c) == [command |-> c, horizon |-> horizon, strict |-> strict, retired |-> retired]
      step(acc, c) ==
        LET kept == IF Len(acc.lingering) = setup.wd
                    THEN SelectSeq(acc.lingering, LAMBDA e : StillNeeded(x, e)) ELSE acc.lingering
        IN  CASE c \notin moving -> [acc EXCEPT !.outstanding = Append(@, c)]
              [] c \in moving /\ Len(kept) = setup.wd -> [outstanding |-> Append(acc.outstanding, c), lingering |-> kept]
              [] OTHER -> [acc EXCEPT !.lingering = Append(kept, entry(c))]
  IN  FoldLeft(step, [outstanding |-> <<>>, lingering |-> x.lingering], x.outstanding)
Linger(x, moving, strict, horizon, retired) ==
  LET moved == Lingered(x, moving, strict, horizon, retired)
  IN  [x EXCEPT !.outstanding = moved.outstanding, !.lingering = moved.lingering]

\* aa24LingerMoved
LingerMoved(x, moving, retired) ==
  IF x.retained # NotRetained THEN Linger(x, moving, TRUE, x.retained, retired)
                              ELSE Linger(x, moving, FALSE, Produced(wd), retired)

Earlier(horizon, head) == IF horizon # NotRetained /\ horizon < head THEN horizon ELSE head

Tightened(lingering, head) ==
  [i \in DOMAIN lingering |->
    IF lingering[i].strict THEN lingering[i] ELSE [lingering[i] EXCEPT !.strict = TRUE, !.horizon = head]]

\* aa24Close: every outstanding command is cancelled, and only what the worker had
\* put on wd by now is still evidence for it.
Close(x, reason, sequence) ==
  LET head == Produced(wd)
      tight == [x EXCEPT !.lingering = Tightened(@, head)]
      moved == Linger(tight, Range(x.outstanding), TRUE, Earlier(x.retained, head), FALSE)
  IN  [moved EXCEPT
        !.fence = IF @.reason = "None" \/ reason = "WorkerGap" THEN [reason |-> reason, sequence |-> sequence] ELSE @,
        !.cancelled = @ \cup {x.outstanding[i] : i \in DOMAIN x.outstanding},
        !.retained = IF moved.outstanding # <<>> THEN Earlier(@, head) ELSE @]

\* aa24Tick with a sound reading, with one that closes the clock for good, and with
\* the tick zero, which is refused by a guard that accepts it: that is only while no
\* reading was sound, and progress.tick is zero until one was.
SoundTick(x) ==
  LET served == [x EXCEPT !.progress = Progress(hc, @, now)]
  IN  IF ServiceExpired(hc, x.progress, now) THEN Close(served, "ControlDeadline", 0) ELSE served
FaultyTick(x) == Close([x EXCEPT !.closed = TRUE], "Clock", 0)
SoundTicks == IF h.closed THEN {} ELSE {SoundTick(h)}
ZeroTick(x) == Close(x, "Clock", 0)
ClosingTicks == IF h.closed \/ setup.badClock THEN {FaultyTick(h)} ELSE {}
ZeroTicks == IF setup.badClock /\ ~h.closed /\ h.progress.tick = 0 THEN {ZeroTick(h)} ELSE {}
FaultyTicks == ClosingTicks \cup ZeroTicks

HostIsIdle == hpc.at = "idle" /\ ~h.detached
-----------------------------------------------------------------------------
(* The host's operations                                                   *)

\* Where the fence closes, the records that are evidence are those on wd.
HostBecomes(x) ==
  /\ h' = x
  /\ fenceHead' = IF HostOpen(h) /\ ~HostOpen(x) THEN Produced(wd) ELSE fenceHead

HostRefuses ==
  /\ HostIsIdle /\ "refused" \in setup.uses
  /\ \E x \in SoundTicks \cup FaultyTicks : HostBecomes(x)
  /\ UNCHANGED <<setup, now, stream, lanes, w, hpc, wpc, started, overtaken>>

\* aa24WriteControl for a record whose success leaves the host in written.
UsesTheReserve(x, record, written) ==
  IF HasRoom(hc, setup.hc, 0)
  THEN hc' = Put(hc, record) /\ HostBecomes(written)
  ELSE HostBecomes(Close(x, "ControlSaturated", 0)) /\ UNCHANGED hc
WriteControl(x, record, written) ==
  IF HasRoom(hc, setup.hc, ReservedSlots)
  THEN hc' = Put(hc, record) /\ HostBecomes(written)
  ELSE HostBecomes(Close(x, "ControlSaturated", 0)) /\ UNCHANGED hc

PublishPlan(expiry) ==
  /\ HostIsIdle /\ h.planFloor < setup.plans
  /\ \E x \in SoundTicks :
       LET plan == x.planFloor + 1
       IN  /\ HostOpen(x) /\ now < expiry /\ Cardinality(x.plans) < setup.maxPlans
           /\ WriteControl(x, Record("publish", plan, 0, expiry, 0, 0),
                [x EXCEPT !.planFloor = plan,
                          !.plans = @ \cup {[plan |-> plan, until |-> expiry, revoking |-> FALSE]}])
  /\ UNCHANGED <<setup, now, stream, wc, hd, wd, w, hpc, wpc, started, overtaken>>

\* Goes on after a clock fault, and on a fenced stream.
RevokePlan(p) ==
  /\ HostIsIdle /\ "revoke" \in setup.uses /\ ~p.revoking
  /\ \E x \in SoundTicks \cup FaultyTicks :
       WriteControl(x, Record("revoke", p.plan, 0, p.until, 0, 0),
         [x EXCEPT !.plans = (@ \ {p}) \cup {[p EXCEPT !.revoking = TRUE]}])
  /\ UNCHANGED <<setup, now, stream, wc, hd, wd, w, hpc, wpc, started, overtaken>>

SendCommand(p, deadline) ==
  /\ HostIsIdle /\ h.tokenFloor < setup.tokens /\ ~p.revoking /\ deadline <= p.until
  /\ \E x \in SoundTicks :
       LET c == [plan |-> p.plan, token |-> x.tokenFloor + 1, until |-> deadline]
           retired == LingerMoved(x, {o \in Range(x.outstanding) : ~Live(o, now)}, FALSE)
       IN  /\ HostOpen(x) /\ Live(c, now)
           /\ IF Len(retired.outstanding) < setup.maxOutstanding /\ HasRoom(hd, setup.hd, 0)
              THEN /\ hd' = Put(hd, Record("command", c.plan, c.token, deadline, 0, 0))
                   /\ HostBecomes([retired EXCEPT !.tokenFloor = c.token, !.outstanding = Append(@, c)])
              ELSE HostBecomes(retired) /\ UNCHANGED hd
  /\ UNCHANGED <<setup, now, stream, hc, wc, wd, w, hpc, wpc, started, overtaken>>

\* aa24AccountSequence: the ordinals of the worker's records, in order but for
\* control records that overtake data.
Accounts(x, sequence, control) ==
  \/ sequence = x.nextCapture
  \/ /\ sequence > x.nextCapture /\ control /\ sequence \notin x.explained
     /\ Cardinality(x.explained) < setup.wc
Accounted(x, sequence, control) ==
  CASE ~Accounts(x, sequence, control) \/ (sequence = x.nextCapture /\ sequence = setup.maxSequence) -> x
    [] Accounts(x, sequence, control) /\ sequence > x.nextCapture -> [x EXCEPT !.explained = @ \cup {sequence}]
    [] OTHER ->
         LET next == CHOOSE n \in sequence + 1 .. setup.maxSequence :
                       /\ n \notin x.explained \/ n = setup.maxSequence
                       /\ \A m \in sequence + 1 .. n - 1 : m \in x.explained
         IN  [x EXCEPT !.nextCapture = next, !.explained = {e \in @ : e >= next}]

Impossible(record, last, reading) == record.time > reading \/ record.time < last

\* aa24HandleControl; trusted is false after a clock fault.
HostHandleControl(x, record, reading, trusted) ==
  LET regressed == trusted /\ Impossible(record, x.lastControl, reading)
      timed == IF trusted /\ ~regressed THEN [x EXCEPT !.lastControl = record.time] ELSE x
      counted == IF ~HostOpen(timed) THEN timed
                 ELSE IF Accounts(timed, record.sequence, TRUE) THEN Accounted(timed, record.sequence, TRUE)
                 ELSE Close(timed, "Discontinuity", record.sequence)
      acked == {p \in counted.plans : p.plan = record.plan /\ p.revoking}
  IN  CASE record.kind = "gap" -> Close(Accounted(timed, record.sequence, TRUE), "WorkerGap", record.sequence)
        [] record.kind # "gap" /\ regressed -> Close(timed, "Clock", record.sequence)
        [] OTHER -> IF acked = {} THEN counted
                    ELSE LingerMoved([counted EXCEPT !.plans = @ \ acked],
                                     {c \in Range(counted.outstanding) : c.plan = record.plan}, TRUE)

\* The completion at index i of wd, against what the host still expects.
ExpectsOutstanding(x, c, i) == c \in Range(x.outstanding) /\ (x.retained = NotRetained \/ i < x.retained)
ExpectsLingering(e, c, i) == e.command = c /\ (~e.strict \/ i < e.horizon)
Expects(x, c, i) == ExpectsOutstanding(x, c, i) \/ \E e \in Range(x.lingering) : ExpectsLingering(e, c, i)

Completed(x, c, i) ==
  IF ExpectsOutstanding(x, c, i) THEN [x EXCEPT !.outstanding = SelectSeq(@, LAMBDA o : o # c)]
  ELSE LET at == {j \in DOMAIN x.lingering : ExpectsLingering(x.lingering[j], c, i)}
       IN  IF at = {} THEN x
           ELSE [x EXCEPT !.lingering = RemoveAt(@, CHOOSE j \in at : \A k \in at : j <= k)]

HostHandleData(x, record, reading) ==
  LET regressed == Impossible(record, x.lastData, reading)
      timed == [x EXCEPT !.lastData = record.time]
      counted == IF HostOpen(timed) THEN Accounted(timed, record.sequence, FALSE) ELSE timed
  IN  CASE regressed -> Close(x, "Clock", record.sequence)
        [] ~regressed /\ HostOpen(timed) /\ ~Accounts(timed, record.sequence, FALSE) ->
             Close(timed, "Discontinuity", record.sequence)
        [] OTHER -> IF record.kind = "completion" THEN Completed(counted, Command(record), wd.read) ELSE counted

\* AA24Poll: the reading is the caller's, and the data head is sampled after it and
\* before control is read.
PollBegins ==
  /\ HostIsIdle
  /\ \E x \in SoundTicks : HostBecomes(x)
  /\ hpc' = [at |-> "head", head |-> 0, reading |-> now]
  /\ UNCHANGED <<setup, now, stream, lanes, w, wpc, started, overtaken>>

PollHead ==
  /\ hpc.at = "head"
  /\ hpc' = [hpc EXCEPT !.at = "control", !.head = Produced(wd)]
  /\ UNCHANGED <<setup, now, stream, lanes, h, w, wpc, fenceHead, started, overtaken>>

DrainsData == Cardinality(h.explained) = setup.wc /\ wd.read < hpc.head

HeadSampledLate ==
  /\ hpc.at = "control"
  /\ IF wc.q # <<>> /\ ~DrainsData
     THEN /\ HostBecomes(HostHandleControl(h, Head(wc.q), hpc.reading, TRUE))
          /\ wc' = Take(wc) /\ hpc' = HostIdle
          /\ overtaken' = IF Impossible(Head(wc.q), h.lastControl, hpc.reading)
                          THEN overtaken \cup {Head(wc.q).plan} ELSE overtaken
     ELSE /\ hpc' = [hpc EXCEPT !.at = "data"]
          /\ UNCHANGED <<wc, h, fenceHead, overtaken>>
  /\ UNCHANGED <<setup, now, stream, hc, hd, wd, w, wpc, started>>
PollControl ==
  /\ hpc.at = "control"
  /\ IF wc.q # <<>> /\ ~DrainsData
     THEN /\ HostBecomes(HostHandleControl(h, Head(wc.q), hpc.reading, TRUE))
          /\ wc' = Take(wc) /\ hpc' = HostIdle
          /\ overtaken' = IF Impossible(Head(wc.q), h.lastControl, hpc.reading)
                          THEN overtaken \cup {Head(wc.q).plan} ELSE overtaken
     ELSE /\ hpc' = IF wd.read < hpc.head THEN [hpc EXCEPT !.at = "data"] ELSE HostIdle
          /\ UNCHANGED <<wc, h, fenceHead, overtaken>>
  /\ UNCHANGED <<setup, now, stream, hc, hd, wd, w, wpc, started>>

PollData ==
  /\ hpc.at = "data" /\ wd.q # <<>>
  /\ HostBecomes(HostHandleData(h, Head(wd.q), hpc.reading))
  /\ wd' = Take(wd) /\ hpc' = HostIdle
  /\ UNCHANGED <<setup, now, stream, hc, wc, hd, w, wpc, started, overtaken>>

\* aa24PollFencedControl
PollFenced ==
  /\ HostIsIdle /\ wc.q # <<>>
  /\ \E x \in FaultyTicks : HostBecomes(HostHandleControl(x, Head(wc.q), 0, FALSE))
  /\ wc' = Take(wc)
  /\ UNCHANGED <<setup, now, stream, hc, hd, wd, w, hpc, wpc, started, overtaken>>

\* aa24SendStop, which may use the reserved slot.
SendStop(x) ==
  IF x.stopSent \/ ~HasRoom(hc, setup.hc, 0) THEN HostBecomes(x) /\ UNCHANGED hc
  ELSE /\ hc' = Put(hc, Record("stop", 0, 0, 0, 0, 0))
       /\ HostBecomes([x EXCEPT !.stopSent = TRUE, !.stopIndex = Produced(hc)])

AcknowledgeGap ==
  /\ HostIsIdle
  /\ \E x \in SoundTicks \cup FaultyTicks : x.fence.reason # "None" /\ SendStop(x)
  /\ UNCHANGED <<setup, now, stream, wc, hd, wd, w, hpc, wpc, started, overtaken>>

RequestStop ==
  /\ HostIsIdle /\ "stop" \in setup.uses
  /\ \E x \in SoundTicks \cup FaultyTicks : SendStop(Close(x, "Stop", 0))
  /\ UNCHANGED <<setup, now, stream, wc, hd, wd, w, hpc, wpc, started, overtaken>>

ObserveWorkerTerminated ==
  /\ HostIsIdle /\ ~w.alive
  /\ HostBecomes(Close([h EXCEPT !.terminated = TRUE], "WorkerTerminated", 0))
  /\ UNCHANGED <<setup, now, stream, lanes, w, hpc, wpc, started, overtaken>>

\* aa24ControlSettled
ControlSettled ==
  /\ h.stopSent /\ hc.read > h.stopIndex
  /\ wc.q = <<>> /\ hc.q = <<>>
  /\ \A p \in h.plans : ~p.revoking

HostTeardown ==
  /\ HostIsIdle /\ (h.terminated \/ ControlSettled)
  /\ h' = [h EXCEPT !.detached = TRUE, !.plans = {}, !.outstanding = <<>>, !.lingering = <<>>]
  /\ UNCHANGED <<setup, now, stream, lanes, w, hpc, wpc, fenceHead, started, overtaken>>

-----------------------------------------------------------------------------
(* The worker's gap.  An operator that takes and gives s = [w, wc] is a    *)
(* method that may write the worker control lane.                          *)

Here == [w |-> w, wc |-> wc]
WorkerOpen(x) == ~x.detached /\ x.fence = "None"
WorkerClose(x, reason) == [x EXCEPT !.fence = IF @ = "None" THEN reason ELSE @, !.active = NoCommand]

\* aa24Write on the worker control lane; a backlog's budget starts with its first record.
PutControl(s, record) ==
  [w  |-> IF s.wc.q = <<>> THEN [s.w EXCEPT !.progress = [read |-> s.wc.read, tick |-> record.time]] ELSE s.w,
   wc |-> Put(s.wc, record)]

FlushGap(s) ==
  IF s.w.gapLatched /\ ~s.w.gapWritten /\ HasRoom(s.wc, setup.wc, 0)
  THEN LET done == PutControl(s, s.w.gap)
       IN  [done EXCEPT !.w.gapWritten = TRUE, !.w.gapIndex = Produced(s.wc)]
  ELSE s

RaiseGap(s, reason, sequence, time) ==
  LET closed == WorkerClose(s.w, reason)
  IN  FlushGap([s EXCEPT !.w = IF closed.gapLatched THEN closed
                               ELSE [closed EXCEPT !.gapLatched = TRUE,
                                                   !.gap = Record("gap", 0, 0, 0, sequence, time)]])

\* aa24GapSequence and aa24AllocateSequence: the last ordinal is kept for the gap.
AfterSequence(x) == [x EXCEPT !.nextSequence = IF @ = setup.maxSequence THEN @ ELSE @ + 1]
CanAllocate(x) == x.nextSequence < setup.maxSequence

\* No record is stamped later than the clock's last reading.
TrustedTick(x) == IF x.last = 0 THEN 1 ELSE x.last

RaiseLocalGap(s, reason) ==
  IF s.w.gapLatched THEN FlushGap(s)
  ELSE RaiseGap([s EXCEPT !.w = AfterSequence(@)], reason, s.w.nextSequence, TrustedTick(s.w))

\* aa24PostRetired: ok says whether the acknowledgement was written.
PostRetired(s, plan, until, time) ==
  CASE ~HasRoom(s.wc, setup.wc, ReservedSlots) -> [s |-> RaiseLocalGap(s, "ControlSaturated"), ok |-> FALSE]
    [] HasRoom(s.wc, setup.wc, ReservedSlots) /\ ~CanAllocate(s.w) ->
         [s |-> RaiseGap(s, "Counter", setup.maxSequence, time), ok |-> FALSE]
    [] OTHER -> [s |-> PutControl([s EXCEPT !.w = AfterSequence(@)],
                         Record("acknowledge", plan, 0, until, s.w.nextSequence, time)), ok |-> TRUE]

WorkerBecomes(s) == w' = s.w /\ wc' = s.wc

-----------------------------------------------------------------------------
(* The worker's service: the clock, then host control, record by record    *)

WorkerIsIdle == wpc.at = "idle" /\ w.alive /\ ~w.detached
WorkerSound == ~w.closed
WorkerFaults == w.closed \/ setup.badClock
Ticked(s) == FlushGap([s EXCEPT !.w.last = now])
ClockFault(s) == RaiseLocalGap([s EXCEPT !.w.closed = TRUE], "Clock")
ZeroFault(s) == RaiseLocalGap(s, "Clock")
ClockRefuses ==
  \/ WorkerFaults /\ WorkerBecomes(ClockFault(Here))
  \/ setup.badClock /\ ~w.closed /\ w.last = 0 /\ WorkerBecomes(ZeroFault(Here))

\* An operation that services control first; plan is the plan it acknowledges.
ServeOpenOnly(op, plan) ==
  /\ WorkerIsIdle /\ WorkerOpen(w)
  /\ \/ /\ WorkerSound /\ WorkerBecomes(Ticked(Here))
        /\ wpc' = [at |-> "drain", op |-> op, plan |-> plan, budget |-> setup.hc, reading |-> now, fenced |-> FALSE]
     \/ /\ ClockRefuses
        /\ wpc' = [at |-> "drain", op |-> op, plan |-> plan, budget |-> setup.hc,
                   reading |-> TrustedTick(w), fenced |-> TRUE]
  /\ UNCHANGED <<setup, now, stream, hc, hd, wd, h, hpc, fenceHead, started, overtaken>>
Serve(op, plan) ==
  /\ WorkerIsIdle
  /\ \/ /\ WorkerSound /\ WorkerBecomes(Ticked(Here))
        /\ wpc' = [at |-> "drain", op |-> op, plan |-> plan, budget |-> setup.hc, reading |-> now, fenced |-> FALSE]
     \/ /\ ClockRefuses
        /\ wpc' = [at |-> "drain", op |-> op, plan |-> plan, budget |-> setup.hc,
                   reading |-> TrustedTick(w), fenced |-> TRUE]
  /\ UNCHANGED <<setup, now, stream, hc, hd, wd, h, hpc, fenceHead, started, overtaken>>

\* aa24HandleControl: done is false when the record must stay queued.
HandleStop(record) == [s |-> [Here EXCEPT !.w = WorkerClose([w EXCEPT !.stopObserved = TRUE], "Stop")], ok |-> TRUE]

HandleRevoke(record) ==
  LET held == {p \in w.adopted : p.plan = record.plan}
      refused == {p \in w.refused : p.plan = record.plan}
      posted == PostRetired(Here, record.plan, record.until, wpc.reading)
  IN  CASE held # {} ->
             [s |-> [Here EXCEPT !.w.adopted = (@ \ held) \cup {[p EXCEPT !.revoked = TRUE] : p \in held},
                                 !.w.active = IF @.plan = record.plan THEN NoCommand ELSE @], ok |-> TRUE]
        [] held = {} /\ refused # {} ->
             IF posted.ok THEN [posted EXCEPT !.s.w.refused = @ \ refused] ELSE posted
        [] OTHER -> [s |-> Here, ok |-> TRUE]

RefusedForgotten(record) ==
  IF wpc.fenced \/ w.fence # "None" THEN [s |-> Here, ok |-> TRUE]
  ELSE [s |-> [Here EXCEPT !.w.planFloor = record.plan,
                           !.w.adopted = @ \cup {[plan |-> record.plan, until |-> record.until, revoked |-> FALSE]}],
        ok |-> TRUE]
HandlePublish(record) ==
  LET fenced == wpc.fenced \/ w.fence # "None"
      remembered == [Here EXCEPT !.w.refused = @ \cup {[plan |-> record.plan, until |-> record.until]}]
      fits == Cardinality(w.refused) < setup.maxPlans
      unfit == record.plan <= w.planFloor \/ wpc.reading >= record.until \/ Cardinality(w.adopted) = setup.maxPlans
  IN  [ok |-> TRUE,
       s |-> CASE fenced -> IF fits THEN remembered ELSE Here
               [] ~fenced /\ unfit -> IF fits THEN remembered ELSE RaiseLocalGap(Here, "ControlSaturated")
               [] OTHER -> [Here EXCEPT !.w.planFloor = record.plan,
                              !.w.adopted = @ \cup {[plan |-> record.plan, until |-> record.until, revoked |-> FALSE]}]]

HandleControl(record) ==
  CASE record.kind = "stop" -> HandleStop(record)
    [] record.kind = "revoke" -> HandleRevoke(record)
    [] record.kind = "publish" -> HandlePublish(record)

\* The slot is released when the record has been handled.
DrainControl ==
  /\ wpc.at = "drain" /\ wpc.budget > 0 /\ hc.q # <<>>
  /\ LET done == HandleControl(Head(hc.q))
     IN  /\ WorkerBecomes(done.s)
         /\ IF done.ok THEN hc' = Take(hc) /\ wpc' = [wpc EXCEPT !.budget = @ - 1]
            ELSE wpc' = [wpc EXCEPT !.at = "act"] /\ UNCHANGED hc
  /\ UNCHANGED <<setup, now, stream, hd, wd, h, hpc, fenceHead, started, overtaken>>

DrainEnds ==
  /\ wpc.at = "drain" /\ (wpc.budget = 0 \/ hc.q = <<>>)
  /\ wpc' = [wpc EXCEPT !.at = "act"]
  /\ UNCHANGED <<setup, now, stream, lanes, h, w, hpc, fenceHead, started, overtaken>>

\* The end of aa24Service: an unread backlog of worker control closes the stream.
Serviced ==
  LET served == [Here EXCEPT !.w.progress = Progress(wc, @, wpc.reading)]
  IN  CASE wpc.fenced -> Here
        [] ~wpc.fenced /\ ServiceExpired(wc, w.progress, wpc.reading) -> RaiseLocalGap(served, "ControlDeadline")
        [] OTHER -> served

-----------------------------------------------------------------------------
(* The worker's operations                                                 *)

Returns == wpc' = WorkerIdle

\* aa24CheckPlan
PlanHeld(x, plan) == \E p \in x.adopted : p.plan = plan /\ ~p.revoked

\* AA24PollControl, and every operation but an acknowledgement after a clock fault
ServiceOnly ==
  /\ wpc.at = "act" /\ (wpc.op = "PollControl" \/ (wpc.fenced /\ wpc.op # "AcknowledgeRevocation"))
  /\ WorkerBecomes(Serviced) /\ Returns
  /\ UNCHANGED <<setup, now, stream, hc, hd, wd, h, hpc, fenceHead, started, overtaken>>

\* The record that was read is consumed whatever becomes of it.
AnyPlan(x, record) == record.token > x.tokenFloor /\ Live(Command(record), wpc.reading)
Deliverable(x, record) ==
  /\ record.token > x.tokenFloor
  /\ PlanHeld(x, record.plan) /\ Live(Command(record), wpc.reading)

NextCommand ==
  /\ wpc.at = "act" /\ wpc.op = "NextCommand" /\ ~wpc.fenced
  /\ LET s == Serviced
         busy == s.w.active # NoCommand /\ Live(s.w.active, wpc.reading)
         x == [s.w EXCEPT !.active = NoCommand]
         record == Head(hd.q)
     IN  IF ~WorkerOpen(s.w) \/ busy \/ hd.q = <<>>
         THEN /\ WorkerBecomes([s EXCEPT !.w = IF WorkerOpen(@) /\ ~busy THEN x ELSE @])
              /\ UNCHANGED <<hd, started>>
         ELSE /\ hd' = Take(hd)
              /\ WorkerBecomes([s EXCEPT !.w = [x EXCEPT
                   !.tokenFloor = IF record.token > @ THEN record.token ELSE @,
                   !.active = IF Deliverable(x, record) THEN Command(record) ELSE NoCommand]])
              /\ started' = IF Deliverable(x, record) THEN started \cup {record.token} ELSE started
  /\ Returns
  /\ UNCHANGED <<setup, now, stream, hc, wd, h, hpc, fenceHead, overtaken>>

\* AA24AdmitOutput for the active command; it is told to go on if it stays active.
AdmitOutput ==
  /\ wpc.at = "act" /\ wpc.op = "AdmitOutput" /\ ~wpc.fenced
  /\ LET s == Serviced
     IN  WorkerBecomes([s EXCEPT !.w.active =
           IF WorkerOpen(s.w) /\ PlanHeld(s.w, @.plan) /\ ~Live(@, wpc.reading) THEN NoCommand ELSE @])
  /\ Returns
  /\ UNCHANGED <<setup, now, stream, hc, hd, wd, h, hpc, fenceHead, started, overtaken>>

AcknowledgeRevocation ==
  /\ wpc.at = "act" /\ wpc.op = "AcknowledgeRevocation"
  /\ LET s == Serviced
         held == {p \in s.w.adopted : p.plan = wpc.plan /\ p.revoked}
         p == CHOOSE p \in held : TRUE
         posted == PostRetired(s, p.plan, p.until, wpc.reading)
     IN  WorkerBecomes(IF held = {} THEN s
                       ELSE IF posted.ok THEN [posted.s EXCEPT !.w.adopted = @ \ held] ELSE posted.s)
  /\ Returns
  /\ UNCHANGED <<setup, now, stream, hc, hd, wd, h, hpc, fenceHead, started, overtaken>>

\* aa24WriteData of a record with the next ordinal; a lane that is full loses it and
\* its ordinal is the gap's.
WriteData(s, kind, c) ==
  CASE ~CanAllocate(s.w) ->
         WorkerBecomes(RaiseGap(s, "Counter", setup.maxSequence, now)) /\ UNCHANGED wd
    [] CanAllocate(s.w) /\ HasRoom(wd, setup.wd, 0) ->
         /\ wd' = Put(wd, Record(kind, c.plan, c.token, c.until, s.w.nextSequence, now))
         /\ WorkerBecomes([s EXCEPT !.w = AfterSequence(@)])
    [] OTHER -> /\ WorkerBecomes(RaiseGap([s EXCEPT !.w = AfterSequence(@)], "DataFull", s.w.nextSequence, now))
                /\ UNCHANGED wd

ObserveRaw ==
  /\ WorkerIsIdle /\ "raw" \in setup.uses
  /\ \/ WorkerSound /\ WorkerOpen(w) /\ WriteData(Ticked(Here), "raw", NoCommand)
     \/ WorkerSound /\ ~WorkerOpen(w) /\ WorkerBecomes(Ticked(Here)) /\ UNCHANGED wd
     \/ ClockRefuses /\ UNCHANGED wd
  /\ UNCHANGED <<setup, now, stream, hc, hd, h, hpc, wpc, fenceHead, started, overtaken>>

\* AA24Complete of the active command; a counter that has run out closes it too.
Complete ==
  /\ WorkerIsIdle /\ w.active # NoCommand /\ WorkerSound
  /\ LET s == [Ticked(Here) EXCEPT !.w.active = NoCommand]
     IN  IF Live(w.active, now) THEN WriteData(s, "completion", w.active)
         ELSE WorkerBecomes(s) /\ UNCHANGED wd
  /\ UNCHANGED <<setup, now, stream, hc, hd, h, hpc, wpc, fenceHead, started, overtaken>>

\* aa24FenceAcknowledged
FenceAcknowledged ==
  /\ w.stopObserved /\ hc.q = <<>>
  /\ w.gapLatched => w.gapWritten /\ wc.read > w.gapIndex

WorkerTeardown ==
  /\ WorkerIsIdle /\ ~WorkerOpen(w) /\ FenceAcknowledged
  /\ \A p \in w.adopted : ~p.revoked
  /\ w' = [w EXCEPT !.detached = TRUE, !.adopted = {}, !.refused = {}]
  /\ UNCHANGED <<setup, now, stream, lanes, h, hpc, wpc, fenceHead, started, overtaken>>

WorkerDies ==
  /\ setup.dies /\ w.alive
  /\ w' = [w EXCEPT !.alive = FALSE, !.active = NoCommand] /\ Returns
  /\ UNCHANGED <<setup, now, stream, lanes, h, hpc, fenceHead, started, overtaken>>

-----------------------------------------------------------------------------
(* Recovery: both sides attach to a fresh mapping of the next stream.      *)

\* aa24Successor; the worker's side carries the higher of its floor and the host's.
Higher(a, b) == IF a > b THEN a ELSE b
FloorsDropped(workerPlan, workerToken) ==
  /\ stream < setup.streams /\ stream' = stream + 1
  /\ hc' = EmptyLane /\ wc' = EmptyLane /\ hd' = EmptyLane /\ wd' = EmptyLane
  /\ h' = AttachHost(h.planFloor, workerToken)
  /\ w' = AttachWorker(Higher(workerPlan, h.planFloor), workerToken)
  /\ wpc' = WorkerIdle /\ fenceHead' = NotRetained /\ overtaken' = {}
  /\ UNCHANGED <<setup, now, hpc, started>>
Successor(workerPlan, workerToken) ==
  /\ stream < setup.streams /\ stream' = stream + 1
  /\ hc' = EmptyLane /\ wc' = EmptyLane /\ hd' = EmptyLane /\ wd' = EmptyLane
  /\ h' = AttachHost(h.planFloor, h.tokenFloor)
  /\ w' = AttachWorker(Higher(workerPlan, h.planFloor), Higher(workerToken, h.tokenFloor))
  /\ wpc' = WorkerIdle /\ fenceHead' = NotRetained /\ overtaken' = {}
  /\ UNCHANGED <<setup, now, hpc, started>>

Resync ==
  /\ HostIsIdle /\ ~HostOpen(h) /\ ControlSettled
  /\ WorkerIsIdle /\ FenceAcknowledged
  /\ Successor(w.planFloor, w.tokenFloor)

Restart ==
  /\ HostIsIdle /\ h.terminated
  /\ Successor(0, 0)

-----------------------------------------------------------------------------
Publish == \E expiry \in setup.expiries : PublishPlan(expiry)
Revoke == \E p \in h.plans : RevokePlan(p)
Send == \E p \in h.plans, deadline \in 2 .. setup.ticks + 1 : SendCommand(p, deadline)
Poll == PollBegins \/ PollHead \/ PollControl \/ PollData \/ PollFenced
ServePoll == Serve("PollControl", 0)
ServeNext == setup.tokens > 0 /\ Serve("NextCommand", 0)
ServeAdmit == w.active # NoCommand /\ Serve("AdmitOutput", 0)
ServeAcknowledge == \E p \in w.adopted : p.revoked /\ Serve("AcknowledgeRevocation", p.plan)
Proceed == DrainControl \/ DrainEnds \/ ServiceOnly \/ NextCommand \/ AdmitOutput \/ AcknowledgeRevocation

Next ==
  \/ Advance
  \/ HostRefuses \/ Publish \/ Revoke \/ Send \/ Poll \/ AcknowledgeGap \/ RequestStop
  \/ ObserveWorkerTerminated \/ HostTeardown
  \/ ServePoll \/ ServeNext \/ ServeAdmit \/ ServeAcknowledge \/ Proceed \/ ObserveRaw \/ Complete \/ WorkerTeardown
  \/ WorkerDies \/ Resync \/ Restart

\* The host keeps polling; the worker keeps servicing control, finishes what it
\* began, acknowledges what was revoked, and leaves when it may.
Fairness ==
  /\ WF_vars(Poll) /\ WF_vars(Proceed) /\ SF_vars(ServePoll) /\ SF_vars(ServeAcknowledge)
  /\ SF_vars(HostTeardown) /\ SF_vars(WorkerTeardown)
Spec == Init /\ [][Next]_vars
FairSpec == Spec /\ Fairness

-----------------------------------------------------------------------------
(* Properties                                                              *)

Records(lane) == {lane.q[i] : i \in DOMAIN lane.q}
Reasons == {"None", "DataFull", "ControlSaturated", "ControlDeadline", "WorkerGap", "Discontinuity",
            "Counter", "Clock", "Stop", "WorkerTerminated"}
TypeOK ==
  /\ setup \in Setups /\ now \in 1 .. Higher(1, setup.ticks) /\ stream \in 1 .. Higher(1, setup.streams)
  /\ \A r \in Records(hc) : Shape(r, "hc")
  /\ \A r \in Records(wc) : Shape(r, "wc")
  /\ \A r \in Records(hd) : Shape(r, "hd")
  /\ \A r \in Records(wd) : Shape(r, "wd")
  /\ Len(hc.q) <= setup.hc /\ Len(wc.q) <= setup.wc /\ Len(hd.q) <= setup.hd /\ Len(wd.q) <= setup.wd
  /\ h.fence.reason \in Reasons /\ w.fence \in Reasons
  /\ Cardinality(h.plans) <= setup.maxPlans /\ Cardinality(w.adopted) <= setup.maxPlans
  /\ h.explained \subseteq 1 .. setup.maxSequence /\ w.nextSequence \in 1 .. setup.maxSequence
  /\ hpc.at \in {"idle", "head", "control", "data"} /\ wpc.at \in {"idle", "drain", "act"}

\* "One slot of each control lane is reserved so a gap and a stop always fit": a gap
\* that was raised is on its lane, and a stop that was not sent yet has a slot.
ReservedSlot ==
  /\ w.gapLatched => w.gapWritten
  /\ ~h.stopSent => HasRoom(hc, setup.hc, 0)

\* The host goes on listing a plan as long as the worker may use it or answer for
\* it, wherever the publication, the revocation and the retirement are; and it does
\* not leave the mapping while a command is active on it.
PlansListed ==
  LET mentioned == {p.plan : p \in w.adopted \cup w.refused} \cup {r.plan : r \in Records(hc)}
  IN  w.alive =>
        /\ w.active # NoCommand => PlanHeld(w, w.active.plan) /\ ~h.detached
        /\ ~h.detached => mentioned \ {0} \subseteq {p.plan : p \in h.plans}

\* A revocation is never lost: until the host has read the retirement, the revocation
\* is on its way, or the worker holds the plan as revoked, or the retirement is.  The
\* one exception is a retirement that was captured after the reading of the Poll that
\* reads it: the host consumes it, takes it for a fault of the clock and drops it.
RevocationInFlight ==
  w.alive /\ ~w.detached =>
    \A p \in h.plans : p.revoking /\ p.plan \notin overtaken =>
      \/ \E r \in Records(hc) : r.kind = "revoke" /\ r.plan = p.plan
      \/ \E q \in w.adopted : q.plan = p.plan /\ q.revoked
      \/ \E r \in Records(wc) : r.kind = "acknowledge" /\ r.plan = p.plan

\* Control is never lost to a full lane: gap and stop have their slot, and a plan is
\* listed and its revocation under way until the worker has retired it.
ControlKept ==
  /\ TypeOK
  /\ ReservedSlot
  /\ PlansListed
  /\ RevocationInFlight

\* "A remaining discontinuity is truly unexplained": on lanes that lose nothing, no
\* order in which control overtakes data and Poll samples the lanes looks like one.
NoFalseDiscontinuity == h.fence.reason # "Discontinuity"

\* What the worker completed before the host's fence still finds its command, after
\* expiry, retirement and any number of fences; what it completed after, never does.
\* This is of the records that wait: the one that a Poll reads is dropped when it was
\* captured after the reading of that Poll, and closes the host's fence.
CompletionsMatch ==
  ~h.detached =>
    \A k \in DOMAIN wd.q : wd.q[k].kind = "completion" =>
      LET i == wd.read + k - 1
      IN  Expects(h, Command(wd.q[k]), i) = (fenceHead = NotRetained \/ i < fenceHead)

\* The tables of commands stay within their arrays.
TablesFit == Len(h.outstanding) <= setup.maxOutstanding /\ Len(h.lingering) <= setup.wd

\* Evidence is judged by when the worker queued it, in whatever order it is read.
EvidenceKept ==
  /\ TablesFit
  /\ NoFalseDiscontinuity
  /\ CompletionsMatch

\* No token is delivered twice, across resynchronisations and worker restarts.
TokensOnce == [][w'.active # NoCommand /\ w'.active # w.active => w'.active.token \notin started]_vars

\* Shutdown never has both sides waiting for each other: once the stop is sent, one
\* of them leaves, whatever the lanes hold and whichever clock has failed.  (A worker
\* whose ordinals have run out cannot post a retirement: it stays in front of the stop.)
OneSideLeaves ==
  h.stopSent ~> (h.detached \/ w.detached \/ ~w.alive \/ ~h.stopSent \/ w.nextSequence = setup.maxSequence)
=============================================================================
