--------------------------- MODULE Aa26Responder ---------------------------
(***************************************************************************)
(* localworker/aa26_responder.go: the responder of one worker, composed    *)
(* with the view that it selects plans from (aa23_plans.go) and the AA24   *)
(* endpoint that carries the host's fence and revocations (aa24_ipc.go).   *)
(* The host, the wire and the caller's clock are the environment.          *)
(*                                                                         *)
(* The responder is serialized: an action is one call of it, and r holds   *)
(* its fields with those of its view and its endpoint.  Aa23Plans and      *)
(* Aa24Ipc have the host's side in full; here a plan is a number, its      *)
(* storage a state, and a stream's control lane the list of all records    *)
(* ever put on it.                                                         *)
(*                                                                         *)
(* Time is abstract.  Whether a deadline has passed, an echo is early or   *)
(* late, a reading regresses or a counter is used up is an input; so are   *)
(* the wire port's answers.  The checksum is any function of the raw       *)
(* symbols.  Phases and reasons are kept where they decide something.      *)
(***************************************************************************)
EXTENDS Integers, FiniteSets, SequencesExt

CONSTANTS
  Initiators, Targets,   \* the symbols that are such addresses
  CRCStep(_, _),         \* aa23CRCStep
  Setups                 \* what there is and what may happen, see SetupOK

Byte == 0 .. 255
Ack == 0
Nack == 255
Escape == 169
Syn == 170
EscapedEscape == 0
EscapedSyn == 1

ASSUME AddressesAssumption == Initiators \cup Targets \subseteq Byte \ {Escape, Syn} /\ Initiators \cap Targets = {}
ASSUME CRCAssumption == \A c, raw \in Byte : CRCStep(c, raw) \in Byte

\* What there is: the plans that may be published, in order, and what happens to them.
SetupOK(s) ==
  /\ s.symbols \subseteq Byte
  /\ {s.streams, s.ring} \subseteq Nat \ {0} /\ {s.maxRequestData, s.commands, s.buffer} \subseteq Nat
  /\ DOMAIN s.plans \subseteq Nat \ {0}
  /\ \A p \in DOMAIN s.plans : s.plans[p].address \in Targets /\ \A e \in s.plans[p].entries : e.reply \in Seq(Byte)
  /\ s.uses \subseteq {"retire", "revoke", "expire", "stop", "fault", "clock", "gap", "refuse"}

ASSUME SetupsAssumption == \A s \in Setups : SetupOK(s)

VARIABLES
  setup,
  pool,       \* of each plan: "None", "Published", "Retained" or "Reclaimed"
  planStream, \* the stream each was published for
  hostStream,
  notices,    \* revocation notices: a plan and the reason at the time
  lane,       \* of each stream: the control records sent
  acks,       \* acknowledgements that reached the host
  expired,    \* plans whose deadline has passed
  lapsed,     \* commands whose deadline has passed
  r,          \* the responder, its view and its endpoint
  seen        \* what the subscriber has made of the events so far, see Follow

hostVars == <<pool, planStream, hostStream, notices, lane>>
vars == <<setup, hostVars, acks, expired, lapsed, r, seen>>

Plans == DOMAIN setup.plans
AddressOf(p) == setup.plans[p].address
Readable == {"Published", "Retained"}

\* aa26Frame.  The request and the emission are empty outside a transaction.
NewResponder ==
  [frame |-> "Unsynced", escape |-> FALSE, crc |-> 0, source |-> 0, pb |-> 0, sb |-> 0, nn |-> 0,
   data |-> <<>>, heard |-> <<>>,
   active |-> FALSE, plan |-> 0, reply |-> <<>>, prepared |-> FALSE, offset |-> 0,
   awaitEcho |-> FALSE, echo |-> 0, emitted |-> <<>>,
   disarmed |-> FALSE, bindings |-> [a \in Targets |-> 0], held |-> 0, ack |-> 0,
   ring |-> <<>>, lost |-> 0,
   stream |-> 1, current |-> [a \in Targets |-> 0], planTop |-> [a \in Targets |-> 0],
   superseded |-> {}, revoked |-> {}, pin |-> 0, clockClosed |-> FALSE,
   read |-> 0, fenced |-> FALSE, command |-> 0, commandPlan |-> 0, tokens |-> 0]

Init ==
  /\ setup \in Setups
  /\ pool = [p \in Plans |-> "None"] /\ planStream = [p \in Plans |-> 0] /\ hostStream = 1
  /\ notices = {} /\ lane = [s \in 1 .. setup.streams |-> <<>>]
  /\ acks = {} /\ expired = {} /\ lapsed = {}
  /\ r = NewResponder /\ seen = 0

Uses(what) == what \in setup.uses
May(what) == IF Uses(what) THEN BOOLEAN ELSE {FALSE}

-----------------------------------------------------------------------------
(* The host and time                                                       *)

Sent(s, kind, p) == \E i \in DOMAIN lane[s] : lane[s][i] = [kind |-> kind, plan |-> p]

HostPublish(p) ==
  LET previous == {q \in Plans : pool[q] = "Published" /\ AddressOf(q) = AddressOf(p)}
  IN  /\ pool[p] = "None" /\ \A q \in 1 .. p - 1 : pool[q] # "None"
      /\ pool' = [q \in Plans |-> IF q = p THEN "Published" ELSE IF q \in previous THEN "Retained" ELSE pool[q]]
      /\ planStream' = [planStream EXCEPT ![p] = hostStream]
      /\ notices' = notices \cup {[plan |-> q, reason |-> "Superseded"] : q \in previous}
      /\ UNCHANGED <<setup, hostStream, lane, acks, expired, lapsed, r, seen>>

\* A plan that was superseded may be revoked on top.  Expiry counts as a revocation.
HostRetire(p) ==
  /\ Uses("retire") /\ pool[p] \in Readable /\ [plan |-> p, reason |-> "Revoked"] \notin notices
  /\ pool' = [pool EXCEPT ![p] = "Retained"]
  /\ notices' = notices \cup {[plan |-> p, reason |-> "Revoked"]}
  /\ UNCHANGED <<setup, planStream, hostStream, lane, acks, expired, lapsed, r, seen>>

\* The lane carries the plan's publication and revocation too, each at any time
\* relative to the notices.
HostSends(kind, p) ==
  LET s == planStream[p]
  IN  /\ s # 0 /\ ~Sent(s, kind, p)
      /\ kind = "revoke" => Uses("revoke") /\ Sent(s, "publish", p)
      /\ lane' = [lane EXCEPT ![s] = Append(@, [kind |-> kind, plan |-> p])]
      /\ UNCHANGED <<setup, pool, planStream, hostStream, notices, acks, expired, lapsed, r, seen>>

HostStops ==
  /\ Uses("stop") /\ ~Sent(hostStream, "stop", 0)
  /\ lane' = [lane EXCEPT ![hostStream] = Append(@, [kind |-> "stop", plan |-> 0])]
  /\ UNCHANGED <<setup, pool, planStream, hostStream, notices, acks, expired, lapsed, r, seen>>

\* AA23BindWorker for the next stream retires every plan.
HostRebinds ==
  LET ended == {p \in Plans : pool[p] \in Readable}
  IN  /\ hostStream < setup.streams /\ hostStream = r.stream /\ hostStream' = hostStream + 1
      /\ pool' = [p \in Plans |-> IF p \in ended THEN "Retained" ELSE pool[p]]
      /\ notices' = notices \cup {[plan |-> p, reason |-> "Revoked"] : p \in ended}
      /\ UNCHANGED <<setup, planStream, lane, acks, expired, lapsed, r, seen>>

HostReclaims(p) ==
  /\ p \in acks /\ pool[p] = "Retained" /\ r.pin # p
  /\ pool' = [pool EXCEPT ![p] = "Reclaimed"]
  /\ UNCHANGED <<setup, planStream, hostStream, notices, lane, acks, expired, lapsed, r, seen>>

PlanExpires(p) ==
  /\ Uses("expire") /\ pool[p] \in Readable /\ p \notin expired
  /\ expired' = expired \cup {p}
  /\ UNCHANGED <<setup, hostVars, acks, lapsed, r, seen>>

CommandLapses(c) ==
  /\ Uses("expire") /\ c \notin lapsed /\ c \in {r.command, r.held} \ {0}
  /\ lapsed' = lapsed \cup {c}
  /\ UNCHANGED <<setup, hostVars, acks, expired, r, seen>>

-----------------------------------------------------------------------------
(* The observer's ring                                                     *)

\* aa26Deliver.  The sequence is the symbol's place in its frame.
DropsUncounted(x, kind, sequence) ==
  IF Len(x.ring) = setup.ring THEN x
  ELSE [x EXCEPT !.ring = Append(@, [kind |-> kind, sequence |-> sequence, lost |-> x.lost])]
Deliver(x, kind, sequence) ==
  IF Len(x.ring) = setup.ring THEN [x EXCEPT !.lost = @ + 1]
  ELSE [x EXCEPT !.ring = Append(@, [kind |-> kind, sequence |-> sequence, lost |-> x.lost])]
DeliverRaw(x) == Deliver(x, "Raw", Len(x.heard))
DeliverLogical(x) == Deliver(x, "Logical", Len(x.heard))

\* What the subscriber makes of an event: the place it expects next, 0 once it has
\* noticed a gap, and NoGapShown when a transaction that lost something claims that
\* it has not.
NoGapShown == 0 - 1
Follow(place, event) ==
  CASE place = NoGapShown -> NoGapShown
    [] place # NoGapShown /\ event.kind = "Raw" ->
         IF event.sequence = 1 THEN 2 ELSE IF event.sequence = place THEN place + 1 ELSE 0
    [] place # NoGapShown /\ event.kind = "Closed" -> IF event.lost = 0 /\ place = 0 THEN NoGapShown ELSE 0
    [] OTHER -> place

AA26DrainObserver ==
  /\ setup.buffer > 0 /\ r.ring # <<>>
  /\ LET n == IF Len(r.ring) < setup.buffer THEN Len(r.ring) ELSE setup.buffer
     IN  /\ r' = [r EXCEPT !.ring = SubSeq(@, n + 1, Len(@))]
         /\ seen' = FoldLeft(Follow, seen, SubSeq(r.ring, 1, n))
  /\ UNCHANGED <<setup, hostVars, acks, expired, lapsed>>

-----------------------------------------------------------------------------
(* Closing                                                                 *)

\* What is left of a frame that is not followed any more is not read again.
Forgotten(x) ==
  [x EXCEPT !.crc = 0, !.source = 0, !.pb = 0, !.sb = 0, !.nn = 0, !.data = <<>>, !.heard = <<>>]

\* AA23Release and aa26Close.  Only the latest acknowledgement is kept.
Close(x, reason) ==
  LET base == [Forgotten(x) EXCEPT !.frame = "Skip", !.escape = FALSE, !.disarmed = @ \/ reason = "Clock"]
      told == Deliver(base, "Closed", 0)
  IN  IF ~x.active THEN base
      ELSE [told EXCEPT !.ack = IF x.pin \in x.superseded \cup x.revoked THEN x.pin ELSE @, !.pin = 0,
                        !.active = FALSE, !.plan = 0, !.reply = <<>>, !.prepared = FALSE, !.offset = 0,
                        !.awaitEcho = FALSE, !.echo = 0, !.emitted = <<>>, !.lost = 0]

\* aa26RaiseGap
RaiseGap(x, reason) == [Close(x, reason) EXCEPT !.disarmed = TRUE, !.frame = "Unsynced"]

-----------------------------------------------------------------------------
(* Authority                                                               *)

\* AA24PollControl reads the whole backlog; a plan's publication is refused only when
\* its deadline has passed, which the pin sees too.
Serviced(x) == [x EXCEPT !.read = Len(lane[x.stream])]
Knows(x, kind, p) == \E i \in 1 .. x.read : lane[x.stream][i] = [kind |-> kind, plan |-> p]
OutputOpen(x) == ~x.fenced /\ ~Knows(x, "stop", 0)

\* aa26IPCReason, once control is serviced
IPCReason(x, p) ==
  CASE ~OutputOpen(x) -> "Fenced"
    [] OutputOpen(x) /\ Knows(x, "revoke", p) -> "Revoked"
    [] OutputOpen(x) /\ ~Knows(x, "publish", p) -> "Authority"
    [] OTHER -> "None"

\* aa23Live of the pin, as aa26ReasonFromAA23 names its errors
PinReason(x) ==
  CASE x.clockClosed -> "Clock"
    [] ~x.clockClosed /\ pool[x.pin] \notin Readable -> "Authority"
    [] ~x.clockClosed /\ pool[x.pin] \in Readable /\ x.pin \in x.revoked -> "Revoked"
    [] ~x.clockClosed /\ pool[x.pin] \in Readable /\ x.pin \notin x.revoked /\ x.pin \in expired -> "Expired"
    [] OTHER -> "None"

\* aa26Authority: control is serviced first, so that what is queued counts.
AuthorityAsRead(x) ==
  LET s == x
      reason == IF IPCReason(s, x.plan) # "None" THEN IPCReason(s, x.plan) ELSE PinReason(s)
  IN  IF x.disarmed THEN [x |-> x, reason |-> "Gap"] ELSE [x |-> s, reason |-> reason]
Authority(x) ==
  LET s == Serviced(x)
      reason == IF IPCReason(s, x.plan) # "None" THEN IPCReason(s, x.plan) ELSE PinReason(s)
  IN  IF x.disarmed THEN [x |-> x, reason |-> "Gap"] ELSE [x |-> s, reason |-> reason]

-----------------------------------------------------------------------------
(* The wire port                                                           *)

\* aa26Emit.  The port may refuse, and the start of the symbol may not be
\* representable.
Emit(x, symbol, placed) ==
  IF ~placed THEN Close(x, "Refused")
  ELSE [x EXCEPT !.awaitEcho = TRUE, !.echo = symbol, !.emitted = Append(@, symbol)]

\* aa26Decide, when the checksum has been received
Decide(x, received, placed) ==
  LET a == Authority(x)
  IN  CASE received # x.crc -> Close(x, "Malformed")
        [] received = x.crc /\ ~x.prepared -> Close(x, "NoMatch")
        [] received = x.crc /\ x.prepared /\ a.reason # "None" -> Close(a.x, a.reason)
        [] OTHER -> Emit([a.x EXCEPT !.frame = "TargetACK"], Ack, placed)

\* aa26StartFrame
StartFrame(x) ==
  [Forgotten(x) EXCEPT !.frame = "Source", !.escape = FALSE, !.heard = <<Syn>>]

\* aa26Echo: the echo is right, or the transaction ends; then the next symbol.
Echo(x, raw, early, placed) ==
  LET wrong == raw # x.echo \/ early
      closed == Close(DeliverRaw(x), "Collision")
      told == DeliverRaw([x EXCEPT !.awaitEcho = FALSE])
      next == IF x.frame = "TargetACK" THEN [told EXCEPT !.frame = "Response"] ELSE [told EXCEPT !.offset = @ + 1]
      a == Authority(next)
  IN  CASE wrong -> IF raw = Syn THEN StartFrame(closed) ELSE closed
        [] ~wrong /\ next.offset = Len(x.reply) -> [next EXCEPT !.frame = "InitiatorACK"]
        [] ~wrong /\ next.offset # Len(x.reply) /\ a.reason # "None" -> Close(a.x, a.reason)
        [] OTHER -> Emit(a.x, x.reply[next.offset + 1], placed)

-----------------------------------------------------------------------------
(* Selection                                                               *)

\* An initiator's hold whose command has lapsed is dropped.
HoldDropped(x) == IF x.held \in lapsed THEN [x EXCEPT !.held = 0] ELSE x

\* aa26Select with AA23SelectProvisional: the current plan is pinned, and let go if it
\* is not the one that was bound.
SelectDropsHold(x, address) ==
  LET p == x.bindings[address]
      s == Serviced(x)
  IN  IF x.disarmed \/ p = 0 \/ IPCReason(s, p) # "None" \/ x.clockClosed \/ p \in expired THEN x
      ELSE [s EXCEPT !.active = TRUE, !.pin = x.current[address], !.plan = p, !.lost = 0]
Select(x, address) ==
  LET free == HoldDropped(x)
      p == x.bindings[address]
      s == Serviced(free)
      admits == /\ IPCReason(s, p) = "None"
                /\ ~x.clockClosed /\ x.current[address] # 0
                /\ pool[x.current[address]] \in Readable /\ x.current[address] \notin expired
  IN  CASE x.disarmed \/ free.held # 0 -> x
        [] ~x.disarmed /\ free.held = 0 /\ p = 0 -> free
        [] ~x.disarmed /\ free.held = 0 /\ p # 0 /\ ~admits -> s
        [] ~x.disarmed /\ free.held = 0 /\ p # 0 /\ admits /\ p # x.current[address] ->
             [s EXCEPT !.ack = IF x.current[address] \in x.superseded \cup x.revoked THEN x.current[address] ELSE @]
        [] OTHER -> [s EXCEPT !.active = TRUE, !.pin = x.current[address], !.plan = p, !.lost = 0]

\* aa26ObserveSource; every request start has an ordinal, which may be used up.
ObserveSource(x, raw, exhausted) ==
  CASE raw \notin Initiators -> [Forgotten(x) EXCEPT !.frame = "Skip"]
    [] raw \in Initiators /\ exhausted -> RaiseGap(x, "Gap")
    [] OTHER -> [x EXCEPT !.source = raw, !.crc = CRCStep(@, raw), !.frame = "Target"]

\* aa26ObserveTarget: with the selection the subscriber gets the symbols so far.
ObserveTarget(x, raw) ==
  LET chosen == Select([x EXCEPT !.crc = CRCStep(@, raw)], raw)
      syn == Deliver([chosen EXCEPT !.frame = "PB"], "Raw", 1)
      source == Deliver(Deliver(syn, "Raw", 2), "Logical", 2)
  IN  IF raw \in Targets /\ chosen.active THEN Deliver(Deliver(source, "Raw", 3), "Logical", 3)
      ELSE [Forgotten(IF raw \in Targets THEN chosen ELSE x) EXCEPT !.frame = "Skip"]

-----------------------------------------------------------------------------
(* The request                                                             *)

\* AA23Match: overlapping entries are not admitted, so at most one matches.
Matching(x) ==
  {e \in setup.plans[x.pin].entries : x.source \in e.sources /\ e.pb = x.pb /\ e.sb = x.sb /\ e.data = x.data}

\* aa26Prepare, when the data is complete and before the checksum
Prepare(x) ==
  CASE PinReason(x) # "None" -> Close(x, PinReason(x))
    [] PinReason(x) = "None" /\ Matching(x) = {} -> x
    [] OTHER -> [x EXCEPT !.prepared = TRUE, !.reply = (CHOOSE e \in Matching(x) : TRUE).reply]

\* aa26ObserveLogical
LengthUnchecked(x0, byte, placed) ==
  LET x == DeliverLogical(x0)
  IN  CASE x.frame = "PB" -> [x EXCEPT !.pb = byte, !.frame = "SB"]
        [] x.frame = "SB" -> [x EXCEPT !.sb = byte, !.frame = "NN"]
        [] x.frame = "NN" /\ byte > 16 -> Close(x, "Malformed")
        [] x.frame = "NN" /\ byte = 0 -> Prepare([x EXCEPT !.nn = 0, !.data = <<>>, !.frame = "CRC"])
        [] x.frame = "NN" /\ byte \in 1 .. 16 ->
             [x EXCEPT !.nn = byte, !.data = <<>>, !.frame = "Data"]
        [] x.frame = "Data" ->
             LET y == [x EXCEPT !.data = Append(@, byte)]
             IN  IF Len(y.data) = x.nn THEN Prepare([y EXCEPT !.frame = "CRC"]) ELSE y
        [] x.frame = "CRC" -> Decide(x, byte, placed)
ObserveLogical(x0, byte, placed) ==
  LET x == DeliverLogical(x0)
  IN  CASE x.frame = "PB" -> [x EXCEPT !.pb = byte, !.frame = "SB"]
        [] x.frame = "SB" -> [x EXCEPT !.sb = byte, !.frame = "NN"]
        [] x.frame = "NN" /\ byte > setup.maxRequestData -> Close(x, "Malformed")
        [] x.frame = "NN" /\ byte = 0 -> Prepare([x EXCEPT !.nn = 0, !.data = <<>>, !.frame = "CRC"])
        [] x.frame = "NN" /\ byte \in 1 .. setup.maxRequestData ->
             [x EXCEPT !.nn = byte, !.data = <<>>, !.frame = "Data"]
        [] x.frame = "Data" ->
             LET y == [x EXCEPT !.data = Append(@, byte)]
             IN  IF Len(y.data) = x.nn THEN Prepare([y EXCEPT !.frame = "CRC"]) ELSE y
        [] x.frame = "CRC" -> Decide(x, byte, placed)

\* aa26ObserveRequest: the checksum covers the raw symbols but its own.
SuffixNotCovered(x0, raw, placed) ==
  LET told == DeliverRaw(x0)
      x == IF told.frame = "CRC" \/ told.escape THEN told ELSE [told EXCEPT !.crc = CRCStep(@, raw)]
      plain == [x EXCEPT !.escape = FALSE]
  IN  CASE x.escape /\ raw = EscapedEscape -> ObserveLogical(plain, Escape, placed)
        [] x.escape /\ raw = EscapedSyn -> ObserveLogical(plain, Syn, placed)
        [] x.escape /\ raw \notin {EscapedEscape, EscapedSyn} -> Close(plain, "Malformed")
        [] ~x.escape /\ raw = Escape -> [x EXCEPT !.escape = TRUE]
        [] OTHER -> ObserveLogical(x, raw, placed)
ObserveRequest(x0, raw, placed) ==
  LET told == DeliverRaw(x0)
      x == IF told.frame = "CRC" THEN told ELSE [told EXCEPT !.crc = CRCStep(@, raw)]
      plain == [x EXCEPT !.escape = FALSE]
  IN  CASE x.escape /\ raw = EscapedEscape -> ObserveLogical(plain, Escape, placed)
        [] x.escape /\ raw = EscapedSyn -> ObserveLogical(plain, Syn, placed)
        [] x.escape /\ raw \notin {EscapedEscape, EscapedSyn} -> Close(plain, "Malformed")
        [] ~x.escape /\ raw = Escape -> [x EXCEPT !.escape = TRUE]
        [] OTHER -> ObserveLogical(x, raw, placed)

\* The last symbol of the transaction is the initiator's.
ObserveInitiatorACK(x, raw) ==
  Close(DeliverRaw(x), CASE raw = Ack -> "Completed" [] raw = Nack -> "InitiatorNACK" [] OTHER -> "Malformed")

Following(x) == x.frame \notin {"Unsynced", "Skip"}

\* aa26RawSymbol for a sound reading
RawSymbol(x0, raw, early, placed, exhausted) ==
  LET x == IF Following(x0) THEN [x0 EXCEPT !.heard = Append(@, raw)] ELSE x0
  IN  CASE x.awaitEcho -> Echo(x, raw, early, placed)
        [] ~x.awaitEcho /\ raw = Syn -> StartFrame(IF x.active THEN Close(DeliverRaw(x), "Interrupted") ELSE x)
        [] ~x.awaitEcho /\ raw # Syn /\ ~Following(x) -> x
        [] ~x.awaitEcho /\ raw # Syn /\ x.frame = "Source" -> ObserveSource(x, raw, exhausted)
        [] ~x.awaitEcho /\ raw # Syn /\ x.frame = "Target" -> ObserveTarget(x, raw)
        [] ~x.awaitEcho /\ raw # Syn /\ x.frame \in {"PB", "SB", "NN", "Data", "CRC"} -> ObserveRequest(x, raw, placed)
        [] ~x.awaitEcho /\ raw # Syn /\ x.frame = "InitiatorACK" -> ObserveInitiatorACK(x, raw)
        [] OTHER -> Close(DeliverRaw(x), "Collision")

-----------------------------------------------------------------------------
(* The calls of the responder                                              *)

Calls == UNCHANGED <<setup, hostVars, expired, lapsed, seen>>

\* AA25TryPublish, for each kind of event of the bit engine.
ObserveRaw ==
  /\ \E raw \in setup.symbols, early \in IF r.awaitEcho THEN BOOLEAN ELSE {FALSE},
        refused \in May("refuse"), exhausted \in May("gap") :
       r' = RawSymbol(r, raw, early, ~refused, exhausted)
  /\ Calls /\ UNCHANGED acks

\* A loss, a used-up sequence number or a regressing reading disarms.
ObserveGap ==
  /\ \E reason \in {"Gap", "Clock"} : Uses(IF reason = "Gap" THEN "gap" ELSE "clock") /\ r' = RaiseGap(r, reason)
  /\ Calls /\ UNCHANGED acks

ObserveFraming ==
  /\ Uses("fault") /\ r' = [Close(r, "Framing") EXCEPT !.frame = "Unsynced"]
  /\ Calls /\ UNCHANGED acks

\* AA26Poll; late says that the echo's or the idle bus's bound has passed.
Housekeep(x0, late) ==
  LET x == HoldDropped(x0)
      a == Authority(x)
  IN  CASE ~x.active -> x
        [] x.active /\ late -> Close(x, IF x.awaitEcho THEN "Collision" ELSE "Idle")
        [] x.active /\ ~late /\ a.reason # "None" -> Close(a.x, a.reason)
        [] OTHER -> a.x
AA26Poll(late) == r' = Housekeep(r, late) /\ Calls /\ UNCHANGED acks

Acknowledge(p, given) == acks' = IF given THEN acks \cup {p} ELSE acks

\* AA26AdoptPlan with AA23AdoptPlan; the superseded plan is acknowledged unless it is
\* pinned.
AA26AdoptPlan(p) ==
  LET a == AddressOf(p)
      previous == r.current[a]
      old == previous # 0 /\ pool[previous] # "Reclaimed"
  IN  /\ pool[p] = "Published" /\ planStream[p] = r.stream /\ p > r.planTop[a]
      /\ ~r.clockClosed /\ p \notin expired
      /\ r' = [r EXCEPT !.planTop[a] = p, !.current[a] = p, !.bindings[a] = p,
                        !.superseded = IF old THEN @ \cup {previous} ELSE @]
      /\ Acknowledge(previous, old /\ r.pin # previous)
      /\ Calls

\* AA26ObserveRevocation: a superseded plan's transaction goes on, any other's ends.
RevocationForgetsPin(x0, n) ==
  LET a == AddressOf(n.plan)
      x == [x0 EXCEPT !.superseded = IF n.reason = "Superseded" THEN @ \cup {n.plan} ELSE @,
                      !.revoked = IF n.reason = "Superseded" THEN @ ELSE @ \cup {n.plan},
                      !.current[a] = IF @ = n.plan THEN 0 ELSE @,
                      !.bindings[a] = IF @ = n.plan THEN 0 ELSE @]
      ends == x.active /\ n.reason # "Superseded" /\ x.plan = n.plan
      closed == Close(x, n.reason)
  IN  IF ends THEN [x |-> [closed EXCEPT !.ack = 0], ack |-> closed.ack]
      ELSE [x |-> x, ack |-> n.plan]
AcknowledgesOnce(x0, n) ==
  LET a == AddressOf(n.plan)
      x == [x0 EXCEPT !.superseded = IF n.reason = "Superseded" THEN @ \cup {n.plan} ELSE @,
                      !.revoked = IF n.reason = "Superseded" THEN @ ELSE @ \cup {n.plan},
                      !.current[a] = IF @ = n.plan THEN 0 ELSE @,
                      !.bindings[a] = IF @ = n.plan THEN 0 ELSE @]
      ends == x.active /\ n.reason # "Superseded" /\ x.plan = n.plan
      closed == Close(x, n.reason)
  IN  IF ends THEN [x |-> [closed EXCEPT !.ack = 0], ack |-> closed.ack]
      ELSE [x |-> x, ack |-> IF x.pin = n.plan \/ n.plan \in x0.superseded \cup x0.revoked THEN 0 ELSE n.plan]
Revocation(x0, n) ==
  LET a == AddressOf(n.plan)
      x == [x0 EXCEPT !.superseded = IF n.reason = "Superseded" THEN @ \cup {n.plan} ELSE @,
                      !.revoked = IF n.reason = "Superseded" THEN @ ELSE @ \cup {n.plan},
                      !.current[a] = IF @ = n.plan THEN 0 ELSE @,
                      !.bindings[a] = IF @ = n.plan THEN 0 ELSE @]
      ends == x.active /\ n.reason # "Superseded" /\ x.plan = n.plan
      closed == Close(x, n.reason)
  IN  IF ends THEN [x |-> [closed EXCEPT !.ack = 0], ack |-> closed.ack]
      ELSE [x |-> x, ack |-> IF x.pin = n.plan THEN 0 ELSE n.plan]
AA26ObserveRevocation(n) ==
  /\ pool[n.plan] = "Retained" /\ planStream[n.plan] <= r.stream
  /\ LET done == Revocation(r, n) IN r' = done.x /\ Acknowledge(done.ack, done.ack # 0)
  /\ Calls

AA26TakeAcknowledgement ==
  /\ r.ack # 0 /\ Acknowledge(r.ack, TRUE) /\ r' = [r EXCEPT !.ack = 0]
  /\ Calls

\* AA26AdvanceStream with AA23AdvanceStream, and the endpoint of the next stream.
AA26AdvanceStream ==
  /\ r.stream < hostStream
  /\ r' = [Close(r, "Stream") EXCEPT
             !.stream = @ + 1, !.read = 0, !.fenced = FALSE, !.command = 0, !.commandPlan = 0,
             !.bindings = [a \in Targets |-> 0], !.current = [a \in Targets |-> 0],
             !.disarmed = FALSE, !.held = 0, !.frame = "Unsynced"]
  /\ Calls /\ UNCHANGED acks

\* AA26StartInitiator with AA24AdmitOutput for the command that was delivered.
AA26StartInitiator(started) ==
  LET s == Serviced(r)
      held == IPCReason(s, r.commandPlan) = "None"
  IN  /\ ~r.active /\ r.held = 0 /\ r.command # 0
      /\ r' = CASE held /\ r.command \in lapsed -> [s EXCEPT !.command = 0, !.commandPlan = 0]
                [] held /\ r.command \notin lapsed /\ started -> [s EXCEPT !.held = r.command]
                [] OTHER -> s
      /\ Calls /\ UNCHANGED acks

AA26EndInitiator ==
  /\ r.held # 0 /\ r' = [r EXCEPT !.held = 0]
  /\ Calls /\ UNCHANGED acks

-----------------------------------------------------------------------------
(* The caller's own use of the view and of the endpoint                    *)

\* AA24NextCommand takes the next command, after the one before it was completed.
NextCommand ==
  /\ r.tokens < setup.commands
  /\ \E p \in Plans :
       /\ IPCReason(Serviced(r), p) = "None"
       /\ r' = [Serviced(r) EXCEPT !.tokens = @ + 1, !.command = r.tokens + 1, !.commandPlan = p]
  /\ Calls /\ UNCHANGED acks

\* A reading of another origin closes the view's clock, a full lane the stream.
ViewClockFault ==
  /\ Uses("clock") /\ ~r.clockClosed /\ r' = [r EXCEPT !.clockClosed = TRUE]
  /\ Calls /\ UNCHANGED acks
IPCFault ==
  /\ Uses("stop") /\ ~r.fenced /\ r' = [r EXCEPT !.fenced = TRUE]
  /\ Calls /\ UNCHANGED acks

-----------------------------------------------------------------------------
PollInTime == AA26Poll(FALSE)
PollLate == AA26Poll(TRUE)
Publish == \E p \in Plans : HostPublish(p)
Retire == \E p \in Plans : HostRetire(p)
Sends == \E p \in Plans, kind \in {"publish", "revoke"} : HostSends(kind, p)
Reclaim == \E p \in Plans : HostReclaims(p)
Expires == \E p \in Plans : PlanExpires(p)
Lapses == \E c \in 1 .. setup.commands : CommandLapses(c)
Adopt == \E p \in Plans : AA26AdoptPlan(p)
Notify == \E n \in notices : AA26ObserveRevocation(n)
Start == \E refused \in May("refuse") : AA26StartInitiator(~refused)

Next ==
  \/ Publish \/ Retire \/ Sends \/ HostStops \/ HostRebinds \/ Reclaim \/ Expires \/ Lapses
  \/ ObserveRaw \/ ObserveGap \/ ObserveFraming \/ PollInTime \/ PollLate
  \/ Adopt \/ Notify \/ AA26TakeAcknowledgement \/ AA26AdvanceStream \/ Start \/ AA26EndInitiator
  \/ AA26DrainObserver \/ NextCommand \/ ViewClockFault \/ IPCFault

\* The caller goes on polling while time passes; the host delivers the notices of the
\* plans that it still retains, again and again, and reclaims what is acknowledged;
\* the stream the host has bound is entered.
Fairness ==
  /\ WF_vars(PollLate) /\ WF_vars(AA26AdvanceStream) /\ WF_vars(Reclaim)
  /\ \A p \in UNION {DOMAIN s.plans : s \in Setups} :
       SF_vars(\E n \in notices : n.plan = p /\ AA26ObserveRevocation(n))

Spec == Init /\ [][Next]_vars
FairSpec == Spec /\ Fairness

-----------------------------------------------------------------------------
(* Properties                                                              *)

Frames == {"Unsynced", "Skip", "Source", "Target", "PB", "SB", "NN", "Data", "CRC",
           "TargetACK", "Response", "InitiatorACK"}
Events == [kind : {"Raw", "Logical", "Closed"}, sequence : Nat, lost : Nat]

TypeOK ==
  /\ setup \in Setups
  /\ pool \in [Plans -> {"None", "Published", "Retained", "Reclaimed"}]
  /\ planStream \in [Plans -> 0 .. setup.streams] /\ hostStream \in 1 .. setup.streams
  /\ notices \subseteq [plan : Plans, reason : {"Superseded", "Revoked"}]
  /\ acks \subseteq Plans /\ expired \subseteq Plans /\ lapsed \subseteq 1 .. setup.commands
  /\ r.frame \in Frames /\ {r.escape, r.active, r.prepared, r.awaitEcho, r.disarmed} \subseteq BOOLEAN
  /\ {r.crc, r.source, r.pb, r.sb, r.nn, r.echo} \subseteq Byte
  /\ Len(r.data) <= setup.maxRequestData /\ r.offset <= Len(r.reply)
  /\ {r.plan, r.pin, r.ack, r.commandPlan} \subseteq Plans \cup {0} /\ r.superseded \cup r.revoked \subseteq Plans
  /\ \A a \in Targets : {r.bindings[a], r.current[a], r.planTop[a]} \subseteq Plans \cup {0}
  /\ Range(r.ring) \subseteq Events /\ Len(r.ring) <= setup.ring
  /\ r.stream \in 1 .. hostStream /\ r.read <= Len(lane[r.stream]) /\ {r.held, r.command} \subseteq 0 .. setup.commands

\* How an initiator puts a request on the wire: every byte after the addresses is
\* escaped, and the checksum covers what is sent.
Escaped(byte) == IF byte = Escape THEN <<Escape, EscapedEscape>> ELSE IF byte = Syn THEN <<Escape, EscapedSyn>> ELSE <<byte>>
Request(source, target, e) ==
  LET body == FlattenSeq([i \in 1 .. 3 + Len(e.data) |-> Escaped((<<e.pb, e.sb, Len(e.data)>> \o e.data)[i])])
      sent == <<source, target>> \o body
  IN  <<Syn>> \o sent \o Escaped(FoldLeft(CRCStep, 0, sent))

\* The responder has spoken only after it heard, since the SYN, a request as an
\* initiator encodes it, whose checksum is right and which an entry of the pinned plan
\* answers; it has sent the ACK and that entry's reply, in order, each symbol after the
\* echo of the one before.
AnswersWhatWasHeard ==
  r.emitted # <<>> =>
    /\ r.active
    /\ \E e \in setup.plans[r.pin].entries : \E source \in e.sources :
         LET reply == <<Ack>> \o e.reply
             echoed == Len(r.emitted) - (IF r.awaitEcho THEN 1 ELSE 0)
         IN  /\ Len(r.emitted) <= Len(reply)
             /\ r.heard = Request(source, AddressOf(r.pin), e) \o SubSeq(reply, 1, echoed)
             /\ r.emitted = SubSeq(reply, 1, Len(r.emitted))
             /\ r.awaitEcho \/ echoed = Len(reply)

\* "Its wire authority excludes local initiator starts from selection to closure":
\* the transaction and an initiator's hold exclude each other, whichever came first and
\* however the other's deadline passes.
WireExclusion == ~(r.active /\ r.held # 0)

\* Binding, current plan and pin are the same plan, through supersession, late notices
\* and new streams; and what is acknowledged to the host is neither pinned nor can be
\* selected again, so that its storage may be handed on.
AcknowledgedIsOver ==
  /\ r.bindings = r.current
  /\ r.active = (r.pin # 0) /\ r.plan = r.pin
  /\ \A p \in (acks \cup {r.ack}) \ {0} : p # r.pin /\ \A a \in Targets : r.current[a] # p

\* The subscriber can tell: a transaction whose closing event claims that nothing was
\* lost has come through without a gap, however the ring was full or drained.
LossIsTold == FoldLeft(Follow, seen, r.ring) # NoGapShown

\* What the responder says and what it tells is what was heard.
HeardAndTold ==
  /\ AnswersWhatWasHeard
  /\ LossIsTold

\* Through supersession, late notices, initiators and new streams, the responder holds
\* the wire alone and has let go of what it acknowledged.
HoldsInv ==
  /\ TypeOK
  /\ WireExclusion
  /\ AcknowledgedIsOver

\* A symbol goes out only with nothing against it on either control plane, records that
\* the worker has not read yet included: any revocation, stop, gap or deadline silences
\* the next symbol, whatever happened since the selection.
SilentWithoutAuthority ==
  [][Len(r'.emitted) > Len(r.emitted) =>
       LET p == r'.pin
           s == r'.stream
       IN  /\ Sent(s, "publish", p) /\ ~Sent(s, "revoke", p) /\ ~Sent(s, "stop", 0) /\ ~r'.fenced
           /\ pool[p] \in Readable /\ planStream[p] = s /\ p \notin expired /\ p \notin r'.revoked
           /\ ~r'.disarmed /\ ~r'.clockClosed /\ r'.held = 0]_vars

\* "A lost one is recovered by delivering the pending revocation notice again": every
\* plan that the host retires is reclaimed in the end, though the responder keeps only
\* its latest acknowledgement and a transaction may hold the plan.
RetiredIsReclaimed ==
  \A p \in UNION {DOMAIN s.plans : s \in Setups} :
    (p \in Plans /\ pool[p] = "Retained") ~> (p \in Plans /\ pool[p] = "Reclaimed")
=============================================================================
