-------------------------- MODULE Aa26ResponderProofs --------------------------
(***************************************************************************)
(* Machine-checked proofs about Aa26Responder, for any plans, addresses,   *)
(* requests, answers, streams and sizes of the ring: the wire is held by   *)
(* one party, what is acknowledged is over, and no symbol is sent against  *)
(* either control plane.                                                   *)
(*                                                                         *)
(* A call of the worker is a function of the responder r, so the lemmas    *)
(* are about functions: x is the responder a function is given and y the   *)
(* one it returns.  Good(y) is the invariant of a responder, Hushed(x, y)  *)
(* that nothing was sent, and Fine(x, y) that what was sent had authority. *)
(***************************************************************************)
EXTENDS Aa26Responder, SequenceTheorems, TLAPS

-----------------------------------------------------------------------------
(* The inductive invariant.                                                *)

Bytes == Seq(Byte)
Flags == BOOLEAN
Counts == Nat
PlanIds == Plans \cup {0}
PlanSets == SUBSET Plans
Tables == [Targets -> Plans \cup {0}]
CommandIds == 0 .. setup.commands
EventSeqs == Seq(Events)
Records == [kind : {"publish", "revoke", "stop"}, plan : Plans \cup {0}]
Storage == {"None", "Published", "Retained", "Reclaimed"}

Responders ==
  [frame : Frames, escape : Flags, crc : Byte, source : Byte, pb : Byte, sb : Byte, nn : Byte,
   data : Bytes, heard : Bytes,
   active : Flags, plan : PlanIds, reply : Bytes, prepared : Flags, offset : Counts,
   awaitEcho : Flags, echo : Byte, emitted : Bytes,
   disarmed : Flags, bindings : Tables, held : CommandIds, ack : PlanIds,
   ring : EventSeqs, lost : Counts,
   stream : Counts, current : Tables, planTop : Tables,
   superseded : PlanSets, revoked : PlanSets, pin : PlanIds, clockClosed : Flags,
   read : Counts, fenced : Flags, command : CommandIds, commandPlan : PlanIds, tokens : Counts]

\* Plans that were published and are not any more.
Gone == {"Retained", "Reclaimed"}
\* The phases in which the request is read, and those in which it is answered.
Asked == {"PB", "SB", "NN", "Data", "CRC"}
Spoken == {"TargetACK", "Response", "InitiatorACK"}

\* What the view calls current can be selected: it belongs to the address and to the
\* stream, and nothing was said against it.
ViewOK(x) ==
  /\ x.bindings = x.current
  /\ \A a \in Targets : x.current[a] # 0 =>
       /\ AddressOf(x.current[a]) = a /\ pool[x.current[a]] # "None" /\ planStream[x.current[a]] = x.stream
       /\ x.current[a] <= x.planTop[a] /\ x.current[a] \notin x.superseded \cup x.revoked
  /\ \A p \in x.superseded \cup x.revoked : pool[p] \in Gone

\* A transaction holds its plan and nothing else; what is acknowledged is neither held
\* nor current, and cannot be adopted again.
HoldOK(x) ==
  /\ x.active = (x.pin # 0) /\ x.plan = x.pin /\ (x.active => x.held = 0)
  /\ x.pin # 0 => pool[x.pin] # "None" /\ planStream[x.pin] = x.stream
  /\ \A p \in (acks \cup {x.ack}) \ {0} : pool[p] \in Gone /\ p # x.pin /\ \A a \in Targets : x.current[a] # p

\* There is a request and an answer in a transaction only, and the answer is sent from
\* its first symbol to its last.
SendOK(x) ==
  /\ x.frame \in Asked \cup Spoken => x.active
  /\ x.prepared => x.active
  /\ x.awaitEcho => x.frame \in {"TargetACK", "Response"}
  /\ x.frame \notin {"Response", "InitiatorACK"} => x.offset = 0
  /\ x.offset <= Len(x.reply)
  /\ x.awaitEcho /\ x.frame = "Response" => x.offset < Len(x.reply)

TextOK(x) ==
  /\ Len(x.data) <= setup.maxRequestData
  /\ x.frame = "Data" => Len(x.data) < x.nn /\ x.nn <= setup.maxRequestData

RingOK(x) == Len(x.ring) <= setup.ring
ReadOK(x) == x.stream \in 1 .. hostStream /\ x.read <= Len(lane[x.stream])

Good(x) == x \in Responders /\ ViewOK(x) /\ HoldOK(x) /\ SendOK(x) /\ TextOK(x) /\ RingOK(x) /\ ReadOK(x)

\* The host's side, where an address has one published plan at most.
HostOK ==
  /\ setup \in Setups /\ pool \in [Plans -> Storage]
  /\ planStream \in [Plans -> 0 .. setup.streams] /\ hostStream \in 1 .. setup.streams
  /\ notices \subseteq [plan : Plans, reason : {"Superseded", "Revoked"}]
  /\ lane \in [1 .. setup.streams -> Seq(Records)]
  /\ acks \subseteq Plans /\ expired \subseteq Plans /\ lapsed \subseteq 1 .. setup.commands
  /\ \A p, q \in Plans : pool[p] = "Published" /\ pool[q] = "Published" /\ AddressOf(p) = AddressOf(q) => p = q

AuthorityInv == HostOK /\ Good(r)

\* Nothing on either control plane is against what y sends.
Armed(y) ==
  LET p == y.pin
      s == y.stream
  IN  /\ Sent(s, "publish", p) /\ ~Sent(s, "revoke", p) /\ ~Sent(s, "stop", 0) /\ ~y.fenced
      /\ pool[p] \in Readable /\ planStream[p] = s /\ p \notin expired /\ p \notin y.revoked
      /\ ~y.disarmed /\ ~y.clockClosed /\ y.held = 0

\* Nothing was sent by the call that made y of x; or it was sent with authority.
Hushed(x, y) == y.emitted \in {x.emitted, <<>>}
Quiet(x, y) == Hushed(x, y) \/ Armed(y)

\* What the view, the transaction and the answer consist of.
SameView(x, y) ==
  /\ y.bindings = x.bindings /\ y.current = x.current /\ y.planTop = x.planTop /\ y.stream = x.stream
  /\ y.superseded = x.superseded /\ y.revoked = x.revoked /\ y.clockClosed = x.clockClosed /\ y.fenced = x.fenced
SameHold(x, y) ==
  y.active = x.active /\ y.pin = x.pin /\ y.plan = x.plan /\ y.ack = x.ack /\ y.held = x.held
SameSend(x, y) ==
  /\ y.prepared = x.prepared /\ y.reply = x.reply /\ y.offset = x.offset
  /\ y.awaitEcho = x.awaitEcho /\ y.emitted = x.emitted
SameRing(x, y) == y.ring = x.ring /\ y.read = x.read
SameText(x, y) == y.data = x.data /\ y.nn = x.nn
Same(x, y) == SameView(x, y) /\ SameHold(x, y) /\ SameSend(x, y)

-----------------------------------------------------------------------------
(* Updates of the responder.                                               *)

\* What a setup is.
LEMMA SetupFacts ==
  ASSUME setup \in Setups
  PROVE  /\ setup.streams \in Nat /\ setup.ring \in Nat /\ setup.maxRequestData \in Nat /\ setup.commands \in Nat
         /\ setup.streams > 0 /\ setup.ring > 0
         /\ setup.symbols \subseteq Byte /\ Plans \subseteq Nat \ {0} /\ 0 \notin Plans
         /\ \A p \in Plans : AddressOf(p) \in Targets /\ \A e \in setup.plans[p].entries : e.reply \in Bytes
<1>0. SetupOK(setup)
  BY SetupsAssumption, Zenon
<1>1. setup.symbols \subseteq Byte /\ DOMAIN setup.plans \subseteq Nat \ {0}
  BY <1>0, Zenon DEF SetupOK
<1>2. {setup.streams, setup.ring} \subseteq Nat \ {0} /\ {setup.maxRequestData, setup.commands, setup.buffer} \subseteq Nat
  BY <1>0, Zenon DEF SetupOK
<1>3. \A p \in DOMAIN setup.plans :
        setup.plans[p].address \in Targets /\ \A e \in setup.plans[p].entries : e.reply \in Seq(Byte)
  BY <1>0, Zenon DEF SetupOK
<1>4. /\ setup.streams \in Nat \ {0} /\ setup.ring \in Nat \ {0} /\ setup.maxRequestData \in Nat /\ setup.commands \in Nat
  BY <1>2, Zenon
<1>5. setup.streams \in Nat /\ setup.ring \in Nat /\ setup.streams > 0 /\ setup.ring > 0
  BY <1>4
<1>6. 0 \notin Plans
  BY <1>1 DEF Plans
<1> QED
  BY <1>1, <1>3, <1>4, <1>5, <1>6, Zenon DEF Plans, AddressOf, Bytes

\* The least values of the types, and the phases.
LEMMA Zeros ==
  ASSUME setup \in Setups
  PROVE  /\ 0 \in Byte /\ Syn \in Byte /\ Ack \in Byte /\ Escape \in Byte /\ <<>> \in Bytes /\ 0 \in PlanIds /\ 0 \in CommandIds
         /\ 0 \in Counts /\ 1 \in Counts /\ TRUE \in Flags /\ FALSE \in Flags /\ <<>> \in EventSeqs
         /\ {"Unsynced", "Skip", "Source", "Target"} \cup Asked \cup Spoken = Frames
<1>1. 0 \in CommandIds
  BY SetupFacts DEF CommandIds
<1>2. {"Unsynced", "Skip", "Source", "Target"} \cup Asked \cup Spoken = Frames
  BY DEF Asked, Spoken, Frames
<1>3. /\ 0 \in Byte /\ Syn \in Byte /\ Ack \in Byte /\ Escape \in Byte /\ <<>> \in Bytes
      /\ <<>> \in EventSeqs /\ 0 \in Counts /\ 1 \in Counts
  BY DEF Byte, Syn, Ack, Escape, Bytes, EventSeqs, Counts
<1>4. TRUE \in Flags /\ FALSE \in Flags /\ 0 \in PlanIds
  BY DEF Flags, PlanIds
<1> QED
  BY <1>1, <1>2, <1>3, <1>4

\* The parts of the invariant that a call leaves alone.
LEMMA KeptGood ==
  ASSUME NEW x, NEW y, Good(x), y \in Responders, SameView(x, y), SameHold(x, y),
         SendOK(y), TextOK(y), RingOK(y), ReadOK(y)
  PROVE  Good(y)
<1>1. ViewOK(y)
  BY DEF Good, ViewOK, SameView
<1>2. HoldOK(y)
  BY DEF Good, HoldOK, SameView, SameHold
<1> QED
  BY <1>1, <1>2, Zenon DEF Good

\* What is sent reads the hold, the answer and the phase.
LEMMA KeptSend ==
  ASSUME NEW x, NEW y, SendOK(x), SameHold(x, y), SameSend(x, y), y.frame = x.frame
  PROVE  SendOK(y)
BY Zenon DEF SendOK, SameHold, SameSend

\* The request's bounds read its length, its bytes and the phase.
LEMMA KeptText ==
  ASSUME NEW x, NEW y, TextOK(x), SameText(x, y), y.frame = x.frame
  PROVE  TextOK(y)
BY Zenon DEF TextOK, SameText

\* What was read of the lane is still there.
LEMMA KeptRead ==
  ASSUME NEW x, NEW y, ReadOK(x), SameView(x, y), y.read = x.read
  PROVE  ReadOK(y)
BY Zenon DEF ReadOK, SameView

\* The ring is as full as it was.
LEMMA KeptRing ==
  ASSUME NEW x, NEW y, RingOK(x), y.ring = x.ring
  PROVE  RingOK(y)
BY Zenon DEF RingOK

\* Only what was told has changed.
Told(x, y) ==
  /\ y \in Responders /\ Same(x, y) /\ SameText(x, y) /\ RingOK(y)
  /\ y.frame = x.frame /\ y.escape = x.escape /\ y.read = x.read

\* A delivery to the observer keeps the invariant and sends nothing.
LEMMA ToldGood ==
  ASSUME NEW x, NEW y, Good(x), Told(x, y)
  PROVE  Good(y) /\ Hushed(x, y)
<1>1. SendOK(y)
  BY KeptSend, Zenon DEF Good, Told, Same
<1>2. TextOK(y)
  BY KeptText, Zenon DEF Good, Told
<1>3. ReadOK(y)
  BY KeptRead, Zenon DEF Good, Told, Same
<1>4. Good(y)
  BY <1>1, <1>2, <1>3, KeptGood, Zenon DEF Told, Same
<1>5. Hushed(x, y)
  BY Zenon DEF Hushed, Told, Same, SameSend
<1> QED
  BY <1>4, <1>5

Kinds == {"Raw", "Logical", "Closed"}
\* Deliver appends to the ring, or counts a loss when it is full.
LEMMA Delivered ==
  ASSUME NEW x \in Responders, RingOK(x), setup \in Setups, NEW kind \in Kinds, NEW sequence \in Nat
  PROVE  Told(x, Deliver(x, kind, sequence))
<1>0. x \in Responders /\ RingOK(x)
  OBVIOUS
<1>1. x.ring \in EventSeqs /\ x.lost \in Counts
  BY <1>0 DEF Responders
<1>2. CASE Len(x.ring) = setup.ring
  <2> DEFINE y == [x EXCEPT !.lost = x.lost + 1]
  <2>1. x.lost + 1 \in Counts
    BY <1>1 DEF Counts
  <2>2. y \in Responders
    BY <1>0, <2>1, ZenonT(60) DEF Responders
  <2>3. /\ Same(x, y) /\ SameText(x, y) /\ y.frame = x.frame /\ y.escape = x.escape /\ y.read = x.read
        /\ y.ring = x.ring
    BY <1>0 DEF Responders, Same, SameView, SameHold, SameSend, SameText
  <2>4. RingOK(y)
    BY <1>0, <2>3, KeptRing, Zenon
  <2>5. Deliver(x, kind, sequence) = y
    BY <1>2, Zenon DEF Deliver
  <2> QED
    BY <2>2, <2>3, <2>4, <2>5, Zenon DEF Told
<1>3. CASE Len(x.ring) # setup.ring
  <2> DEFINE e == [kind |-> kind, sequence |-> sequence, lost |-> x.lost]
             g == Append(x.ring, e)
             y == [x EXCEPT !.ring = g]
  <2>1. e \in Events
    BY <1>1 DEF Events, Kinds, Counts
  <2>2. g \in EventSeqs /\ Len(g) = Len(x.ring) + 1
    BY <1>1, <2>1 DEF EventSeqs
  <2>3. y \in Responders
    BY <1>0, <2>2, ZenonT(60) DEF Responders
  <2>4. /\ Same(x, y) /\ SameText(x, y) /\ y.frame = x.frame /\ y.escape = x.escape /\ y.read = x.read
        /\ y.ring = g
    <3> HIDE DEF g
    <3> QED
      BY <1>0 DEF Responders, Same, SameView, SameHold, SameSend, SameText
  <2>5. Len(x.ring) \in Nat /\ setup.ring \in Nat /\ Len(x.ring) <= setup.ring
    BY <1>0, <1>1, SetupFacts DEF EventSeqs, RingOK
  <2>6. RingOK(y)
    <3> HIDE DEF g, y
    <3> QED
      BY <2>2, <2>4, <2>5, <1>3 DEF RingOK
  <2>7. Deliver(x, kind, sequence) = y
    BY <1>3, Zenon DEF Deliver
  <2> QED
    BY <2>3, <2>4, <2>6, <2>7, Zenon DEF Told
<1> QED
  BY <1>2, <1>3

\* Delivery, of a responder that is as it should be.
LEMMA DeliveredGood ==
  ASSUME NEW x, Good(x), setup \in Setups, NEW kind \in Kinds, NEW sequence \in Nat
  PROVE  LET y == Deliver(x, kind, sequence) IN Told(x, y) /\ Good(y) /\ Hushed(x, y)
<1>1. x \in Responders /\ RingOK(x)
  BY Zenon DEF Good
<1>2. Told(x, Deliver(x, kind, sequence))
  BY <1>1, Delivered, Zenon
<1> QED
  BY <1>2, ToldGood, Zenon

\* The same for the two kinds of symbols.
LEMMA DeliveredSymbol ==
  ASSUME NEW x, Good(x), setup \in Setups
  PROVE  /\ Told(x, DeliverRaw(x)) /\ Good(DeliverRaw(x)) /\ Hushed(x, DeliverRaw(x))
         /\ Told(x, DeliverLogical(x)) /\ Good(DeliverLogical(x)) /\ Hushed(x, DeliverLogical(x))
<1>1. x.heard \in Bytes
  BY DEF Good, Responders
<1>2. Len(x.heard) \in Nat
  BY <1>1 DEF Bytes
<1>3. "Raw" \in Kinds /\ "Logical" \in Kinds
  BY DEF Kinds
<1> QED
  BY <1>2, <1>3, DeliveredGood, Zenon DEF DeliverRaw, DeliverLogical

\* A frame that is not followed any more.
LEMMA ForgottenKeeps ==
  ASSUME NEW x \in Responders, setup \in Setups
  PROVE  LET y == Forgotten(x)
         IN  /\ y \in Responders /\ Same(x, y) /\ SameRing(x, y)
             /\ y.data = <<>> /\ y.nn = 0 /\ y.frame = x.frame /\ y.escape = x.escape
             /\ y.lost = x.lost /\ y.disarmed = x.disarmed
<1> DEFINE y == Forgotten(x)
<1>1. y \in Responders
  BY Zeros, ZenonT(60) DEF Responders, Forgotten
<1>2. /\ Same(x, y) /\ SameRing(x, y)
      /\ y.data = <<>> /\ y.nn = 0 /\ y.frame = x.frame /\ y.escape = x.escape
      /\ y.lost = x.lost /\ y.disarmed = x.disarmed
  BY DEF Responders, Forgotten, Same, SameView, SameHold, SameSend, SameRing
<1> QED
  BY <1>1, <1>2, Zenon

\* The frame is left, and the rest is as it was.
Left(x, y) ==
  /\ y \in Responders /\ Same(x, y) /\ SameRing(x, y) /\ y.data = <<>> /\ y.nn = 0

\* Outside the data an empty request is within its bounds.
LEMMA NoText ==
  ASSUME NEW y, setup \in Setups, y.data = <<>>, y.frame # "Data"
  PROVE  TextOK(y)
<1>1. Len(y.data) = 0
  OBVIOUS
<1>2. Len(y.data) <= setup.maxRequestData
  BY <1>1, SetupFacts
<1> QED
  BY <1>2 DEF TextOK

\* A transaction is over.
Over(x, y) ==
  /\ Good(y) /\ Hushed(x, y) /\ SameView(x, y) /\ y.read = x.read
  /\ y.frame \in {"Skip", "Unsynced"} /\ ~y.active /\ y.held = x.held

\* Close lets the plan go and acknowledges it when the host waits for it.
LEMMA ClosedGood ==
  ASSUME NEW x, NEW reason, Good(x), HostOK
  PROVE  Over(x, Close(x, reason))
<1> DEFINE f == Forgotten(x)
           d == (x.disarmed \/ reason = "Clock")
           base == [f EXCEPT !.frame = "Skip", !.escape = FALSE, !.disarmed = d]
           told == Deliver(base, "Closed", 0)
           k == IF x.pin \in x.superseded \cup x.revoked THEN x.pin ELSE x.ack
           y == [told EXCEPT !.ack = k, !.pin = 0,
                        !.active = FALSE, !.plan = 0, !.reply = <<>>, !.prepared = FALSE, !.offset = 0,
                        !.awaitEcho = FALSE, !.echo = 0, !.emitted = <<>>, !.lost = 0]
<1>a. setup \in Setups
  BY Zenon DEF HostOK
<1>b. x \in Responders /\ ViewOK(x) /\ HoldOK(x) /\ SendOK(x) /\ RingOK(x) /\ ReadOK(x)
  BY Zenon DEF Good
<1>c. d \in Flags /\ "Skip" \in Frames /\ "Closed" \in Kinds
  BY DEF Flags, Frames, Kinds
<1>d. f \in Responders /\ Same(x, f) /\ SameRing(x, f) /\ f.data = <<>> /\ f.nn = 0 /\ f.disarmed = x.disarmed
  BY <1>a, <1>b, ForgottenKeeps, Zenon
<1>e. base \in Responders
  <2> HIDE DEF f, d
  <2> QED
    BY <1>a, <1>c, <1>d, Zeros, ZenonT(60) DEF Responders
<1>f. /\ Same(f, base) /\ SameRing(f, base) /\ base.data = f.data /\ base.nn = f.nn /\ base.frame = "Skip"
  <2> HIDE DEF f, d
  <2> QED
    BY <1>d DEF Responders, Same, SameView, SameHold, SameSend, SameRing
<1>g. Same(x, base) /\ SameRing(x, base) /\ base.data = <<>> /\ base.frame = "Skip"
  <2> HIDE DEF f, base
  <2> QED
    BY <1>d, <1>f, Zenon DEF Same, SameView, SameHold, SameSend, SameRing
<1>h. RingOK(base) /\ ReadOK(base) /\ TextOK(base)
  <2>0. "Skip" # "Data"
    OBVIOUS
  <2> HIDE DEF base
  <2>1. RingOK(base) /\ ReadOK(base)
    BY <1>b, <1>g, KeptRing, KeptRead, Zenon DEF SameRing, Same
  <2>2. TextOK(base)
    BY <1>a, <1>g, <2>0, NoText, Zenon
  <2> QED
    BY <2>1, <2>2
<1>1. CASE ~x.active
  <2>1. SendOK(base)
    <3> HIDE DEF base
    <3> QED
      BY <1>1, <1>b, <1>g, Zenon DEF SendOK, Same, SameSend, SameHold, Asked, Spoken
  <2>2. Good(base)
    <3> HIDE DEF base
    <3> QED
      BY <2>1, <1>e, <1>g, <1>h, KeptGood, Zenon DEF Same
  <2>3. Over(x, base)
    <3> HIDE DEF base
    <3> QED
      BY <2>2, <1>1, <1>g, Zenon DEF Over, Hushed, Same, SameSend, SameHold, SameRing
  <2>4. Close(x, reason) = base
    BY <1>1, <1>b, <1>d, Zenon DEF Close
  <2> QED
    BY <2>3, <2>4, Zenon
<1>2. CASE x.active
  <2>1. Told(base, told)
    <3> HIDE DEF base
    <3> QED
      BY <1>a, <1>c, <1>e, <1>h, Delivered
  <2>2. told \in Responders /\ SameView(x, told) /\ SameHold(x, told) /\ told.frame = "Skip" /\ RingOK(told)
        /\ told.data = <<>> /\ told.read = x.read
    <3> HIDE DEF base, told
    <3> QED
      BY <2>1, <1>g, Zenon DEF Told, Same, SameView, SameHold, SameText, SameRing
  <2>3. k \in PlanIds
    BY <1>b DEF Responders
  <2>4. y \in Responders
    <3> HIDE DEF told, k
    <3> QED
      BY <2>2, <2>3, <1>a, Zeros, ZenonT(120) DEF Responders
  <2>5. /\ y.ack = k /\ y.pin = 0 /\ y.active = FALSE /\ y.plan = 0 /\ y.reply = <<>> /\ y.prepared = FALSE
        /\ y.offset = 0 /\ y.awaitEcho = FALSE /\ y.emitted = <<>> /\ y.frame = told.frame /\ y.ring = told.ring
        /\ y.data = told.data /\ y.read = told.read /\ y.held = told.held /\ SameView(told, y)
    <3> HIDE DEF told, k
    <3> QED
      BY <2>2 DEF Responders, SameView
  <2>6. SameView(x, y)
    <3> HIDE DEF told, y
    <3> QED
      BY <2>2, <2>5, Zenon DEF SameView
  <2>7. ViewOK(y)
    <3> HIDE DEF told, y
    <3> QED
      BY <1>b, <2>6 DEF ViewOK, SameView
  <2>8. HoldOK(y)
    <3>1. k = x.ack \/ k \in x.superseded \cup x.revoked
      OBVIOUS
    <3> HIDE DEF told, y, k
    <3>2. y.current = x.current /\ y.ack = k /\ y.pin = 0 /\ ~y.active /\ y.plan = 0 /\ y.stream = x.stream
      BY <2>5, <2>6, Zenon DEF SameView
    <3>3. ASSUME NEW p \in (acks \cup {y.ack}) \ {0}
          PROVE  pool[p] \in Gone /\ p # y.pin /\ \A a \in Targets : y.current[a] # p
      <4>1. CASE p \in (acks \cup {x.ack}) \ {0}
        BY <4>1, <3>2, <1>b DEF HoldOK
      <4>2. CASE p \in x.superseded \cup x.revoked
        BY <4>2, <3>2, <3>3, <1>b DEF ViewOK
      <4> QED
        BY <3>1, <3>2, <4>1, <4>2
    <3>4. y.active = (y.pin # 0) /\ y.plan = y.pin /\ (y.active => y.held = 0) /\ ~(y.pin # 0)
      BY <2>5, Zenon
    <3> QED
      BY <3>3, <3>4, Zenon DEF HoldOK
  <2>9. SendOK(y) /\ RingOK(y) /\ TextOK(y) /\ ReadOK(y)
    <3>0. "Skip" # "Data" /\ "Skip" \notin Asked \cup Spoken /\ "Skip" \notin {"Response", "InitiatorACK"}
      BY DEF Asked, Spoken
    <3> HIDE DEF told, y, k
    <3>1. SendOK(y)
      BY <2>2, <2>5, <3>0 DEF SendOK
    <3>2. RingOK(y) /\ ReadOK(y)
      BY <2>2, <2>5, <2>6, <1>b, KeptRing, KeptRead, Zenon
    <3>3. TextOK(y)
      BY <1>a, <2>2, <2>5, <3>0, NoText, Zenon
    <3> QED
      BY <3>1, <3>2, <3>3
  <2>10. Over(x, y)
    <3> HIDE DEF told, y, k
    <3>1. y.read = x.read /\ y.frame = "Skip" /\ y.held = x.held /\ y.emitted = <<>> /\ ~y.active
      BY <2>2, <2>5, Zenon DEF SameHold
    <3> QED
      BY <2>4, <2>6, <2>7, <2>8, <2>9, <3>1, Zenon DEF Over, Hushed, Good
  <2>11. Close(x, reason) = y
    <3>1. told.ack = x.ack
      <4> HIDE DEF told
      <4> QED
      BY <2>2, Zenon DEF SameHold
    <3>2. k = IF x.pin \in x.superseded \cup x.revoked THEN x.pin ELSE told.ack
      BY <3>1, Zenon
    <3> HIDE DEF k
    <3> QED
      BY <1>2, <1>d, <3>2, <2>2 DEF Close
  <2> QED
    BY <2>10, <2>11, Zenon
<1> QED
  BY <1>1, <1>2

\* Between the frames, and as long as nothing is sent, a phase follows another.
LEMMA Moved ==
  ASSUME NEW x, NEW y, Good(x), y \in Responders, Same(x, y), SameRing(x, y), TextOK(y),
         y.frame \notin Spoken, y.frame \in Asked => x.active, x.offset = 0, ~x.awaitEcho
  PROVE  Good(y) /\ Hushed(x, y)
<1>0. "Response" \in Spoken /\ "InitiatorACK" \in Spoken
  BY DEF Spoken
<1>1. SendOK(y)
  <2>1. /\ y.active = x.active /\ y.prepared = x.prepared /\ y.offset = 0 /\ ~y.awaitEcho /\ y.offset <= Len(y.reply)
        /\ x.prepared => x.active
    BY Zenon DEF Good, SendOK, Same, SameHold, SameSend
  <2> QED
    BY <2>1, Zenon DEF SendOK
<1>2. RingOK(y) /\ ReadOK(y)
  BY KeptRing, KeptRead, Zenon DEF Good, SameRing, Same
<1>3. Good(y)
  BY <1>1, <1>2, KeptGood, Zenon DEF Same
<1>4. Hushed(x, y)
  BY Zenon DEF Hushed, Same, SameSend
<1> QED
  BY <1>3, <1>4

\* Without a transaction there is nothing to send.
LEMMA Idle ==
  ASSUME NEW x, Good(x), ~x.active \/ x.frame \notin Spoken
  PROVE  x.offset = 0 /\ ~x.awaitEcho
BY Zenon DEF Good, SendOK, Spoken

\* A gap closes the transaction.
LEMMA RaisedGood ==
  ASSUME NEW x, NEW reason, Good(x), HostOK
  PROVE  Over(x, RaiseGap(x, reason))
<1> DEFINE c == Close(x, reason)
           y == [c EXCEPT !.disarmed = TRUE, !.frame = "Unsynced"]
<1>1. Over(x, c) /\ setup \in Setups
  BY ClosedGood, Zenon DEF HostOK
<1>2. c \in Responders /\ Good(c) /\ ~c.active /\ TextOK(c)
  BY <1>1, Zenon DEF Over, Good
<1>3. TRUE \in Flags /\ "Unsynced" \in Frames /\ "Unsynced" \notin Spoken \cup Asked /\ "Unsynced" # "Data"
  BY DEF Flags, Frames, Spoken, Asked
<1>4. y \in Responders
  <2> HIDE DEF c
  <2> QED
    BY <1>2, <1>3, ZenonT(60) DEF Responders
<1>5. Same(c, y) /\ SameRing(c, y) /\ SameText(c, y) /\ y.frame = "Unsynced"
  <2> HIDE DEF c
  <2> QED
    BY <1>2 DEF Responders, Same, SameView, SameHold, SameSend, SameRing, SameText
<1>6. TextOK(y)
  <2> HIDE DEF c, y
  <2> QED
    BY <1>2, <1>3, <1>5, Zenon DEF TextOK, SameText
<1>7. Good(y) /\ Hushed(c, y)
  <2> HIDE DEF c, y
  <2> QED
    BY <1>2, <1>3, <1>4, <1>5, <1>6, Idle, Moved, Zenon
<1>8. Over(x, y)
  <2> HIDE DEF c, y
  <2> QED
    BY <1>1, <1>5, <1>7, Zenon DEF Over, Hushed, Same, SameView, SameHold, SameRing
<1> QED
  BY <1>8, Zenon DEF RaiseGap

\* A SYN starts a frame.
LEMMA StartedGood ==
  ASSUME NEW x, Good(x), HostOK, ~x.active
  PROVE  Good(StartFrame(x)) /\ Hushed(x, StartFrame(x))
<1> DEFINE f == Forgotten(x)
           y == [f EXCEPT !.frame = "Source", !.escape = FALSE, !.heard = <<Syn>>]
<1>a. setup \in Setups
  BY Zenon DEF HostOK
<1>b. x \in Responders /\ x.offset = 0 /\ ~x.awaitEcho
  BY Idle, Zenon DEF Good
<1>c. "Source" \in Frames /\ "Source" \notin Spoken \cup Asked /\ "Source" # "Data"
  BY DEF Frames, Spoken, Asked
<1>d. <<Syn>> \in Bytes
  BY DEF Bytes, Syn, Byte
<1>1. f \in Responders /\ Same(x, f) /\ SameRing(x, f) /\ f.data = <<>> /\ f.nn = 0
  BY <1>a, <1>b, ForgottenKeeps, Zenon
<1>2. y \in Responders
  <2> HIDE DEF f
  <2> QED
    BY <1>a, <1>c, <1>d, <1>1, Zeros, ZenonT(60) DEF Responders
<1>3. Same(f, y) /\ SameRing(f, y) /\ y.data = f.data /\ y.frame = "Source"
  <2> HIDE DEF f
  <2> QED
    BY <1>1 DEF Responders, Same, SameView, SameHold, SameSend, SameRing
<1>4. Same(x, y) /\ SameRing(x, y) /\ y.data = <<>>
  <2> HIDE DEF f, y
  <2> QED
    BY <1>1, <1>3, Zenon DEF Same, SameView, SameHold, SameSend, SameRing
<1>5. TextOK(y)
  <2> HIDE DEF f, y
  <2> QED
    BY <1>a, <1>c, <1>3, <1>4, NoText, Zenon
<1>6. Good(y) /\ Hushed(x, y)
  <2> HIDE DEF f, y
  <2> QED
    BY <1>b, <1>c, <1>2, <1>3, <1>4, <1>5, Moved, Zenon
<1> QED
  BY <1>6, Zenon DEF StartFrame

\* The frame is skipped.
LEMMA SkippedGood ==
  ASSUME NEW x, Good(x), HostOK, x.offset = 0, ~x.awaitEcho
  PROVE  LET y == [Forgotten(x) EXCEPT !.frame = "Skip"] IN Good(y) /\ Hushed(x, y)
<1> DEFINE f == Forgotten(x)
           y == [f EXCEPT !.frame = "Skip"]
<1>a. setup \in Setups /\ x \in Responders
  BY Zenon DEF HostOK, Good
<1>c. "Skip" \in Frames /\ "Skip" \notin Spoken \cup Asked /\ "Skip" # "Data"
  BY DEF Frames, Spoken, Asked
<1>1. f \in Responders /\ Same(x, f) /\ SameRing(x, f) /\ f.data = <<>> /\ f.nn = 0
  BY <1>a, ForgottenKeeps, Zenon
<1>2. y \in Responders
  <2> HIDE DEF f
  <2> QED
    BY <1>c, <1>1, ZenonT(60) DEF Responders
<1>3. Same(f, y) /\ SameRing(f, y) /\ y.data = f.data /\ y.frame = "Skip"
  <2> HIDE DEF f
  <2> QED
    BY <1>1 DEF Responders, Same, SameView, SameHold, SameSend, SameRing
<1>4. Same(x, y) /\ SameRing(x, y) /\ y.data = <<>>
  <2> HIDE DEF f, y
  <2> QED
    BY <1>1, <1>3, Zenon DEF Same, SameView, SameHold, SameSend, SameRing
<1>5. TextOK(y)
  <2> HIDE DEF f, y
  <2> QED
    BY <1>a, <1>c, <1>3, <1>4, NoText, Zenon
<1>6. Good(y) /\ Hushed(x, y)
  <2> HIDE DEF f, y
  <2> QED
    BY <1>c, <1>2, <1>3, <1>4, <1>5, Moved, Zenon
<1> QED
  BY <1>6, Zenon

-----------------------------------------------------------------------------
(* Authority.                                                              *)

\* Control has been serviced, and nothing else has changed.
Served(x, y) ==
  /\ y \in Responders /\ Same(x, y) /\ SameText(x, y) /\ y.ring = x.ring
  /\ y.frame = x.frame /\ y.disarmed = x.disarmed
  /\ y.command = x.command /\ y.commandPlan = x.commandPlan /\ y.tokens = x.tokens

\* A serviced control lane disturbs nothing else.
LEMMA ServedGood ==
  ASSUME NEW x, NEW y, Good(x), Served(x, y), ReadOK(y)
  PROVE  Good(y) /\ Hushed(x, y)
<1>1. SendOK(y)
  BY KeptSend, Zenon DEF Good, Served, Same
<1>2. TextOK(y) /\ RingOK(y)
  BY KeptText, KeptRing, Zenon DEF Good, Served
<1>4. Good(y)
  BY <1>1, <1>2, KeptGood, Zenon DEF Served, Same
<1>5. Hushed(x, y)
  BY Zenon DEF Hushed, Served, Same, SameSend
<1> QED
  BY <1>4, <1>5

\* Servicing reads the lane of the stream to its end.
LEMMA ServicedGood ==
  ASSUME NEW x, Good(x), HostOK
  PROVE  LET y == Serviced(x)
         IN  Served(x, y) /\ Good(y) /\ Hushed(x, y) /\ y.read = Len(lane[y.stream]) /\ x.stream \in 1 .. setup.streams
<1> DEFINE n == Len(lane[x.stream])
           y == [x EXCEPT !.read = n]
<1>0. x \in Responders /\ ReadOK(x)
  BY Zenon DEF Good
<1>1. x.stream \in 1 .. setup.streams
  BY <1>0, SetupFacts DEF ReadOK, HostOK
<1>2. n \in Counts
  BY <1>1 DEF HostOK, Counts
<1>3. y \in Responders
  <2> HIDE DEF n
  <2> QED
    BY <1>0, <1>2, ZenonT(60) DEF Responders
<1>4. Same(x, y) /\ SameText(x, y) /\ y.ring = x.ring /\ y.frame = x.frame /\ y.disarmed = x.disarmed /\ y.read = n
      /\ y.command = x.command /\ y.commandPlan = x.commandPlan /\ y.tokens = x.tokens
  <2> HIDE DEF n
  <2> QED
    BY <1>0 DEF Responders, Same, SameView, SameHold, SameSend, SameText
<1>5. Served(x, y)
  <2> HIDE DEF y
  <2> QED
    BY <1>3, <1>4, Zenon DEF Served
<1>6. y.stream = x.stream
  <2> HIDE DEF y
  <2> QED
    BY <1>4, Zenon DEF Same, SameView
<1>7. ReadOK(y)
  <2> HIDE DEF y
  <2> QED
    BY <1>0, <1>2, <1>4, <1>6 DEF ReadOK, Counts
<1>8. Good(y) /\ Hushed(x, y)
  <2> HIDE DEF y
  <2> QED
    BY <1>5, <1>7, ServedGood, Zenon
<1> QED
  BY <1>1, <1>4, <1>5, <1>6, <1>8, Zenon DEF Serviced

\* What is known of a lane that is read to its end is what was sent on it.
LEMMA KnowsSent ==
  ASSUME NEW x, NEW kind, NEW p, HostOK, x.stream \in 1 .. setup.streams, x.read = Len(lane[x.stream])
  PROVE  Knows(x, kind, p) = Sent(x.stream, kind, p)
<1>1. DOMAIN lane[x.stream] = 1 .. x.read
  BY DEF HostOK
<1> QED
  BY <1>1, Zenon DEF Knows, Sent

\* What aa26IPCReason promises of a serviced endpoint.
LEMMA IPCReasonNone ==
  ASSUME NEW x, NEW p, HostOK, x.stream \in 1 .. setup.streams, x.read = Len(lane[x.stream]), IPCReason(x, p) = "None"
  PROVE  Sent(x.stream, "publish", p) /\ ~Sent(x.stream, "revoke", p) /\ ~Sent(x.stream, "stop", 0) /\ ~x.fenced
<1>1. OutputOpen(x) /\ ~Knows(x, "revoke", p) /\ Knows(x, "publish", p)
  BY DEF IPCReason
<1> QED
  BY <1>1, KnowsSent, Zenon DEF OutputOpen

\* What aa23Live promises of the pinned plan.
LEMMA PinReasonNone ==
  ASSUME NEW x, PinReason(x) = "None"
  PROVE  ~x.clockClosed /\ pool[x.pin] \in Readable /\ x.pin \notin x.revoked /\ x.pin \notin expired
BY DEF PinReason

\* The answer of aa26Authority, and what it means when there is no reason against.
Ruled(x, a) ==
  /\ Served(x, a.x) /\ Good(a.x) /\ Hushed(x, a.x)
  /\ a.reason = "None" => Armed(a.x)

\* aa26Authority finds no reason only when both control planes allow the answer.
LEMMA AuthorityGood ==
  ASSUME NEW x, Good(x), HostOK, x.active
  PROVE  Ruled(x, Authority(x))
<1> DEFINE s == Serviced(x)
           a == Authority(x)
           reason == IF IPCReason(s, x.plan) # "None" THEN IPCReason(s, x.plan) ELSE PinReason(s)
<1>0. x \in Responders /\ HoldOK(x)
  BY Zenon DEF Good
<1>s. /\ Served(x, s) /\ Good(s) /\ Hushed(x, s) /\ s.read = Len(lane[s.stream]) /\ s.stream \in 1 .. setup.streams
  <2>1. Served(x, s) /\ Good(s) /\ Hushed(x, s) /\ s.read = Len(lane[s.stream]) /\ x.stream \in 1 .. setup.streams
    BY ServicedGood, Zenon
  <2> QED
    BY <2>1, Zenon DEF Served, Same, SameView
<1> SUFFICES Ruled(x, a)
  OBVIOUS
<1>1. CASE x.disarmed
  <2>1. a.x = x /\ a.reason = "Gap"
    BY <1>1 DEF Authority
  <2>2. Served(x, x)
    BY <1>0, Zenon DEF Served, Same, SameView, SameHold, SameSend, SameText
  <2>3. a.reason # "None"
    BY <2>1
  <2> HIDE DEF a
  <2> QED
    BY <2>1, <2>2, <2>3, Zenon DEF Hushed, Ruled
<1>2. CASE ~x.disarmed
  <2>1. a.x = s /\ a.reason = reason
    BY <1>2 DEF Authority
  <2>2. ASSUME reason = "None" PROVE Armed(s)
    <3>1. IPCReason(s, x.plan) = "None" /\ PinReason(s) = "None"
      BY <2>2, Zenon
    <3> HIDE DEF s, reason
    <3>2. /\ Sent(s.stream, "publish", x.plan) /\ ~Sent(s.stream, "revoke", x.plan)
          /\ ~Sent(s.stream, "stop", 0) /\ ~s.fenced
      BY <3>1, <1>s, IPCReasonNone, Zenon
    <3>3. ~s.clockClosed /\ pool[s.pin] \in Readable /\ s.pin \notin s.revoked /\ s.pin \notin expired
      BY <3>1, PinReasonNone, Zenon
    <3>4. x.plan = s.pin /\ s.active /\ s.pin # 0 /\ s.held = 0 /\ planStream[s.pin] = s.stream
      BY <1>0, <1>s, Zenon DEF HoldOK, Served, Same, SameHold, SameView
    <3>5. ~s.disarmed
      BY <1>2, <1>s, Zenon DEF Served
    <3> QED
      BY <3>2, <3>3, <3>4, <3>5, Zenon DEF Armed
  <2> HIDE DEF a, s, reason
  <2> QED
    BY <1>s, <2>1, <2>2, Zenon DEF Ruled
<1> QED
  BY <1>1, <1>2

-----------------------------------------------------------------------------
(* What is sent.                                                           *)

Fine(x, y) == Good(y) /\ Quiet(x, y)

\* Calls compose: nothing is sent, then what is sent is sent with authority.
LEMMA HushedThen ==
  ASSUME NEW x, NEW z, NEW y, Hushed(x, z)
  PROVE  /\ Hushed(z, y) => Hushed(x, y)
         /\ Fine(z, y) => Fine(x, y)
         /\ Over(z, y) => Fine(x, y)
BY Zenon DEF Hushed, Fine, Quiet, Over

\* A call that sends nothing.
LEMMA HushedFine ==
  ASSUME NEW x, NEW y
  PROVE  /\ Good(y) /\ Hushed(x, y) => Fine(x, y)
         /\ Over(x, y) => Fine(x, y)
BY Zenon DEF Hushed, Fine, Quiet, Over

\* Authority reads the view and the hold.
LEMMA ArmedKept ==
  ASSUME NEW x, NEW y, Armed(x), SameView(x, y), SameHold(x, y), y.disarmed = x.disarmed
  PROVE  Armed(y)
BY Zenon DEF Armed, SameView, SameHold

\* The next symbol of the answer is due.
Due(x) == x.frame = "TargetACK" \/ (x.frame = "Response" /\ x.offset < Len(x.reply))

\* aa26Emit, with authority and with a symbol due.
LEMMA EmitFine ==
  ASSUME NEW x, NEW symbol \in Byte, NEW placed, Good(x), HostOK, Armed(x), Due(x)
  PROVE  Fine(x, Emit(x, symbol, placed))
<1>1. CASE ~placed
  BY <1>1, ClosedGood, HushedFine, Zenon DEF Emit
<1>2. CASE ~(~placed)
  <2> DEFINE g == Append(x.emitted, symbol)
             y == [x EXCEPT !.awaitEcho = TRUE, !.echo = symbol, !.emitted = g]
  <2>0. x \in Responders /\ SendOK(x) /\ TextOK(x) /\ RingOK(x) /\ ReadOK(x)
    BY Zenon DEF Good
  <2>1. g \in Bytes /\ TRUE \in Flags
    BY <2>0 DEF Responders, Bytes, Flags
  <2>2. y \in Responders
    <3> HIDE DEF g
    <3> QED
      BY <2>0, <2>1, ZenonT(60) DEF Responders
  <2>3. /\ SameView(x, y) /\ SameHold(x, y) /\ SameText(x, y) /\ SameRing(x, y) /\ y.disarmed = x.disarmed
        /\ y.frame = x.frame /\ y.prepared = x.prepared /\ y.reply = x.reply /\ y.offset = x.offset
    <3> HIDE DEF g
    <3> QED
      BY <2>0 DEF Responders, SameView, SameHold, SameText, SameRing
  <2> HIDE DEF y
  <2>4. SendOK(y)
    <3>1. x.frame \in {"TargetACK", "Response"} /\ (x.frame = "Response" => x.offset < Len(x.reply))
      BY DEF Due
    <3> QED
      BY <2>0, <2>3, <3>1, Zenon DEF SendOK, SameHold
  <2>5. TextOK(y) /\ RingOK(y) /\ ReadOK(y)
    BY <2>0, <2>3, KeptText, KeptRing, KeptRead, Zenon DEF SameRing
  <2>6. Good(y)
    BY <2>2, <2>3, <2>4, <2>5, KeptGood, Zenon
  <2>7. Armed(y)
    BY <2>3, ArmedKept, Zenon
  <2>8. Emit(x, symbol, placed) = y
    BY <1>2, Zenon DEF Emit, y
  <2> QED
    BY <2>6, <2>7, <2>8, Zenon DEF Fine, Quiet
<1> QED
  BY <1>1, <1>2, Zenon

\* The checksum has been received: the request is answered or closed.
LEMMA DecideFine ==
  ASSUME NEW x, NEW received, NEW placed, Good(x), HostOK, x.frame = "CRC"
  PROVE  Fine(x, Decide(x, received, placed))
<1> DEFINE a == Authority(x)
           z == [a.x EXCEPT !.frame = "TargetACK"]
<1>0. x.active /\ x.offset = 0 /\ ~x.awaitEcho
  <2>1. x.frame \in Asked /\ x.frame \notin Spoken
    BY DEF Asked, Spoken
  <2> QED
    BY <2>1, Idle, Zenon DEF Good, SendOK
<1>1. Ruled(x, a)
  BY <1>0, AuthorityGood, Zenon
<1>2. CASE received # x.crc \/ ~x.prepared
  <2>1. Decide(x, received, placed) \in {Close(x, "Malformed"), Close(x, "NoMatch")}
    BY <1>2 DEF Decide
  <2> QED
    BY <2>1, ClosedGood, HushedFine, Zenon
<1>3. CASE ~(received # x.crc \/ ~x.prepared) /\ a.reason # "None"
  <2>1. Decide(x, received, placed) = Close(a.x, a.reason)
    BY <1>3 DEF Decide
  <2> HIDE DEF a
  <2>2. Over(a.x, Close(a.x, a.reason)) /\ Hushed(x, a.x)
    BY <1>1, ClosedGood, Zenon DEF Ruled
  <2>3. Fine(x, Close(a.x, a.reason))
    BY <2>2, HushedThen
  <2> QED
    BY <2>1, <2>3, Zenon
<1>4. CASE ~(received # x.crc \/ ~x.prepared) /\ a.reason = "None"
  <2>1. Decide(x, received, placed) = Emit(z, Ack, placed)
    BY <1>4 DEF Decide
  <2> HIDE DEF a
  <2>2. a.x \in Responders /\ Served(x, a.x) /\ Good(a.x) /\ Hushed(x, a.x) /\ Armed(a.x)
    BY <1>1, <1>4, Zenon DEF Ruled, Served
  <2>3. z \in Responders
    <3>1. "TargetACK" \in Frames
      BY DEF Frames
    <3> QED
      BY <2>2, <3>1, ZenonT(60) DEF Responders
  <2>4. Same(a.x, z) /\ SameText(a.x, z) /\ SameRing(a.x, z) /\ z.disarmed = a.x.disarmed /\ z.frame = "TargetACK"
    BY <2>2 DEF Responders, Same, SameView, SameHold, SameSend, SameText, SameRing
  <2> HIDE DEF z
  <2>5. a.x.active /\ a.x.offset = 0 /\ ~a.x.awaitEcho /\ SendOK(a.x) /\ TextOK(a.x) /\ RingOK(a.x) /\ ReadOK(a.x)
    BY <2>2, <1>0, Zenon DEF Served, Same, SameHold, SameSend, Good
  <2>6. SendOK(z)
    <3>1. "TargetACK" \notin {"Response", "InitiatorACK"} /\ "TargetACK" # "Response"
      OBVIOUS
    <3>2. z.active /\ z.offset = 0 /\ ~z.awaitEcho /\ z.offset <= Len(z.reply)
      BY <2>4, <2>5, Zenon DEF SendOK, Same, SameHold, SameSend
    <3> QED
      BY <2>4, <3>1, <3>2, Zenon DEF SendOK
  <2>7. TextOK(z)
    <3>1. "TargetACK" # "Data"
      OBVIOUS
    <3> QED
      BY <3>1, <2>4, <2>5, Zenon DEF TextOK, SameText
  <2>8. RingOK(z) /\ ReadOK(z)
    BY <2>4, <2>5, KeptRing, KeptRead, Zenon DEF SameRing, Same
  <2>9. Good(z) /\ Armed(z)
    BY <2>2, <2>3, <2>4, <2>6, <2>7, <2>8, KeptGood, ArmedKept, Zenon DEF Same
  <2>10. Due(z) /\ Ack \in Byte
    BY <2>4 DEF Due, Ack, Byte
  <2>11. Fine(z, Emit(z, Ack, placed))
    BY <2>9, <2>10, EmitFine, Zenon
  <2>12. Hushed(x, z)
    BY <2>2, <2>4, Zenon DEF Hushed, Same, SameSend
  <2> QED
    BY <2>1, <2>11, <2>12, HushedThen, Zenon
<1> QED
  BY <1>2, <1>3, <1>4, Zenon

\* The echo of a symbol of the answer.
LEMMA EchoFine ==
  ASSUME NEW x, NEW raw \in Byte, NEW early, NEW placed, Good(x), HostOK, x.awaitEcho
  PROVE  Fine(x, Echo(x, raw, early, placed))
<1> DEFINE wrong == raw # x.echo \/ early
           closed == Close(DeliverRaw(x), "Collision")
           heard == [x EXCEPT !.awaitEcho = FALSE]
           told == DeliverRaw(heard)
           next == IF x.frame = "TargetACK" THEN [told EXCEPT !.frame = "Response"] ELSE [told EXCEPT !.offset = told.offset + 1]
           a == Authority(next)
<1>a. setup \in Setups /\ x \in Responders /\ SendOK(x) /\ TextOK(x) /\ RingOK(x) /\ ReadOK(x)
  BY Zenon DEF HostOK, Good
<1>b. /\ x.frame \in {"TargetACK", "Response"} /\ x.active
      /\ x.frame = "TargetACK" => x.offset = 0
      /\ x.frame = "Response" => x.offset < Len(x.reply)
  <2>1. x.frame \in {"TargetACK", "Response"}
    BY <1>a, Zenon DEF SendOK
  <2> QED
    BY <2>1, <1>a DEF SendOK, Spoken
<1>c. x.offset \in Nat /\ x.reply \in Bytes /\ Len(x.reply) \in Nat
  BY <1>a DEF Responders, Counts, Bytes
<1>1. CASE wrong
  <2>1. Good(DeliverRaw(x)) /\ Hushed(x, DeliverRaw(x))
    BY <1>a, DeliveredSymbol, Zenon
  <2>2. Over(DeliverRaw(x), closed)
    BY <2>1, ClosedGood, Zenon
  <2>3. Echo(x, raw, early, placed) = IF raw = Syn THEN StartFrame(closed) ELSE closed
    BY <1>1 DEF Echo
  <2> HIDE DEF closed
  <2>4. Good(closed) /\ ~closed.active /\ Hushed(x, closed)
    BY <2>1, <2>2, HushedThen, Zenon DEF Over
  <2>5. Good(StartFrame(closed)) /\ Hushed(closed, StartFrame(closed))
    BY <2>4, StartedGood, Zenon
  <2>6. Fine(x, closed) /\ Fine(x, StartFrame(closed))
    BY <2>4, <2>5, HushedThen, HushedFine, Zenon
  <2> QED
    BY <2>3, <2>6, Zenon
<1>2. CASE ~wrong
  <2>1. heard \in Responders
    <3>1. FALSE \in Flags
      BY DEF Flags
    <3> QED
      BY <1>a, <3>1, ZenonT(60) DEF Responders
  <2>2. /\ SameView(x, heard) /\ SameHold(x, heard) /\ SameText(x, heard) /\ SameRing(x, heard)
        /\ heard.frame = x.frame /\ heard.prepared = x.prepared /\ heard.reply = x.reply /\ heard.offset = x.offset
        /\ heard.emitted = x.emitted /\ heard.awaitEcho = FALSE
    BY <1>a DEF Responders, SameView, SameHold, SameText, SameRing
  <2>3. Good(heard) /\ Hushed(x, heard)
    <3> HIDE DEF heard
    <3>1. SendOK(heard)
      BY <1>a, <2>2, Zenon DEF SendOK, SameHold
    <3>2. TextOK(heard) /\ RingOK(heard) /\ ReadOK(heard)
      BY <1>a, <2>2, KeptText, KeptRing, KeptRead, Zenon DEF SameRing
    <3> QED
      BY <2>1, <2>2, <3>1, <3>2, KeptGood, Zenon DEF Hushed
  <2>4. Told(heard, told) /\ Good(told) /\ Hushed(heard, told)
    <3> HIDE DEF heard
    <3> QED
      BY <1>a, <2>3, DeliveredSymbol, Zenon
  <2>5. /\ told \in Responders /\ told.frame = x.frame /\ told.reply = x.reply /\ told.offset = x.offset
        /\ ~told.awaitEcho /\ told.active
    <3> HIDE DEF heard, told
    <3> QED
      BY <2>2, <2>4, <1>b, Zenon DEF Told, Same, SameSend, SameHold
  <2>6. /\ next \in Responders /\ SameView(told, next) /\ SameHold(told, next) /\ SameText(told, next) /\ SameRing(told, next)
        /\ next.frame = "Response" /\ next.prepared = told.prepared /\ next.reply = x.reply /\ next.emitted = told.emitted
        /\ ~next.awaitEcho /\ next.offset \in Nat /\ next.offset <= Len(x.reply)
    <3>1. CASE x.frame = "TargetACK"
      <4> DEFINE n == [told EXCEPT !.frame = "Response"]
      <4> HIDE DEF told
      <4>0. "Response" \in Frames
        BY DEF Frames
      <4>1. n \in Responders
        BY <2>5, <4>0, ZenonT(60) DEF Responders
      <4>2. /\ SameView(told, n) /\ SameHold(told, n) /\ SameText(told, n) /\ SameRing(told, n)
            /\ n.frame = "Response" /\ n.prepared = told.prepared /\ n.reply = told.reply /\ n.emitted = told.emitted
            /\ n.awaitEcho = told.awaitEcho /\ n.offset = told.offset
        BY <2>5 DEF Responders, SameView, SameHold, SameText, SameRing
      <4>3. next = n
        BY <3>1, Zenon
      <4> HIDE DEF n, next
      <4>4. n.offset \in Nat /\ n.offset <= Len(x.reply)
        BY <4>2, <2>5, <1>b, <1>c, <3>1
      <4> QED
        BY <4>1, <4>2, <4>3, <4>4, <2>5, Zenon
    <3>2. CASE x.frame = "Response"
      <4> DEFINE m == told.offset + 1
                 n == [told EXCEPT !.offset = m]
      <4>0. "Response" # "TargetACK"
        OBVIOUS
      <4>3. next = n
        BY <3>2, <4>0, Zenon
      <4> HIDE DEF told, next
      <4>m. m \in Counts /\ m \in Nat /\ m <= Len(x.reply)
        BY <2>5, <1>b, <1>c, <3>2 DEF Counts
      <4> HIDE DEF m
      <4>1. n \in Responders
        BY <2>5, <4>m, ZenonT(60) DEF Responders
      <4>2. /\ SameView(told, n) /\ SameHold(told, n) /\ SameText(told, n) /\ SameRing(told, n)
            /\ n.frame = told.frame /\ n.prepared = told.prepared /\ n.reply = told.reply /\ n.emitted = told.emitted
            /\ n.awaitEcho = told.awaitEcho /\ n.offset = m
        BY <2>5 DEF Responders, SameView, SameHold, SameText, SameRing
      <4> HIDE DEF n
      <4> QED
        BY <3>2, <4>1, <4>2, <4>3, <4>m, <2>5, Zenon
    <3> QED
      BY <1>b, <3>1, <3>2, Zenon
  <2>7. Good(next) /\ Hushed(x, next) /\ next.active
    <3> HIDE DEF heard, told, next
    <3>1. SendOK(told) /\ TextOK(told) /\ RingOK(told) /\ ReadOK(told)
      BY <2>4, Zenon DEF Good
    <3>2. next.active
      BY <2>5, <2>6, Zenon DEF SameHold
    <3>3. SendOK(next)
      <4>1. "Response" \in {"Response", "InitiatorACK"}
        OBVIOUS
      <4>2. next.offset <= Len(next.reply)
        BY <2>6, Zenon
      <4> QED
        BY <2>6, <3>2, <4>1, <4>2, Zenon DEF SendOK
    <3>4. TextOK(next)
      <4>1. "Response" # "Data"
        OBVIOUS
      <4> QED
        BY <4>1, <2>6, <3>1, Zenon DEF TextOK, SameText
    <3>5. RingOK(next) /\ ReadOK(next)
      BY <2>6, <3>1, KeptRing, KeptRead, Zenon DEF SameRing
    <3>6. Good(next)
      BY <2>4, <2>6, <3>3, <3>4, <3>5, KeptGood, Zenon
    <3>7. Hushed(x, next)
      BY <2>3, <2>4, <2>6, Zenon DEF Hushed
    <3> QED
      BY <3>2, <3>6, <3>7
  <2>8. CASE next.offset = Len(x.reply)
    <3> DEFINE y == [next EXCEPT !.frame = "InitiatorACK"]
    <3>1. Echo(x, raw, early, placed) = y
      BY <1>2, <2>8 DEF Echo
    <3> HIDE DEF next
    <3>2. "InitiatorACK" \in Frames /\ "InitiatorACK" # "Data" /\ "InitiatorACK" \in {"Response", "InitiatorACK"}
      BY DEF Frames
    <3>3. y \in Responders
      BY <2>6, <3>2, ZenonT(60) DEF Responders
    <3>4. Same(next, y) /\ SameText(next, y) /\ SameRing(next, y) /\ y.frame = "InitiatorACK"
      BY <2>6 DEF Responders, Same, SameView, SameHold, SameSend, SameText, SameRing
    <3> HIDE DEF y
    <3>5. SendOK(next) /\ TextOK(next) /\ RingOK(next) /\ ReadOK(next)
      BY <2>7, Zenon DEF Good
    <3>6. SendOK(y)
      <4>1. y.active /\ ~y.awaitEcho /\ y.offset <= Len(y.reply)
        BY <2>6, <2>7, <3>4, <3>5, Zenon DEF SendOK, Same, SameHold, SameSend
      <4> QED
        BY <3>2, <3>4, <4>1, Zenon DEF SendOK
    <3>7. TextOK(y) /\ RingOK(y) /\ ReadOK(y)
      BY <3>2, <3>4, <3>5, KeptRing, KeptRead, Zenon DEF TextOK, SameText, SameRing, Same
    <3>8. Good(y)
      BY <2>7, <3>3, <3>4, <3>6, <3>7, KeptGood, Zenon DEF Same
    <3>9. Hushed(x, y)
      BY <2>7, <3>4, Zenon DEF Hushed, Same, SameSend
    <3> QED
      BY <3>1, <3>8, <3>9, HushedFine, Zenon
  <2>9. CASE next.offset # Len(x.reply) /\ a.reason # "None"
    <3>1. Echo(x, raw, early, placed) = Close(a.x, a.reason)
      BY <1>2, <2>9 DEF Echo
    <3> HIDE DEF next
    <3>2. Ruled(next, a)
      BY <2>7, AuthorityGood, Zenon
    <3> HIDE DEF a
    <3>3. Over(a.x, Close(a.x, a.reason)) /\ Hushed(x, a.x)
      BY <2>7, <3>2, ClosedGood, HushedThen, Zenon DEF Ruled
    <3>4. Fine(x, Close(a.x, a.reason))
      BY <3>3, HushedThen
    <3> QED
      BY <3>1, <3>4, Zenon
  <2>10. CASE next.offset # Len(x.reply) /\ a.reason = "None"
    <3> DEFINE symbol == x.reply[next.offset + 1]
    <3>1. Echo(x, raw, early, placed) = Emit(a.x, symbol, placed)
      BY <1>2, <2>10 DEF Echo
    <3> HIDE DEF next
    <3>2. Ruled(next, a)
      BY <2>7, AuthorityGood, Zenon
    <3>3. symbol \in Byte
      <4>1. next.offset + 1 \in 1 .. Len(x.reply)
        BY <2>6, <2>10, <1>c
      <4> QED
        BY <4>1, <1>c DEF Bytes
    <3>4. next.offset < Len(next.reply)
      BY <2>6, <2>10, <1>c
    <3> HIDE DEF a, symbol
    <3>5. Good(a.x) /\ Armed(a.x) /\ Hushed(x, a.x)
      BY <2>7, <2>10, <3>2, HushedThen, Zenon DEF Ruled
    <3>6. Due(a.x)
      BY <2>6, <3>2, <3>4, Zenon DEF Due, Ruled, Served, Same, SameSend
    <3>7. Fine(a.x, Emit(a.x, symbol, placed))
      BY <3>3, <3>5, <3>6, EmitFine, Zenon
    <3>8. Fine(x, Emit(a.x, symbol, placed))
      BY <3>5, <3>7, HushedThen
    <3> QED
      BY <3>1, <3>8, Zenon
  <2> QED
    BY <2>8, <2>9, <2>10, Zenon
<1> QED
  BY <1>1, <1>2, Zenon

-----------------------------------------------------------------------------
(* Selection.                                                              *)

\* At most an initiator's hold was dropped.
Freed(x, y) ==
  /\ Good(y) /\ Hushed(x, y) /\ SameView(x, y) /\ y.frame = x.frame /\ y.read = x.read
  /\ y.active = x.active /\ y.disarmed = x.disarmed /\ y.awaitEcho = x.awaitEcho /\ y.offset = x.offset

\* An initiator's hold is given up when its command lapsed.
LEMMA HoldDroppedGood ==
  ASSUME NEW x, Good(x), HostOK
  PROVE  Freed(x, HoldDropped(x))
<1>0. x \in Responders /\ setup \in Setups /\ HoldOK(x) /\ ViewOK(x) /\ SendOK(x) /\ TextOK(x) /\ RingOK(x) /\ ReadOK(x)
  BY Zenon DEF Good, HostOK
<1>1. CASE x.held \in lapsed
  <2> DEFINE y == [x EXCEPT !.held = 0]
  <2>1. y \in Responders
    BY <1>0, Zeros, ZenonT(60) DEF Responders
  <2>2. /\ SameView(x, y) /\ SameSend(x, y) /\ SameText(x, y) /\ SameRing(x, y) /\ y.frame = x.frame
        /\ y.disarmed = x.disarmed /\ y.held = 0
        /\ y.active = x.active /\ y.pin = x.pin /\ y.plan = x.plan /\ y.ack = x.ack
    BY <1>0 DEF Responders, SameView, SameSend, SameText, SameRing
  <2> HIDE DEF y
  <2>3. ViewOK(y)
    BY <1>0, <2>2 DEF ViewOK, SameView
  <2>4. HoldOK(y)
    BY <1>0, <2>2, ZenonT(40) DEF HoldOK, SameView
  <2>5. SendOK(y)
    BY <1>0, <2>2, Zenon DEF SendOK, SameSend
  <2>6. TextOK(y) /\ RingOK(y) /\ ReadOK(y)
    BY <1>0, <2>2, KeptText, KeptRing, KeptRead, Zenon DEF SameRing
  <2>7. Freed(x, y)
    BY <2>1, <2>2, <2>3, <2>4, <2>5, <2>6, Zenon DEF Freed, Good, Hushed, SameSend, SameRing
  <2>8. HoldDropped(x) = y
    BY <1>1, Zenon DEF HoldDropped, y
  <2> QED
    BY <2>7, <2>8, Zenon
<1>2. CASE x.held \notin lapsed
  <2>1. HoldDropped(x) = x
    BY <1>2, Zenon DEF HoldDropped
  <2> QED
    BY <2>1, Zenon DEF Freed, Hushed, SameView
<1> QED
  BY <1>1, <1>2, Zenon

\* The plan that is current for an address is held, unless an initiator holds the wire.
LEMMA SelectGood ==
  ASSUME NEW x, NEW address \in Targets, Good(x), HostOK
  PROVE  Good(Select(x, address)) /\ Hushed(x, Select(x, address)) /\ Select(x, address).frame = x.frame
<1> DEFINE free == HoldDropped(x)
           p == x.bindings[address]
           c == x.current[address]
           s == Serviced(free)
           admits == /\ IPCReason(s, p) = "None"
                     /\ ~x.clockClosed /\ c # 0
                     /\ pool[c] \in Readable /\ c \notin expired
           y == Select(x, address)
<1>a. x \in Responders /\ ViewOK(x)
  BY Zenon DEF Good
<1>b. Freed(x, free)
  BY HoldDroppedGood, Zenon
<1>c. Served(free, s) /\ Good(s) /\ Hushed(free, s)
  <2> HIDE DEF free
  <2>1. Good(free)
    BY <1>b, Zenon DEF Freed
  <2> QED
    BY <2>1, ServicedGood, Zenon
<1>d. s \in Responders /\ SameView(x, s) /\ s.frame = x.frame /\ Hushed(x, s) /\ s.held = free.held
  <2> HIDE DEF free, s
  <2>1. SameView(x, s)
    BY <1>b, <1>c, Zenon DEF Freed, Served, Same, SameView
  <2>2. Hushed(x, s)
    BY <1>b, <1>c, HushedThen DEF Freed
  <2> QED
    BY <1>b, <1>c, <2>1, <2>2, Zenon DEF Freed, Served, Same, SameHold
<1>e. HoldOK(s) /\ ViewOK(s) /\ SendOK(s) /\ TextOK(s) /\ RingOK(s) /\ ReadOK(s)
  <2> HIDE DEF s
  <2> QED
    BY <1>c, Zenon DEF Good
<1>f. c \in PlanIds /\ p = c /\ c = s.current[address] /\ x.superseded = s.superseded /\ x.revoked = s.revoked
  <2>1. x.current \in Tables
    BY <1>a DEF Responders
  <2>2. c \in PlanIds
    BY <2>1 DEF Tables, PlanIds
  <2> HIDE DEF s
  <2> QED
    BY <1>a, <1>d, <2>2, Zenon DEF ViewOK, SameView
<1>1. CASE x.disarmed \/ free.held # 0 \/ p = 0 \/ ~admits
  <2>1. y \in {x, free, s}
    BY <1>1 DEF Select
  <2> HIDE DEF free, s, y
  <2>2. Hushed(x, x) /\ Good(free) /\ Hushed(x, free) /\ free.frame = x.frame
    BY <1>b, Zenon DEF Freed, Hushed
  <2>3. Good(y) /\ Hushed(x, y) /\ y.frame = x.frame
    BY <2>1, <2>2, <1>c, <1>d, Zenon
  <2> QED
    BY <2>3, Zenon DEF y
<1>2. CASE ~(x.disarmed \/ free.held # 0 \/ p = 0 \/ ~admits)
  <2>1. y = [s EXCEPT !.active = TRUE, !.pin = c, !.plan = p, !.lost = 0]
    BY <1>2, <1>f DEF Select
  <2>2. c # 0 /\ s.held = 0
    BY <1>2, <1>d, Zenon
  <2>3. setup \in Setups
    BY Zenon DEF HostOK
  <2> HIDE DEF free, s, y, c, p
  <2>4. y \in Responders
    BY <2>1, <2>3, <1>d, <1>f, Zeros, ZenonT(60) DEF Responders
  <2>5. /\ SameView(s, y) /\ SameSend(s, y) /\ SameText(s, y) /\ SameRing(s, y) /\ y.frame = s.frame
        /\ y.held = s.held /\ y.ack = s.ack /\ y.active = TRUE /\ y.pin = c /\ y.plan = p
    BY <2>1, <1>d DEF Responders, SameView, SameSend, SameText, SameRing
  <2>6. ViewOK(y)
    BY <1>e, <2>5 DEF ViewOK, SameView
  <2>7. HoldOK(y)
    <3>1. pool[c] # "None" /\ planStream[c] = s.stream
      BY <1>e, <1>f, <2>2, Zenon DEF ViewOK
    <3>2. y.active = (y.pin # 0) /\ y.plan = y.pin /\ y.held = 0 /\ y.stream = s.stream /\ y.current = s.current
      BY <1>f, <2>2, <2>5, Zenon DEF SameView
    <3>3. ASSUME NEW q \in (acks \cup {y.ack}) \ {0}
          PROVE  pool[q] \in Gone /\ q # y.pin /\ \A a \in Targets : y.current[a] # q
      <4>1. q \in (acks \cup {s.ack}) \ {0}
        BY <2>5, Zenon
      <4>2. pool[q] \in Gone /\ \A a \in Targets : s.current[a] # q
        BY <4>1, <1>e, Zenon DEF HoldOK
      <4> QED
        BY <4>2, <3>2, <2>5, <1>f, Zenon
    <3> QED
      BY <3>1, <3>2, <3>3, <2>5, Zenon DEF HoldOK
  <2>8. SendOK(y)
    BY <1>e, <2>5, Zenon DEF SendOK, SameSend
  <2>9. TextOK(y) /\ RingOK(y) /\ ReadOK(y)
    BY <1>e, <2>5, KeptText, KeptRing, KeptRead, Zenon DEF SameRing
  <2>10. Good(y) /\ Hushed(x, y) /\ y.frame = x.frame
    BY <1>d, <2>4, <2>5, <2>6, <2>7, <2>8, <2>9, Zenon DEF Good, Hushed, SameSend
  <2> QED
    BY <2>10, Zenon DEF y
<1> QED
  BY <1>1, <1>2, Zenon

\* The source address of a frame.
LEMMA ObserveSourceFine ==
  ASSUME NEW x, NEW raw \in Byte, NEW exhausted, Good(x), HostOK, x.frame = "Source"
  PROVE  Fine(x, ObserveSource(x, raw, exhausted))
<1>0. x \in Responders /\ TextOK(x) /\ x.offset = 0 /\ ~x.awaitEcho
  <2>1. x.frame \notin Spoken
    BY DEF Spoken
  <2> QED
    BY <2>1, Idle, Zenon DEF Good
<1>1. CASE raw \notin Initiators
  <2>1. ObserveSource(x, raw, exhausted) = [Forgotten(x) EXCEPT !.frame = "Skip"]
    BY <1>1 DEF ObserveSource
  <2> QED
    BY <1>0, <2>1, SkippedGood, HushedFine, Zenon
<1>2. CASE raw \in Initiators /\ exhausted
  <2>1. ObserveSource(x, raw, exhausted) = RaiseGap(x, "Gap")
    BY <1>2 DEF ObserveSource
  <2> QED
    BY <2>1, RaisedGood, HushedFine, Zenon
<1>3. CASE raw \in Initiators /\ ~exhausted
  <2> DEFINE n == CRCStep(x.crc, raw)
             y == [x EXCEPT !.source = raw, !.crc = n, !.frame = "Target"]
  <2>1. ObserveSource(x, raw, exhausted) = y
    BY <1>3 DEF ObserveSource
  <2>2. x.crc \in Byte
    BY <1>0 DEF Responders
  <2>3. n \in Byte
    BY <2>2, CRCAssumption, Zenon
  <2>4. "Target" \in Frames /\ "Target" \notin Spoken \cup Asked /\ "Target" # "Data"
    BY DEF Frames, Spoken, Asked
  <2> HIDE DEF n
  <2>5. y \in Responders
    BY <1>0, <2>3, <2>4, ZenonT(60) DEF Responders
  <2>6. Same(x, y) /\ SameRing(x, y) /\ SameText(x, y) /\ y.frame = "Target"
    BY <1>0 DEF Responders, Same, SameView, SameHold, SameSend, SameRing, SameText
  <2> HIDE DEF y
  <2>7. TextOK(y)
    BY <1>0, <2>4, <2>6, Zenon DEF TextOK, SameText
  <2>8. Good(y) /\ Hushed(x, y)
    BY <1>0, <2>4, <2>5, <2>6, <2>7, Moved, Zenon
  <2> QED
    BY <2>1, <2>8, HushedFine, Zenon
<1> QED
  BY <1>1, <1>2, <1>3, Zenon

\* The target address of a frame, which selects the plan.
LEMMA ObserveTargetFine ==
  ASSUME NEW x, NEW raw \in Byte, Good(x), HostOK, x.frame = "Target"
  PROVE  Fine(x, ObserveTarget(x, raw))
<1> DEFINE n == CRCStep(x.crc, raw)
           z == [x EXCEPT !.crc = n]
           chosen == Select(z, raw)
           pb == [chosen EXCEPT !.frame = "PB"]
           syn == Deliver(pb, "Raw", 1)
           source1 == Deliver(syn, "Raw", 2)
           source == Deliver(source1, "Logical", 2)
           target1 == Deliver(source, "Raw", 3)
           target == Deliver(target1, "Logical", 3)
<1>0. x \in Responders /\ SendOK(x) /\ TextOK(x) /\ RingOK(x) /\ ReadOK(x) /\ setup \in Setups
  BY Zenon DEF Good, HostOK
<1>1. z \in Responders
  <2>1. x.crc \in Byte
    BY <1>0 DEF Responders
  <2>2. n \in Byte
    BY <2>1, CRCAssumption, Zenon
  <2> HIDE DEF n
  <2> QED
    BY <1>0, <2>2, ZenonT(60) DEF Responders
<1>2. Same(x, z) /\ SameRing(x, z) /\ SameText(x, z) /\ z.frame = x.frame /\ z.escape = x.escape
  <2> HIDE DEF n
  <2> QED
    BY <1>0 DEF Responders, Same, SameView, SameHold, SameSend, SameRing, SameText
<1>3. Good(z) /\ Hushed(x, z)
  <2> HIDE DEF z
  <2>1. RingOK(z)
    BY <1>0, <1>2, KeptRing, Zenon DEF SameRing
  <2>2. Told(x, z)
    BY <1>1, <1>2, <2>1, Zenon DEF Told, SameRing
  <2> QED
    BY <2>2, ToldGood, Zenon
<1>4. "Target" \notin Spoken
  BY DEF Spoken
<1>5. CASE raw \in Targets /\ chosen.active
  <2>1. Good(chosen) /\ Hushed(z, chosen) /\ chosen.frame = "Target"
    <3> HIDE DEF z
    <3> QED
      BY <1>2, <1>3, <1>5, SelectGood, Zenon
  <2>2. ObserveTarget(x, raw) = target
    BY <1>5 DEF ObserveTarget
  <2> HIDE DEF z, chosen
  <2>3. chosen \in Responders /\ chosen.offset = 0 /\ ~chosen.awaitEcho /\ TextOK(chosen)
    BY <2>1, <1>4, Idle, Zenon DEF Good
  <2>4. "PB" \in Frames /\ "PB" \notin Spoken /\ "PB" # "Data"
    BY DEF Frames, Spoken
  <2>5. pb \in Responders
    BY <2>3, <2>4, ZenonT(60) DEF Responders
  <2>6. Same(chosen, pb) /\ SameRing(chosen, pb) /\ SameText(chosen, pb) /\ pb.frame = "PB"
    BY <2>3 DEF Responders, Same, SameView, SameHold, SameSend, SameRing, SameText
  <2> HIDE DEF pb
  <2>7. TextOK(pb)
    BY <2>3, <2>4, <2>6, Zenon DEF TextOK, SameText
  <2>8. Good(pb) /\ Hushed(chosen, pb)
    BY <1>5, <2>1, <2>3, <2>4, <2>5, <2>6, <2>7, Moved, Zenon
  <2>k. "Raw" \in Kinds /\ "Logical" \in Kinds /\ 1 \in Nat /\ 2 \in Nat /\ 3 \in Nat
    BY DEF Kinds
  <2>9. Good(syn) /\ Hushed(pb, syn)
    BY <1>0, <2>8, <2>k, DeliveredGood, Zenon
  <2> HIDE DEF syn
  <2>10. Good(source1) /\ Hushed(syn, source1)
    BY <1>0, <2>9, <2>k, DeliveredGood, Zenon
  <2> HIDE DEF source1
  <2>11. Good(source) /\ Hushed(source1, source)
    BY <1>0, <2>10, <2>k, DeliveredGood, Zenon
  <2> HIDE DEF source
  <2>12. Good(target1) /\ Hushed(source, target1)
    BY <1>0, <2>11, <2>k, DeliveredGood, Zenon
  <2> HIDE DEF target1
  <2>13. Good(target) /\ Hushed(target1, target)
    BY <1>0, <2>12, <2>k, DeliveredGood, Zenon
  <2> HIDE DEF target
  <2>14. Hushed(x, target)
    BY <1>3, <2>1, <2>8, <2>9, <2>10, <2>11, <2>12, <2>13, Zenon DEF Hushed
  <2> QED
    BY <2>2, <2>13, <2>14, HushedFine, Zenon
<1>6. CASE ~(raw \in Targets /\ chosen.active)
  <2> DEFINE f == IF raw \in Targets THEN chosen ELSE x
  <2>1. ObserveTarget(x, raw) = [Forgotten(f) EXCEPT !.frame = "Skip"]
    BY <1>6 DEF ObserveTarget
  <2>2. Good(f) /\ Hushed(x, f) /\ f.frame = "Target"
    <3>1. CASE raw \in Targets
      <4>1. f = chosen
        BY <3>1, Zenon
      <4>2. Good(chosen) /\ Hushed(z, chosen) /\ chosen.frame = "Target"
        <5> HIDE DEF z
        <5> QED
          BY <1>2, <1>3, <3>1, SelectGood, Zenon
      <4> HIDE DEF z, chosen, f
      <4>3. Hushed(x, chosen)
        BY <1>3, <4>2, HushedThen
      <4> QED
        BY <4>1, <4>2, <4>3, Zenon
    <3>2. CASE raw \notin Targets
      <4>1. f = x
        BY <3>2, Zenon
      <4> QED
        BY <4>1, Zenon DEF Hushed
    <3> QED
      BY <3>1, <3>2, Zenon
  <2> HIDE DEF f
  <2>3. f.offset = 0 /\ ~f.awaitEcho
    BY <1>4, <2>2, Idle, Zenon
  <2> DEFINE y == [Forgotten(f) EXCEPT !.frame = "Skip"]
  <2>4. Good(y) /\ Hushed(f, y)
    BY <2>2, <2>3, SkippedGood, Zenon
  <2> HIDE DEF y
  <2>5. Hushed(x, y)
    BY <2>2, <2>4, HushedThen
  <2>6. Fine(x, y)
    BY <2>4, <2>5, HushedFine, Zenon
  <2> QED
    BY <2>1, <2>6, Zenon DEF y
<1> QED
  BY <1>5, <1>6, Zenon

-----------------------------------------------------------------------------
(* The request.                                                            *)

\* The answer is looked up in the pinned plan.
LEMMA PrepareGood ==
  ASSUME NEW x, Good(x), HostOK, x.frame = "CRC"
  PROVE  Good(Prepare(x)) /\ Hushed(x, Prepare(x))
<1>0. /\ x \in Responders /\ HoldOK(x) /\ SendOK(x) /\ TextOK(x) /\ RingOK(x) /\ ReadOK(x) /\ setup \in Setups
      /\ x.active /\ x.offset = 0 /\ ~x.awaitEcho
  <2>1. x.frame \in Asked /\ x.frame \notin Spoken
    BY DEF Asked, Spoken
  <2> QED
    BY <2>1, Idle, Zenon DEF Good, SendOK, HostOK
<1>1. CASE PinReason(x) # "None"
  <2>1. Prepare(x) = Close(x, PinReason(x))
    BY <1>1 DEF Prepare
  <2> QED
    BY <2>1, ClosedGood, Zenon DEF Over
<1>2. CASE PinReason(x) = "None" /\ Matching(x) = {}
  <2>1. Prepare(x) = x
    BY <1>2 DEF Prepare
  <2> QED
    BY <2>1, Zenon DEF Hushed
<1>3. CASE PinReason(x) = "None" /\ Matching(x) # {}
  <2> DEFINE e == CHOOSE e \in Matching(x) : TRUE
             reply == e.reply
             y == [x EXCEPT !.prepared = TRUE, !.reply = reply]
  <2>1. Prepare(x) = y
    BY <1>3 DEF Prepare
  <2>2. e \in Matching(x)
    BY <1>3, Zenon
  <2> HIDE DEF e
  <2>3. x.pin \in Plans
    <3>1. x.pin \in PlanIds /\ x.pin # 0
      BY <1>0 DEF HoldOK, Responders
    <3> QED
      BY <3>1 DEF PlanIds
  <2>4. reply \in Bytes
    <3>1. e \in setup.plans[x.pin].entries
      BY <2>2, Zenon DEF Matching
    <3> QED
      BY <1>0, <2>3, <3>1, SetupFacts, Zenon
  <2> HIDE DEF reply
  <2>5. y \in Responders
    BY <1>0, <2>4, Zeros, ZenonT(60) DEF Responders
  <2>6. /\ SameView(x, y) /\ SameHold(x, y) /\ SameText(x, y) /\ SameRing(x, y) /\ y.frame = x.frame
        /\ y.offset = x.offset /\ y.awaitEcho = x.awaitEcho /\ y.emitted = x.emitted /\ y.reply = reply
    BY <1>0 DEF Responders, SameView, SameHold, SameText, SameRing
  <2> HIDE DEF y
  <2>7. SendOK(y)
    <3>1. Len(reply) \in Nat
      BY <2>4 DEF Bytes
    <3>2. y.offset <= Len(y.reply)
      BY <3>1, <2>6, <1>0
    <3>3. y.active /\ ~y.awaitEcho /\ y.offset = 0
      BY <2>6, <1>0, Zenon DEF SameHold
    <3> QED
      BY <3>2, <3>3, Zenon DEF SendOK
  <2>8. TextOK(y) /\ RingOK(y) /\ ReadOK(y)
    BY <1>0, <2>6, KeptText, KeptRing, KeptRead, Zenon DEF SameRing
  <2>9. Good(y) /\ Hushed(x, y)
    BY <2>5, <2>6, <2>7, <2>8, KeptGood, Zenon DEF Hushed
  <2> QED
    BY <2>1, <2>9, Zenon
<1> QED
  BY <1>1, <1>2, <1>3, Zenon

\* A field of the request was read, and the next phase is one of the request.
LEMMA FieldRead ==
  ASSUME NEW x, NEW y, Good(x), x.frame \in Asked, y \in Responders, Same(x, y), SameRing(x, y), TextOK(y), y.frame \in Asked
  PROVE  Good(y) /\ Hushed(x, y)
<1>1. x.frame \notin Spoken /\ y.frame \notin Spoken
  BY DEF Asked, Spoken
<1>2. x.active
  BY Zenon DEF Good, SendOK
<1> QED
  BY <1>1, <1>2, Idle, Moved, Zenon

\* A byte of the request, once unescaped.
LEMMA ObserveLogicalFine ==
  ASSUME NEW x0, NEW byte \in Byte, NEW placed, Good(x0), HostOK, x0.frame \in Asked
  PROVE  Fine(x0, ObserveLogical(x0, byte, placed))
<1> DEFINE x == DeliverLogical(x0)
           z == ObserveLogical(x0, byte, placed)
<1>a. Told(x0, x) /\ Good(x) /\ Hushed(x0, x) /\ setup \in Setups
  BY DeliveredSymbol, Zenon DEF HostOK
<1>b. x \in Responders /\ x.frame \in Asked /\ TextOK(x)
  <2> HIDE DEF x
  <2> QED
    BY <1>a, Zenon DEF Told, Good
<1>m. setup.maxRequestData \in Nat /\ byte \in Nat
  BY <1>a, SetupFacts DEF Byte
<1>c. Asked \subseteq Frames /\ "PB" \in Asked /\ "SB" \in Asked /\ "NN" \in Asked /\ "Data" \in Asked /\ "CRC" \in Asked
  BY DEF Asked, Frames
<1>d. x.data \in Bytes /\ Len(x.data) \in Nat /\ x.nn \in Nat
  <2> HIDE DEF x
  <2>1. x.data \in Bytes /\ x.nn \in Byte
    BY <1>b DEF Responders
  <2>2. x.nn \in Nat
    BY <2>1 DEF Byte
  <2> QED
    BY <2>1, <2>2 DEF Bytes
<1> SUFFICES Fine(x, z)
  <2> HIDE DEF x, z
  <2>1. Fine(x, z) => Fine(x0, z)
    BY <1>a, HushedThen
  <2> QED
    BY <2>1, Zenon DEF z
<1>1. CASE x.frame = "PB"
  <2> DEFINE y == [x EXCEPT !.pb = byte, !.frame = "SB"]
  <2>1. z = y
    BY <1>1 DEF ObserveLogical
  <2> HIDE DEF x, z
  <2>2. y \in Responders
    BY <1>b, <1>c, ZenonT(60) DEF Responders
  <2>3. Same(x, y) /\ SameRing(x, y) /\ SameText(x, y) /\ y.frame = "SB"
    BY <1>b DEF Responders, Same, SameView, SameHold, SameSend, SameRing, SameText
  <2> HIDE DEF y
  <2>4. TextOK(y)
    BY <1>b, <2>3 DEF TextOK, SameText
  <2>5. Good(y) /\ Hushed(x, y)
    BY <1>a, <1>b, <1>c, <2>2, <2>3, <2>4, FieldRead, Zenon
  <2> QED
    BY <2>1, <2>5, HushedFine, Zenon
<1>2. CASE x.frame = "SB"
  <2> DEFINE y == [x EXCEPT !.sb = byte, !.frame = "NN"]
  <2>1. z = y
    BY <1>2 DEF ObserveLogical
  <2> HIDE DEF x, z
  <2>2. y \in Responders
    BY <1>b, <1>c, ZenonT(60) DEF Responders
  <2>3. Same(x, y) /\ SameRing(x, y) /\ SameText(x, y) /\ y.frame = "NN"
    BY <1>b DEF Responders, Same, SameView, SameHold, SameSend, SameRing, SameText
  <2> HIDE DEF y
  <2>4. TextOK(y)
    BY <1>b, <2>3 DEF TextOK, SameText
  <2>5. Good(y) /\ Hushed(x, y)
    BY <1>a, <1>b, <1>c, <2>2, <2>3, <2>4, FieldRead, Zenon
  <2> QED
    BY <2>1, <2>5, HushedFine, Zenon
<1>3. CASE x.frame = "NN" /\ byte > setup.maxRequestData
  <2>1. z = Close(x, "Malformed")
    BY <1>3, <1>m DEF ObserveLogical
  <2> HIDE DEF x, z
  <2> QED
    BY <1>a, <2>1, ClosedGood, HushedFine, Zenon
<1>4. CASE x.frame = "NN" /\ byte = 0
  <2> DEFINE y == [x EXCEPT !.nn = 0, !.data = <<>>, !.frame = "CRC"]
  <2>1. z = Prepare(y)
    BY <1>4, <1>m DEF ObserveLogical
  <2> HIDE DEF x, z
  <2>2. y \in Responders
    BY <1>a, <1>b, <1>c, Zeros, ZenonT(60) DEF Responders
  <2>3. Same(x, y) /\ SameRing(x, y) /\ y.data = <<>> /\ y.frame = "CRC"
    BY <1>b DEF Responders, Same, SameView, SameHold, SameSend, SameRing
  <2> HIDE DEF y
  <2>4. TextOK(y)
    <3>1. "CRC" # "Data"
      OBVIOUS
    <3> QED
      BY <1>a, <2>3, <3>1, NoText, Zenon
  <2>5. Good(y) /\ Hushed(x, y)
    BY <1>a, <1>b, <1>c, <2>2, <2>3, <2>4, FieldRead, Zenon
  <2>6. Good(Prepare(y)) /\ Hushed(y, Prepare(y))
    BY <2>3, <2>5, PrepareGood, Zenon
  <2>7. Hushed(x, Prepare(y))
    BY <2>5, <2>6, HushedThen
  <2> QED
    BY <2>1, <2>6, <2>7, HushedFine, Zenon
<1>5. CASE x.frame = "NN" /\ byte \in 1 .. setup.maxRequestData
  <2> DEFINE y == [x EXCEPT !.nn = byte, !.data = <<>>, !.frame = "Data"]
  <2>1. z = y
    BY <1>5, <1>m DEF ObserveLogical
  <2> HIDE DEF x, z
  <2>2. y \in Responders
    BY <1>a, <1>b, <1>c, Zeros, ZenonT(60) DEF Responders
  <2>3. Same(x, y) /\ SameRing(x, y) /\ y.data = <<>> /\ y.nn = byte /\ y.frame = "Data"
    BY <1>b DEF Responders, Same, SameView, SameHold, SameSend, SameRing
  <2> HIDE DEF y
  <2>4. TextOK(y)
    <3>1. Len(y.data) = 0
      BY <2>3
    <3> QED
      BY <1>5, <1>m, <2>3, <3>1 DEF TextOK
  <2>5. Good(y) /\ Hushed(x, y)
    BY <1>a, <1>b, <1>c, <2>2, <2>3, <2>4, FieldRead, Zenon
  <2> QED
    BY <2>1, <2>5, HushedFine, Zenon
<1>6. CASE x.frame = "Data"
  <2> DEFINE g == Append(x.data, byte)
             y == [x EXCEPT !.data = g]
             w == [y EXCEPT !.frame = "CRC"]
  <2>0. z = IF Len(y.data) = x.nn THEN Prepare(w) ELSE y
    BY <1>6 DEF ObserveLogical
  <2> HIDE DEF x, z
  <2>g. g \in Bytes /\ Len(g) = Len(x.data) + 1
    BY <1>d DEF Bytes
  <2>n. Len(x.data) < x.nn /\ x.nn <= setup.maxRequestData /\ x.nn \in Nat
    BY <1>b, <1>d, <1>6, Zenon DEF TextOK
  <2> HIDE DEF g
  <2>1. y \in Responders
    BY <1>b, <2>g, ZenonT(60) DEF Responders
  <2>2. Same(x, y) /\ SameRing(x, y) /\ y.data = g /\ y.nn = x.nn /\ y.frame = x.frame
    BY <1>b DEF Responders, Same, SameView, SameHold, SameSend, SameRing
  <2> HIDE DEF y
  <2>3. w \in Responders
    BY <2>1, <1>c, ZenonT(60) DEF Responders
  <2>4. Same(y, w) /\ SameRing(y, w) /\ w.data = y.data /\ w.frame = "CRC"
    BY <2>1 DEF Responders, Same, SameView, SameHold, SameSend, SameRing
  <2> HIDE DEF w
  <2>5. Same(x, w) /\ SameRing(x, w)
    BY <2>2, <2>4, Zenon DEF Same, SameView, SameHold, SameSend, SameRing
  <2>6. Len(g) <= setup.maxRequestData
    BY <2>g, <2>n, <1>d, <1>m
  <2>7. CASE Len(y.data) = x.nn
    <3>1. TextOK(w)
      BY <2>2, <2>4, <2>6 DEF TextOK
    <3>2. Good(w) /\ Hushed(x, w)
      BY <1>a, <1>b, <1>c, <2>3, <2>4, <2>5, <3>1, FieldRead, Zenon
    <3>3. Good(Prepare(w)) /\ Hushed(w, Prepare(w))
      BY <2>4, <3>2, PrepareGood, Zenon
    <3>4. Hushed(x, Prepare(w))
      BY <3>2, <3>3, HushedThen
    <3> QED
      BY <2>0, <2>7, <3>3, <3>4, HushedFine, Zenon
  <2>8. CASE Len(y.data) # x.nn
    <3>1. Len(y.data) < y.nn
      BY <2>8, <2>2, <2>g, <2>n, <1>d
    <3>2. TextOK(y)
      BY <2>2, <2>6, <2>n, <3>1 DEF TextOK
    <3>3. Good(y) /\ Hushed(x, y)
      BY <1>a, <1>b, <2>1, <2>2, <3>2, FieldRead, Zenon
    <3> QED
      BY <2>0, <2>8, <3>3, HushedFine, Zenon
  <2> QED
    BY <2>7, <2>8
<1>7. CASE x.frame = "CRC"
  <2>1. z = Decide(x, byte, placed)
    BY <1>7 DEF ObserveLogical
  <2> HIDE DEF x, z
  <2> QED
    BY <1>a, <1>7, <2>1, DecideFine, Zenon
<1>8. byte > setup.maxRequestData \/ byte = 0 \/ byte \in 1 .. setup.maxRequestData
  BY <1>m
<1>9. x.frame \in {"PB", "SB", "NN", "Data", "CRC"}
  BY <1>b, Zenon DEF Asked
<1> HIDE DEF x, z
<1> QED
  BY <1>1, <1>2, <1>3, <1>4, <1>5, <1>6, <1>7, <1>8, <1>9

\* Only the frame's own fields have changed.
LEMMA SymbolRead ==
  ASSUME NEW x, NEW y, Good(x), y \in Responders, Same(x, y), SameRing(x, y), SameText(x, y), y.frame = x.frame
  PROVE  Good(y) /\ Hushed(x, y)
<1>1. SendOK(y) /\ TextOK(y) /\ RingOK(y) /\ ReadOK(y)
  BY KeptSend, KeptText, KeptRing, KeptRead, Zenon DEF Good, Same, SameRing
<1> QED
  BY <1>1, KeptGood, Zenon DEF Same, SameSend, Hushed

\* A symbol of the request, before it is unescaped.
LEMMA ObserveRequestFine ==
  ASSUME NEW x0, NEW raw \in Byte, NEW placed, Good(x0), HostOK, x0.frame \in Asked
  PROVE  Fine(x0, ObserveRequest(x0, raw, placed))
<1> DEFINE told == DeliverRaw(x0)
           n == CRCStep(told.crc, raw)
           c == [told EXCEPT !.crc = n]
           x == IF told.frame = "CRC" THEN told ELSE c
           plain == [x EXCEPT !.escape = FALSE]
           escaped == [x EXCEPT !.escape = TRUE]
           z == ObserveRequest(x0, raw, placed)
<1>a. Told(x0, told) /\ Good(told) /\ Hushed(x0, told) /\ setup \in Setups
  BY DeliveredSymbol, Zenon DEF HostOK
<1>b. told \in Responders /\ told.frame \in Asked
  <2> HIDE DEF told
  <2> QED
    BY <1>a, Zenon DEF Told
<1>c. Good(x) /\ Hushed(x0, x) /\ x.frame \in Asked /\ x \in Responders
  <2> HIDE DEF told
  <2>1. n \in Byte
    <3>1. told.crc \in Byte
      BY <1>b DEF Responders
    <3> QED
      BY <3>1, CRCAssumption, Zenon
  <2> HIDE DEF n
  <2>2. c \in Responders
    BY <1>b, <2>1, ZenonT(60) DEF Responders
  <2>3. Same(told, c) /\ SameRing(told, c) /\ SameText(told, c) /\ c.frame = told.frame
    BY <1>b DEF Responders, Same, SameView, SameHold, SameSend, SameRing, SameText
  <2> HIDE DEF c
  <2>4. Good(c) /\ Hushed(told, c)
    BY <1>a, <2>2, <2>3, SymbolRead, Zenon
  <2>5. Hushed(x0, c)
    BY <1>a, <2>4, HushedThen
  <2>6. x \in {told, c}
    BY Zenon
  <2> HIDE DEF x
  <2> QED
    BY <1>a, <1>b, <2>2, <2>3, <2>4, <2>5, <2>6, Zenon
<1>d. Good(plain) /\ Hushed(x, plain) /\ plain.frame \in Asked
  <2> HIDE DEF x
  <2>1. plain \in Responders
    BY <1>a, <1>c, Zeros, ZenonT(60) DEF Responders
  <2>2. Same(x, plain) /\ SameRing(x, plain) /\ SameText(x, plain) /\ plain.frame = x.frame
    BY <1>c DEF Responders, Same, SameView, SameHold, SameSend, SameRing, SameText
  <2> HIDE DEF plain
  <2> QED
    BY <1>c, <2>1, <2>2, SymbolRead, Zenon
<1>e. Good(escaped) /\ Hushed(x, escaped)
  <2> HIDE DEF x
  <2>1. escaped \in Responders
    BY <1>a, <1>c, Zeros, ZenonT(60) DEF Responders
  <2>2. Same(x, escaped) /\ SameRing(x, escaped) /\ SameText(x, escaped) /\ escaped.frame = x.frame
    BY <1>c DEF Responders, Same, SameView, SameHold, SameSend, SameRing, SameText
  <2> HIDE DEF escaped
  <2> QED
    BY <1>c, <2>1, <2>2, SymbolRead, Zenon
<1>f. Escape \in Byte /\ Syn \in Byte
  BY DEF Escape, Syn, Byte
<1>1. /\ z = Close(plain, "Malformed") \/ z = escaped \/ z = ObserveLogical(x, raw, placed)
           \/ z = ObserveLogical(plain, Escape, placed) \/ z = ObserveLogical(plain, Syn, placed)
  <2>1. CASE x.escape
    <3>1. CASE raw \in {EscapedEscape, EscapedSyn}
      <4>1. EscapedEscape # EscapedSyn
        BY DEF EscapedEscape, EscapedSyn
      <4> QED
        BY <2>1, <3>1, <4>1, Zenon DEF ObserveRequest
    <3>2. CASE raw \notin {EscapedEscape, EscapedSyn}
      BY <2>1, <3>2, Zenon DEF ObserveRequest
    <3> QED
      BY <3>1, <3>2, Zenon
  <2>2. CASE ~x.escape
    BY <2>2, Zenon DEF ObserveRequest
  <2> QED
    BY <2>1, <2>2, Zenon
<1> HIDE DEF x, plain, escaped, z
<1>2. Over(plain, Close(plain, "Malformed"))
  BY <1>d, ClosedGood, Zenon
<1>3. Fine(x, ObserveLogical(x, raw, placed))
  BY <1>c, ObserveLogicalFine, Zenon
<1>4. Fine(plain, ObserveLogical(plain, Escape, placed)) /\ Fine(plain, ObserveLogical(plain, Syn, placed))
  BY <1>d, <1>f, ObserveLogicalFine, Zenon
<1>5. Hushed(x0, plain) /\ Hushed(x0, escaped)
  BY <1>c, <1>d, <1>e, HushedThen
<1>6. Fine(x0, Close(plain, "Malformed"))
  BY <1>2, <1>5, HushedThen
<1>7. Fine(x0, ObserveLogical(x, raw, placed))
  BY <1>3, <1>c, HushedThen
<1>8. Fine(x0, ObserveLogical(plain, Escape, placed))
  BY <1>4, <1>5, HushedThen
<1>9. Fine(x0, ObserveLogical(plain, Syn, placed))
  BY <1>4, <1>5, HushedThen
<1>10. Fine(x0, escaped)
  BY <1>e, <1>5, HushedFine, Zenon
<1>11. Fine(x0, z)
  BY <1>1, <1>6, <1>7, <1>8, <1>9, <1>10, Zenon
<1> QED
  BY <1>11, Zenon DEF z

\* A transaction ends with what was heard.
LEMMA ToldAndClosed ==
  ASSUME NEW x, NEW reason, Good(x), HostOK
  PROVE  /\ Fine(x, Close(DeliverRaw(x), reason)) /\ Hushed(x, Close(DeliverRaw(x), reason))
         /\ ~Close(DeliverRaw(x), reason).active
<1>1. Good(DeliverRaw(x)) /\ Hushed(x, DeliverRaw(x))
  BY DeliveredSymbol, Zenon DEF HostOK
<1>2. Over(DeliverRaw(x), Close(DeliverRaw(x), reason))
  BY <1>1, ClosedGood, Zenon
<1>3. Hushed(x, Close(DeliverRaw(x), reason))
  BY <1>1, <1>2, HushedThen DEF Over
<1> QED
  BY <1>2, <1>3, HushedFine, Zenon DEF Over

\* A symbol of the bus, whatever the responder is doing.
LEMMA RawSymbolFine ==
  ASSUME NEW x0, NEW raw \in Byte, NEW early, NEW placed, NEW exhausted, Good(x0), HostOK
  PROVE  Fine(x0, RawSymbol(x0, raw, early, placed, exhausted))
<1> DEFINE g == Append(x0.heard, raw)
           h == [x0 EXCEPT !.heard = g]
           x == IF Following(x0) THEN h ELSE x0
           z == RawSymbol(x0, raw, early, placed, exhausted)
<1>0. x0 \in Responders
  BY Zenon DEF Good
<1>1. Good(x) /\ Hushed(x0, x)
  <2>1. g \in Bytes
    BY <1>0 DEF Responders, Bytes
  <2> HIDE DEF g
  <2>2. h \in Responders
    BY <1>0, <2>1, ZenonT(60) DEF Responders
  <2>3. Same(x0, h) /\ SameRing(x0, h) /\ SameText(x0, h) /\ h.frame = x0.frame
    BY <1>0 DEF Responders, Same, SameView, SameHold, SameSend, SameRing, SameText
  <2> HIDE DEF h
  <2>4. Good(h) /\ Hushed(x0, h)
    BY <2>2, <2>3, SymbolRead, Zenon
  <2>5. x \in {h, x0} /\ Hushed(x0, x0)
    BY Zenon DEF Hushed
  <2> HIDE DEF x
  <2> QED
    BY <2>4, <2>5, Zenon
<1> SUFFICES Fine(x, z)
  <2> HIDE DEF x, z
  <2>1. Fine(x, z) => Fine(x0, z)
    BY <1>1, HushedThen
  <2> QED
    BY <2>1, Zenon DEF z
<1>f. Fine(x, x)
  <2> HIDE DEF x
  <2> QED
    BY <1>1, Zenon DEF Fine, Quiet, Hushed
<1>2. CASE x.awaitEcho
  <2>1. z = Echo(x, raw, early, placed)
    BY <1>2 DEF RawSymbol
  <2> HIDE DEF x, z
  <2> QED
    BY <1>1, <1>2, <2>1, EchoFine, Zenon
<1>3. CASE ~x.awaitEcho /\ raw = Syn
  <2> DEFINE c == IF x.active THEN Close(DeliverRaw(x), "Interrupted") ELSE x
  <2>1. z = StartFrame(c)
    BY <1>3 DEF RawSymbol
  <2> HIDE DEF x, z
  <2>2. Good(c) /\ Hushed(x, c) /\ ~c.active
    <3>1. CASE x.active
      <4>1. c = Close(DeliverRaw(x), "Interrupted")
        BY <3>1, Zenon
      <4> HIDE DEF c
      <4> QED
        BY <1>1, <4>1, ToldAndClosed, Zenon DEF Fine
    <3>2. CASE ~x.active
      <4>1. c = x
        BY <3>2, Zenon
      <4> HIDE DEF c
      <4> QED
        BY <1>1, <3>2, <4>1, Zenon DEF Hushed
    <3> QED
      BY <3>1, <3>2, Zenon
  <2> HIDE DEF c
  <2>3. Good(StartFrame(c)) /\ Hushed(c, StartFrame(c))
    BY <2>2, StartedGood, Zenon
  <2>4. Hushed(x, StartFrame(c))
    BY <2>2, <2>3, HushedThen
  <2> QED
    BY <2>1, <2>3, <2>4, HushedFine, Zenon
<1>4. CASE ~x.awaitEcho /\ raw # Syn /\ ~Following(x)
  <2>1. z = x
    BY <1>4 DEF RawSymbol, Following
  <2> HIDE DEF x, z
  <2> QED
    BY <2>1, <1>f, Zenon
<1>5. CASE ~x.awaitEcho /\ raw # Syn /\ x.frame = "Source"
  <2>1. z = ObserveSource(x, raw, exhausted)
    BY <1>5 DEF RawSymbol, Following
  <2> HIDE DEF x, z
  <2> QED
    BY <1>1, <1>5, <2>1, ObserveSourceFine, Zenon
<1>6. CASE ~x.awaitEcho /\ raw # Syn /\ x.frame = "Target"
  <2>1. z = ObserveTarget(x, raw)
    BY <1>6 DEF RawSymbol, Following
  <2> HIDE DEF x, z
  <2> QED
    BY <1>1, <1>6, <2>1, ObserveTargetFine, Zenon
<1>7. CASE ~x.awaitEcho /\ raw # Syn /\ x.frame \in Asked
  <2>1. z = ObserveRequest(x, raw, placed)
    BY <1>7 DEF RawSymbol, Following, Asked
  <2> HIDE DEF x, z
  <2> QED
    BY <1>1, <1>7, <2>1, ObserveRequestFine, Zenon
<1>8. CASE ~x.awaitEcho /\ raw # Syn /\ x.frame = "InitiatorACK"
  <2> DEFINE reason == CASE raw = Ack -> "Completed" [] raw = Nack -> "InitiatorNACK" [] OTHER -> "Malformed"
  <2>1. z = Close(DeliverRaw(x), reason)
    BY <1>8 DEF RawSymbol, Following, ObserveInitiatorACK
  <2> HIDE DEF x, z, reason
  <2> QED
    BY <1>1, <2>1, ToldAndClosed, Zenon
<1>9. CASE ~x.awaitEcho /\ raw # Syn /\ Following(x) /\ x.frame \notin {"Source", "Target", "InitiatorACK"} \cup Asked
  <2>1. z = Close(DeliverRaw(x), "Collision")
    BY <1>9 DEF RawSymbol, Asked
  <2> HIDE DEF x, z
  <2> QED
    BY <1>1, <2>1, ToldAndClosed, Zenon
<1> HIDE DEF x, z
<1> QED
  BY <1>2, <1>3, <1>4, <1>5, <1>6, <1>7, <1>8, <1>9

-----------------------------------------------------------------------------
(* The steps.                                                              *)

\* What the host's steps never take back.
Onward ==
  /\ setup' = setup
  /\ \A p \in Plans : pool[p] # "None" => pool'[p] # "None" /\ planStream'[p] = planStream[p]
  /\ \A p \in Plans : pool[p] \in Gone => pool'[p] \in Gone
  /\ hostStream' \in Nat /\ hostStream <= hostStream'
  /\ \A s \in 1 .. setup.streams : Len(lane'[s]) \in Nat /\ Len(lane[s]) <= Len(lane'[s])
\* What is acknowledged is not in use.
Acknowledged(x) ==
  \A q \in acks' : q \in acks \/ (q \in Plans /\ pool[q] \in Gone /\ q # x.pin /\ \A a \in Targets : x.current[a] # q)

\* The types do not change.
LEMMA SameSets ==
  ASSUME setup' = setup
  PROVE  Plans' = Plans /\ Responders' = Responders
<1>1. Plans' = Plans
  BY DEF Plans
<1>2. PlanIds' = PlanIds /\ PlanSets' = PlanSets /\ Tables' = Tables /\ CommandIds' = CommandIds
  BY <1>1 DEF PlanIds, PlanSets, Tables, CommandIds
<1>3. Responders' = Responders
  BY <1>2, SMT DEF Responders, Bytes, Flags, Counts, EventSeqs
<1> QED
  BY <1>1, <1>3

\* The invariant of a responder survives what the host does meanwhile.
LEMMA Carried ==
  ASSUME HostOK, Good(r'), Onward, Acknowledged(r')
  PROVE  Good(r)'
<1>0. /\ r' \in Responders /\ ViewOK(r') /\ HoldOK(r') /\ SendOK(r') /\ TextOK(r') /\ RingOK(r') /\ ReadOK(r')
      /\ setup' = setup /\ setup \in Setups
  BY Zenon DEF Good, Onward, HostOK
<1>p. Plans' = Plans /\ Responders' = Responders
  BY <1>0, SameSets, Zenon
<1>1. r'.pin \in Plans \cup {0} /\ r'.ack \in Plans \cup {0} /\ \A a \in Targets : r'.current[a] \in Plans \cup {0}
  <2>1. r'.pin \in PlanIds /\ r'.ack \in PlanIds /\ r'.current \in Tables
    BY <1>0 DEF Responders
  <2> QED
    BY <2>1 DEF PlanIds, Tables
<1>2. r'.superseded \cup r'.revoked \subseteq Plans
  <2>1. r'.superseded \in PlanSets /\ r'.revoked \in PlanSets
    BY <1>0 DEF Responders
  <2> QED
    BY <2>1 DEF PlanSets
<1>3. ViewOK(r)'
  <2>1. r'.bindings = r'.current
    BY <1>0, Zenon DEF ViewOK
  <2>2. ASSUME NEW a \in Targets, r'.current[a] # 0
        PROVE  /\ setup'.plans[r'.current[a]].address = a /\ pool'[r'.current[a]] # "None" /\ planStream'[r'.current[a]] = r'.stream
               /\ r'.current[a] <= r'.planTop[a] /\ r'.current[a] \notin r'.superseded \cup r'.revoked
    <3>1. r'.current[a] \in Plans
      BY <1>1, <2>2, Zenon
    <3>2. /\ AddressOf(r'.current[a]) = a /\ pool[r'.current[a]] # "None" /\ planStream[r'.current[a]] = r'.stream
          /\ r'.current[a] <= r'.planTop[a] /\ r'.current[a] \notin r'.superseded \cup r'.revoked
      BY <1>0, <2>2, Zenon DEF ViewOK
    <3>3. pool'[r'.current[a]] # "None" /\ planStream'[r'.current[a]] = r'.stream
      BY <3>1, <3>2, Zenon DEF Onward
    <3>4. setup'.plans[r'.current[a]].address = a
      BY <3>2, <1>0, Zenon DEF AddressOf
    <3> QED
      BY <3>2, <3>3, <3>4, Zenon
  <2>3. \A p \in r'.superseded \cup r'.revoked : pool'[p] \in Gone
    BY <1>0, <1>2, Zenon DEF ViewOK, Onward
  <2> QED
    BY <2>1, <2>2, <2>3, Zenon DEF ViewOK, Gone, AddressOf
<1>4. HoldOK(r)'
  <2>1. /\ r'.active = (r'.pin # 0) /\ r'.plan = r'.pin /\ (r'.active => r'.held = 0)
        /\ r'.pin # 0 => pool'[r'.pin] # "None" /\ planStream'[r'.pin] = r'.stream
    BY <1>0, <1>1, Zenon DEF HoldOK, Onward
  <2>2. ASSUME NEW p \in (acks' \cup {r'.ack}) \ {0}
        PROVE  pool'[p] \in Gone /\ p # r'.pin /\ \A a \in Targets : r'.current[a] # p
    <3>1. CASE p \in (acks \cup {r'.ack}) \ {0}
      <4>1. p \in Plans
        BY <3>1, <1>1, Zenon DEF HostOK
      <4> QED
        BY <3>1, <4>1, <1>0, Zenon DEF HoldOK, Onward
    <3>2. CASE p \in acks' /\ p \notin acks
      BY <3>2, Zenon DEF Acknowledged, Onward
    <3> QED
      BY <3>1, <3>2, Zenon
  <2> QED
    BY <2>1, <2>2, Zenon DEF HoldOK, Gone
<1>5. SendOK(r)' /\ RingOK(r)' /\ TextOK(r)'
  <2>1. SendOK(r)'
    BY <1>0, Zenon DEF SendOK, Asked, Spoken
  <2>2. RingOK(r)' /\ TextOK(r)'
    BY <1>0, Zenon DEF RingOK, TextOK
  <2> QED
    BY <2>1, <2>2
<1>6. ReadOK(r)'
  <2>1. r'.read \in Nat /\ r'.stream \in Nat
    BY <1>0 DEF Responders, Counts
  <2>2. r'.stream \in 1 .. hostStream /\ r'.read <= Len(lane[r'.stream]) /\ hostStream \in 1 .. setup.streams /\ setup.streams \in Nat
    BY <1>0, SetupFacts DEF ReadOK, HostOK
  <2>3. r'.stream \in 1 .. setup.streams /\ hostStream \in Nat
    BY <2>1, <2>2
  <2>4. Len(lane[r'.stream]) \in Nat
    BY <2>3 DEF HostOK
  <2>5. Len(lane'[r'.stream]) \in Nat /\ Len(lane[r'.stream]) <= Len(lane'[r'.stream])
    BY <2>3, Zenon DEF Onward
  <2>6. r'.read <= Len(lane'[r'.stream])
    BY <2>1, <2>2, <2>4, <2>5
  <2>7. r'.stream \in 1 .. hostStream'
    BY <2>1, <2>2, <2>3 DEF Onward
  <2> QED
    BY <2>6, <2>7, Zenon DEF ReadOK
<1> QED
  BY <1>0, <1>p, <1>3, <1>4, <1>5, <1>6, Zenon DEF Good

\* A call of the responder leaves the host alone.
LEMMA CallStep ==
  ASSUME AuthorityInv, UNCHANGED <<setup, hostVars, expired, lapsed>>, Fine(r, r'), Acknowledged(r')
  PROVE  AuthorityInv' /\ Quiet(r, r')
<1>0. /\ HostOK /\ Good(r') /\ setup' = setup /\ pool' = pool /\ planStream' = planStream /\ hostStream' = hostStream
      /\ notices' = notices /\ lane' = lane /\ expired' = expired /\ lapsed' = lapsed
  BY Zenon DEF AuthorityInv, hostVars, Fine
<1>1. Onward
  <2>1. setup.streams \in Nat /\ hostStream \in 1 .. setup.streams
    BY <1>0, SetupFacts DEF HostOK
  <2>2. hostStream \in Nat
    BY <2>1
  <2>3. \A s \in 1 .. setup.streams : Len(lane[s]) \in Nat
    BY <1>0 DEF HostOK
  <2>4. hostStream <= hostStream /\ \A s \in 1 .. setup.streams : Len(lane[s]) <= Len(lane[s])
    BY <2>2, <2>3
  <2> QED
    BY <1>0, <2>2, <2>3, <2>4, Zenon DEF Onward
<1>2. Good(r)'
  BY <1>0, <1>1, Carried, Zenon
<1>3. Plans' = Plans
  BY <1>0, SameSets, Zenon
<1>4. acks' \subseteq Plans
  BY <1>0, Zenon DEF Acknowledged, HostOK
<1>5. HostOK'
  <2>1. /\ setup' \in Setups /\ pool' \in [Plans' -> Storage]
        /\ planStream' \in [Plans' -> 0 .. setup'.streams] /\ hostStream' \in 1 .. setup'.streams
        /\ notices' \subseteq [plan : Plans', reason : {"Superseded", "Revoked"}]
    BY <1>0, <1>3, Zenon DEF HostOK
  <2>2. lane' \in [1 .. setup'.streams -> Seq(Records')]
    BY <1>0, <1>3, Zenon DEF HostOK, Records
  <2>3. acks' \subseteq Plans' /\ expired' \subseteq Plans' /\ lapsed' \subseteq 1 .. setup'.commands
    BY <1>0, <1>3, <1>4, Zenon DEF HostOK
  <2>4. \A p, q \in Plans' : pool'[p] = "Published" /\ pool'[q] = "Published" /\ AddressOf(p)' = AddressOf(q)' => p = q
    <3>1. \A p, q \in Plans : pool[p] = "Published" /\ pool[q] = "Published" /\ AddressOf(p) = AddressOf(q) => p = q
      BY <1>0, Zenon DEF HostOK
    <3> QED
      BY <1>0, <1>3, <3>1, SMTT(30) DEF AddressOf
  <2> QED
    BY <2>1, <2>2, <2>3, <2>4, Zenon DEF HostOK, Storage
<1> QED
  BY <1>2, <1>5, Zenon DEF AuthorityInv, Fine

\* The host's state is as it should be after a step, its plans apart.
HostTypes ==
  /\ setup' = setup /\ r' = r /\ acks' = acks
  /\ pool' \in [Plans -> Storage] /\ planStream' \in [Plans -> 0 .. setup.streams] /\ hostStream' \in 1 .. setup.streams
  /\ notices' \subseteq [plan : Plans, reason : {"Superseded", "Revoked"}]
  /\ lane' \in [1 .. setup.streams -> Seq(Records)]
  /\ expired' \subseteq Plans /\ lapsed' \subseteq 1 .. setup.commands
\* No plan is published that was not, or no other is for its address.
OnePublished ==
  \A p, q \in Plans : pool'[p] = "Published" /\ pool'[q] = "Published" /\ AddressOf(p) = AddressOf(q) => p = q

\* A step of the host.
LEMMA HostStep ==
  ASSUME AuthorityInv, HostTypes, OnePublished, Onward
  PROVE  AuthorityInv' /\ Quiet(r, r')
<1>0. HostOK /\ Good(r') /\ setup' = setup /\ r' = r /\ acks' = acks
  BY Zenon DEF AuthorityInv, HostTypes
<1>1. Acknowledged(r')
  BY <1>0, Zenon DEF Acknowledged
<1>2. Good(r)'
  BY <1>0, <1>1, Carried, Zenon
<1>3. Plans' = Plans
  BY <1>0, SameSets, Zenon
<1>4. HostOK'
  <2>1. /\ setup' \in Setups /\ pool' \in [Plans' -> Storage]
        /\ planStream' \in [Plans' -> 0 .. setup'.streams] /\ hostStream' \in 1 .. setup'.streams
        /\ notices' \subseteq [plan : Plans', reason : {"Superseded", "Revoked"}]
    BY <1>0, <1>3, Zenon DEF HostOK, HostTypes
  <2>2. lane' \in [1 .. setup'.streams -> Seq(Records')]
    BY <1>0, <1>3, Zenon DEF HostTypes, Records
  <2>3. acks' \subseteq Plans' /\ expired' \subseteq Plans' /\ lapsed' \subseteq 1 .. setup'.commands
    BY <1>0, <1>3, Zenon DEF HostOK, HostTypes
  <2>4. \A p, q \in Plans' : pool'[p] = "Published" /\ pool'[q] = "Published" /\ AddressOf(p)' = AddressOf(q)' => p = q
    BY <1>0, <1>3, Zenon DEF OnePublished, AddressOf
  <2> QED
    BY <2>1, <2>2, <2>3, <2>4, Zenon DEF HostOK, Storage
<1> QED
  BY <1>0, <1>2, <1>4, Zenon DEF AuthorityInv, Quiet, Hushed

\* The plans only move on.
PoolMoves ==
  \A p \in Plans : /\ pool[p] # "None" => pool'[p] # "None" /\ planStream'[p] = planStream[p]
                   /\ pool[p] \in Gone => pool'[p] \in Gone

\* The parts that most steps leave alone.
LEMMA HostStill ==
  ASSUME HostOK
  PROVE  /\ setup.streams \in Nat /\ hostStream \in Nat
         /\ \A s \in 1 .. setup.streams : Len(lane[s]) \in Nat /\ Len(lane[s]) <= Len(lane[s])
         /\ hostStream <= hostStream
<1>1. setup.streams \in Nat /\ hostStream \in 1 .. setup.streams
  BY SetupFacts DEF HostOK
<1>2. hostStream \in Nat
  BY <1>1
<1>3. \A s \in 1 .. setup.streams : Len(lane[s]) \in Nat
  BY DEF HostOK
<1> QED
  BY <1>1, <1>2, <1>3

\* A step of the host that touches its plans only.
LEMMA OnwardPool ==
  ASSUME HostOK, setup' = setup, PoolMoves, lane' = lane, hostStream' = hostStream
  PROVE  Onward
BY HostStill, Zenon DEF Onward, PoolMoves

\* The host publishes a plan, which supersedes another.
LEMMA PublishStep ==
  ASSUME AuthorityInv, NEW p \in Plans, HostPublish(p)
  PROVE  AuthorityInv' /\ Quiet(r, r')
<1> DEFINE previous == {q \in Plans : pool[q] = "Published" /\ AddressOf(q) = AddressOf(p)}
<1>0. HostOK
  BY Zenon DEF AuthorityInv
<1>1. /\ pool[p] = "None" /\ planStream' = [planStream EXCEPT ![p] = hostStream]
      /\ pool' = [q \in Plans |-> IF q = p THEN "Published" ELSE IF q \in previous THEN "Retained" ELSE pool[q]]
      /\ notices' = notices \cup {[plan |-> q, reason |-> "Superseded"] : q \in previous}
      /\ setup' = setup /\ hostStream' = hostStream /\ lane' = lane /\ acks' = acks /\ expired' = expired /\ lapsed' = lapsed /\ r' = r
  BY Zenon DEF HostPublish
<1>2. pool \in [Plans -> Storage] /\ planStream \in [Plans -> 0 .. setup.streams] /\ hostStream \in 1 .. setup.streams /\ setup.streams \in Nat
  BY <1>0, HostStill DEF HostOK
<1>3. /\ pool'[p] = "Published"
      /\ \A q \in Plans : q # p => pool'[q] = IF q \in previous THEN "Retained" ELSE pool[q]
  <2> HIDE DEF previous
  <2> QED
    BY <1>1
<1>4. HostTypes
  <2>1. pool' \in [Plans -> Storage]
    <3>1. "Published" \in Storage /\ "Retained" \in Storage
      BY DEF Storage
    <3> HIDE DEF previous
    <3> QED
      BY <1>1, <1>2, <3>1
  <2>2. hostStream \in 0 .. setup.streams
    BY <1>2
  <2>3. planStream' \in [Plans -> 0 .. setup.streams]
    BY <1>1, <1>2, <2>2
  <2>4. notices' \subseteq [plan : Plans, reason : {"Superseded", "Revoked"}]
    <3>1. previous \subseteq Plans
      OBVIOUS
    <3> HIDE DEF previous
    <3> QED
      BY <1>0, <1>1, <3>1 DEF HostOK
  <2> QED
    BY <1>0, <1>1, <1>2, <2>1, <2>3, <2>4, Zenon DEF HostTypes, HostOK
<1>5. OnePublished
  <2> SUFFICES ASSUME NEW q \in Plans, NEW t \in Plans, pool'[q] = "Published", pool'[t] = "Published", AddressOf(q) = AddressOf(t)
               PROVE  q = t
    BY DEF OnePublished
  <2>1. ASSUME NEW u \in Plans, u # p, pool'[u] = "Published"
        PROVE  pool[u] = "Published" /\ AddressOf(u) # AddressOf(p)
    <3>1. u \notin previous /\ pool[u] = "Published"
      <4> HIDE DEF previous
      <4> QED
        BY <2>1, <1>3
    <3> QED
      BY <3>1
  <2> HIDE DEF previous
  <2> QED
    BY <2>1, <1>0, Zenon DEF HostOK
<1>6. PoolMoves
  <2>1. ASSUME NEW q \in Plans, pool[q] # "None"
        PROVE  pool'[q] # "None" /\ planStream'[q] = planStream[q]
    <3>1. q # p
      BY <2>1, <1>1, Zenon
    <3>2. pool'[q] = "Retained" \/ pool'[q] = pool[q]
      BY <1>3, <3>1, Zenon
    <3>3. planStream'[q] = planStream[q]
      BY <1>1, <1>2, <3>1
    <3> QED
      BY <2>1, <3>2, <3>3
  <2>2. ASSUME NEW q \in Plans, pool[q] \in Gone
        PROVE  pool'[q] \in Gone
    <3>1. q # p /\ q \notin previous
      BY <2>2, <1>1 DEF Gone
    <3> HIDE DEF previous
    <3> QED
      BY <2>2, <3>1, <1>3, Zenon
  <2> QED
    BY <2>1, <2>2, Zenon DEF PoolMoves
<1>7. Onward
  BY <1>0, <1>1, <1>6, OnwardPool, Zenon
<1> QED
  BY <1>4, <1>5, <1>7, HostStep, Zenon

\* Plans of the set are retained or reclaimed.
LEMMA RetireMoves ==
  ASSUME HostOK, NEW kind \in Gone, NEW ended, planStream' = planStream,
         pool' \in [Plans -> Storage],
         \A q \in Plans : pool'[q] = IF q \in ended THEN kind ELSE pool[q]
  PROVE  PoolMoves /\ OnePublished
<1>1. kind # "Published" /\ kind # "None"
  BY DEF Gone
<1>2. PoolMoves
  BY <1>1, Zenon DEF PoolMoves
<1>3. OnePublished
  BY <1>1, Zenon DEF OnePublished, HostOK
<1> QED
  BY <1>2, <1>3

\* The host retires a plan.
LEMMA RetireStep ==
  ASSUME AuthorityInv, NEW p \in Plans, HostRetire(p)
  PROVE  AuthorityInv' /\ Quiet(r, r')
<1>0. HostOK
  BY Zenon DEF AuthorityInv
<1>1. /\ pool' = [pool EXCEPT ![p] = "Retained"] /\ notices' = notices \cup {[plan |-> p, reason |-> "Revoked"]}
      /\ setup' = setup /\ planStream' = planStream /\ hostStream' = hostStream /\ lane' = lane
      /\ acks' = acks /\ expired' = expired /\ lapsed' = lapsed /\ r' = r
  BY Zenon DEF HostRetire
<1>2. pool \in [Plans -> Storage] /\ "Retained" \in Storage /\ "Retained" \in Gone
  BY <1>0 DEF HostOK, Storage, Gone
<1>3. pool' \in [Plans -> Storage] /\ \A q \in Plans : pool'[q] = IF q \in {p} THEN "Retained" ELSE pool[q]
  BY <1>1, <1>2
<1>4. PoolMoves /\ OnePublished
  BY <1>0, <1>1, <1>2, <1>3, RetireMoves, Zenon
<1>5. notices' \subseteq [plan : Plans, reason : {"Superseded", "Revoked"}]
  BY <1>0, <1>1 DEF HostOK
<1>6. HostTypes
  BY <1>0, <1>1, <1>3, <1>5, Zenon DEF HostTypes, HostOK
<1>7. Onward
  BY <1>0, <1>1, <1>4, OnwardPool, Zenon
<1> QED
  BY <1>4, <1>6, <1>7, HostStep, Zenon

\* The host reclaims a plan that was acknowledged.
LEMMA ReclaimStep ==
  ASSUME AuthorityInv, NEW p \in Plans, HostReclaims(p)
  PROVE  AuthorityInv' /\ Quiet(r, r')
<1>0. HostOK
  BY Zenon DEF AuthorityInv
<1>1. /\ pool' = [pool EXCEPT ![p] = "Reclaimed"] /\ notices' = notices
      /\ setup' = setup /\ planStream' = planStream /\ hostStream' = hostStream /\ lane' = lane
      /\ acks' = acks /\ expired' = expired /\ lapsed' = lapsed /\ r' = r
  BY Zenon DEF HostReclaims
<1>2. pool \in [Plans -> Storage] /\ "Reclaimed" \in Storage /\ "Reclaimed" \in Gone
  BY <1>0 DEF HostOK, Storage, Gone
<1>3. pool' \in [Plans -> Storage] /\ \A q \in Plans : pool'[q] = IF q \in {p} THEN "Reclaimed" ELSE pool[q]
  BY <1>1, <1>2
<1>4. PoolMoves /\ OnePublished
  BY <1>0, <1>1, <1>2, <1>3, RetireMoves, Zenon
<1>6. HostTypes
  BY <1>0, <1>1, <1>3, Zenon DEF HostTypes, HostOK
<1>7. Onward
  BY <1>0, <1>1, <1>4, OnwardPool, Zenon
<1> QED
  BY <1>4, <1>6, <1>7, HostStep, Zenon

\* The host binds the next stream.
LEMMA RebindStep ==
  ASSUME AuthorityInv, HostRebinds
  PROVE  AuthorityInv' /\ Quiet(r, r')
<1> DEFINE ended == {q \in Plans : pool[q] \in Readable}
<1>0. HostOK
  BY Zenon DEF AuthorityInv
<1>1. /\ pool' = [q \in Plans |-> IF q \in ended THEN "Retained" ELSE pool[q]]
      /\ notices' = notices \cup {[plan |-> q, reason |-> "Revoked"] : q \in ended}
      /\ hostStream < setup.streams /\ hostStream' = hostStream + 1
      /\ setup' = setup /\ planStream' = planStream /\ lane' = lane
      /\ acks' = acks /\ expired' = expired /\ lapsed' = lapsed /\ r' = r
  BY Zenon DEF HostRebinds
<1>2. pool \in [Plans -> Storage] /\ "Retained" \in Storage /\ "Retained" \in Gone /\ ended \subseteq Plans
  BY <1>0 DEF HostOK, Storage, Gone
<1> HIDE DEF ended
<1>3. pool' \in [Plans -> Storage] /\ \A q \in Plans : pool'[q] = IF q \in ended THEN "Retained" ELSE pool[q]
  BY <1>1, <1>2
<1>4. PoolMoves /\ OnePublished
  BY <1>0, <1>1, <1>2, <1>3, RetireMoves, Zenon
<1>5. notices' \subseteq [plan : Plans, reason : {"Superseded", "Revoked"}]
  BY <1>0, <1>1, <1>2 DEF HostOK
<1>s. hostStream' \in Nat /\ hostStream <= hostStream' /\ hostStream' \in 1 .. setup.streams
  <2>1. hostStream \in Nat /\ setup.streams \in Nat /\ hostStream \in 1 .. setup.streams
    BY <1>0, HostStill DEF HostOK
  <2> QED
    BY <1>1, <2>1
<1>6. HostTypes
  BY <1>0, <1>1, <1>3, <1>5, <1>s, Zenon DEF HostTypes, HostOK
<1>7. Onward
  BY <1>0, <1>1, <1>4, <1>s, HostStill, Zenon DEF Onward, PoolMoves
<1> QED
  BY <1>4, <1>6, <1>7, HostStep, Zenon

\* A record is put on the control lane of a stream.
LEMMA LaneStep ==
  ASSUME AuthorityInv, NEW s \in 1 .. setup.streams, NEW record \in Records,
         lane' = [lane EXCEPT ![s] = Append(@, record)],
         UNCHANGED <<setup, pool, planStream, hostStream, notices, acks, expired, lapsed, r>>
  PROVE  AuthorityInv' /\ Quiet(r, r')
<1>0. HostOK
  BY Zenon DEF AuthorityInv
<1>1. lane \in [1 .. setup.streams -> Seq(Records)]
  BY <1>0, Zenon DEF HostOK
<1>2. Append(lane[s], record) \in Seq(Records) /\ Len(Append(lane[s], record)) = Len(lane[s]) + 1
  BY <1>1
<1> DEFINE g == Append(lane[s], record)
<1>3. lane' = [lane EXCEPT ![s] = g]
  BY Zenon
<1> HIDE DEF g
<1>4. lane' \in [1 .. setup.streams -> Seq(Records)]
  BY <1>1, <1>2, <1>3 DEF g
<1>5. \A t \in 1 .. setup.streams : Len(lane'[t]) \in Nat /\ Len(lane[t]) <= Len(lane'[t])
  <2> SUFFICES ASSUME NEW t \in 1 .. setup.streams PROVE Len(lane'[t]) \in Nat /\ Len(lane[t]) <= Len(lane'[t])
    OBVIOUS
  <2>1. Len(lane[t]) \in Nat
    BY <1>1
  <2>2. CASE t = s
    <3>1. lane'[t] = g
      BY <2>2, <1>1, <1>3
    <3> QED
      BY <3>1, <2>1, <2>2, <1>2 DEF g
  <2>3. CASE t # s
    <3>1. lane'[t] = lane[t]
      BY <2>3, <1>1, <1>3
    <3> QED
      BY <3>1, <2>1
  <2> QED
    BY <2>2, <2>3
<1>6. OnePublished
  BY <1>0, Zenon DEF OnePublished, HostOK
<1>7. HostTypes
  BY <1>0, <1>4, Zenon DEF HostTypes, HostOK
<1>8. Onward
  BY <1>0, <1>5, HostStill, Zenon DEF Onward
<1> QED
  BY <1>6, <1>7, <1>8, HostStep, Zenon

\* The host puts a publication or a revocation on the lane.
LEMMA SendsStep ==
  ASSUME AuthorityInv, NEW p \in Plans, NEW kind \in {"publish", "revoke"}, HostSends(kind, p)
  PROVE  AuthorityInv' /\ Quiet(r, r')
<1> DEFINE s == planStream[p]
           record == [kind |-> kind, plan |-> p]
<1>0. HostOK
  BY Zenon DEF AuthorityInv
<1>1. s # 0 /\ lane' = [lane EXCEPT ![s] = Append(@, record)]
  BY Zenon DEF HostSends
<1>2. s \in 1 .. setup.streams
  <2>1. s \in 0 .. setup.streams /\ setup.streams \in Nat
    BY <1>0, HostStill DEF HostOK
  <2> QED
    BY <1>1, <2>1
<1>3. record \in Records
  BY DEF Records
<1>4. UNCHANGED <<setup, pool, planStream, hostStream, notices, acks, expired, lapsed, r>>
  BY DEF HostSends
<1> HIDE DEF s, record
<1> QED
  BY <1>1, <1>2, <1>3, <1>4, LaneStep

\* The host stops the stream.
LEMMA StopsStep ==
  ASSUME AuthorityInv, HostStops
  PROVE  AuthorityInv' /\ Quiet(r, r')
<1> DEFINE s == hostStream
           record == [kind |-> "stop", plan |-> 0]
<1>1. s \in 1 .. setup.streams
  BY Zenon DEF AuthorityInv, HostOK
<1>2. record \in Records
  BY DEF Records
<1>3. lane' = [lane EXCEPT ![s] = Append(@, record)]
  BY Zenon DEF HostStops
<1>4. UNCHANGED <<setup, pool, planStream, hostStream, notices, acks, expired, lapsed, r>>
  BY DEF HostStops
<1> HIDE DEF s, record
<1> QED
  BY <1>1, <1>2, <1>3, <1>4, LaneStep

\* Time passes.
LEMMA TimeStep ==
  ASSUME AuthorityInv, UNCHANGED <<setup, hostVars, acks, r>>, expired' \subseteq Plans, lapsed' \subseteq 1 .. setup.commands
  PROVE  AuthorityInv' /\ Quiet(r, r')
<1>0. HostOK
  BY Zenon DEF AuthorityInv
<1>1. /\ setup' = setup /\ pool' = pool /\ planStream' = planStream /\ hostStream' = hostStream
      /\ notices' = notices /\ lane' = lane /\ acks' = acks /\ r' = r
  BY DEF hostVars
<1>2. OnePublished /\ PoolMoves
  BY <1>0, <1>1, Zenon DEF OnePublished, PoolMoves, HostOK
<1>3. HostTypes
  BY <1>0, <1>1, Zenon DEF HostTypes, HostOK
<1>4. Onward
  BY <1>0, <1>1, <1>2, OnwardPool, Zenon
<1> QED
  BY <1>2, <1>3, <1>4, HostStep, Zenon

\* A plan's deadline passes.
LEMMA ExpiresStep ==
  ASSUME AuthorityInv, NEW p \in Plans, PlanExpires(p)
  PROVE  AuthorityInv' /\ Quiet(r, r')
<1>1. expired \subseteq Plans /\ lapsed \subseteq 1 .. setup.commands
  BY Zenon DEF AuthorityInv, HostOK
<1>2. expired' \subseteq Plans /\ lapsed' \subseteq 1 .. setup.commands /\ UNCHANGED <<setup, hostVars, acks, r>>
  BY <1>1 DEF PlanExpires
<1> QED
  BY <1>2, TimeStep

\* A command's deadline passes.
LEMMA LapsesStep ==
  ASSUME AuthorityInv, NEW c \in 1 .. setup.commands, CommandLapses(c)
  PROVE  AuthorityInv' /\ Quiet(r, r')
<1>1. expired \subseteq Plans /\ lapsed \subseteq 1 .. setup.commands
  BY Zenon DEF AuthorityInv, HostOK
<1>2. expired' \subseteq Plans /\ lapsed' \subseteq 1 .. setup.commands /\ UNCHANGED <<setup, hostVars, acks, r>>
  BY <1>1 DEF CommandLapses
<1> QED
  BY <1>2, TimeStep

\* A call that acknowledges nothing.
LEMMA QuietCall ==
  ASSUME AuthorityInv, Calls, UNCHANGED acks, Fine(r, r')
  PROVE  AuthorityInv' /\ Quiet(r, r')
<1>1. Acknowledged(r')
  BY Zenon DEF Acknowledged
<1>2. UNCHANGED <<setup, hostVars, expired, lapsed>>
  BY DEF Calls
<1> QED
  BY <1>1, <1>2, CallStep

\* AA25TryPublish of a symbol.
LEMMA RawStep ==
  ASSUME AuthorityInv, ObserveRaw
  PROVE  AuthorityInv' /\ Quiet(r, r')
<1>0. HostOK /\ Good(r) /\ setup \in Setups
  BY Zenon DEF AuthorityInv, HostOK
<1>1. PICK raw \in setup.symbols, early \in (IF r.awaitEcho THEN BOOLEAN ELSE {FALSE}),
           refused \in May("refuse"), exhausted \in May("gap") : r' = RawSymbol(r, raw, early, ~refused, exhausted)
  BY Zenon DEF ObserveRaw
<1>2. raw \in Byte
  BY <1>0, SetupFacts, Zenon
<1>3. Fine(r, RawSymbol(r, raw, early, ~refused, exhausted))
  BY <1>0, <1>2, RawSymbolFine, Zenon
<1>4. Fine(r, r') /\ Calls /\ UNCHANGED acks
  BY <1>1, <1>3, Zenon DEF ObserveRaw
<1> QED
  BY <1>4, QuietCall, Zenon

\* AA25TryPublish of a gap.
LEMMA GapStep ==
  ASSUME AuthorityInv, ObserveGap
  PROVE  AuthorityInv' /\ Quiet(r, r')
<1>0. HostOK /\ Good(r)
  BY Zenon DEF AuthorityInv
<1>1. PICK reason \in {"Gap", "Clock"} : r' = RaiseGap(r, reason)
  BY Zenon DEF ObserveGap
<1>2. Fine(r, RaiseGap(r, reason))
  BY <1>0, RaisedGood, HushedFine, Zenon
<1>3. Fine(r, r') /\ Calls /\ UNCHANGED acks
  BY <1>1, <1>2, Zenon DEF ObserveGap
<1> QED
  BY <1>3, QuietCall, Zenon

\* What the invariant reads of a responder.
SameCore(x, y) ==
  /\ y.bindings = x.bindings /\ y.current = x.current /\ y.planTop = x.planTop /\ y.stream = x.stream
  /\ y.superseded = x.superseded /\ y.revoked = x.revoked
  /\ y.active = x.active /\ y.pin = x.pin /\ y.plan = x.plan
  /\ SameSend(x, y) /\ SameText(x, y) /\ SameRing(x, y)

\* The fields the invariant does not read may change.
LEMMA CoreGood ==
  ASSUME NEW x, NEW y, Good(x), y \in Responders, SameCore(x, y), y.frame = x.frame \/ (y.frame = "Unsynced" /\ ~x.active),
         y.ack \in {x.ack, 0}, y.active => y.held = 0
  PROVE  Good(y) /\ Hushed(x, y)
<1>0. ViewOK(x) /\ HoldOK(x) /\ SendOK(x) /\ TextOK(x) /\ RingOK(x) /\ ReadOK(x)
  BY Zenon DEF Good
<1>1. ViewOK(y)
  BY <1>0, SMT DEF ViewOK, SameCore
<1>2. HoldOK(y)
  <2>1. \A p \in (acks \cup {y.ack}) \ {0} : p \in (acks \cup {x.ack}) \ {0}
    BY Zenon
  <2>2. /\ y.active = (y.pin # 0) /\ y.plan = y.pin
        /\ y.pin # 0 => pool[y.pin] # "None" /\ planStream[y.pin] = y.stream
    BY <1>0, Zenon DEF HoldOK, SameCore
  <2>3. \A p \in (acks \cup {x.ack}) \ {0} : pool[p] \in Gone /\ p # y.pin /\ \A a \in Targets : y.current[a] # p
    BY <1>0, Zenon DEF HoldOK, SameCore
  <2> QED
    BY <2>1, <2>2, <2>3, Zenon DEF HoldOK
<1>3. SendOK(y) /\ TextOK(y)
  <2>1. CASE y.frame = x.frame
    BY <1>0, <2>1, Zenon DEF SendOK, TextOK, SameCore, SameSend, SameText
  <2>2. CASE y.frame = "Unsynced" /\ ~x.active
    <3>1. "Unsynced" \notin Asked \cup Spoken /\ "Unsynced" # "Data" /\ x.offset = 0 /\ ~x.awaitEcho
      BY <2>2, Idle DEF Asked, Spoken
    <3> QED
      BY <1>0, <2>2, <3>1, Zenon DEF SendOK, TextOK, SameCore, SameSend, SameText
  <2> QED
    BY <2>1, <2>2
<1>4. RingOK(y) /\ ReadOK(y)
  BY <1>0, Zenon DEF RingOK, ReadOK, SameCore, SameRing
<1> QED
  BY <1>1, <1>2, <1>3, <1>4, Zenon DEF Good, Hushed, SameCore, SameSend

\* AA25TryPublish of a framing error.
LEMMA FramingStep ==
  ASSUME AuthorityInv, ObserveFraming
  PROVE  AuthorityInv' /\ Quiet(r, r')
<1> DEFINE c == Close(r, "Framing")
           y == [c EXCEPT !.frame = "Unsynced"]
<1>0. HostOK /\ Good(r) /\ setup \in Setups
  BY Zenon DEF AuthorityInv, HostOK
<1>1. Over(r, c)
  BY <1>0, ClosedGood, Zenon
<1>2. r' = y /\ Calls /\ UNCHANGED acks
  BY Zenon DEF ObserveFraming
<1> HIDE DEF c
<1>3. c \in Responders /\ Good(c) /\ ~c.active /\ Hushed(r, c)
  BY <1>1, Zenon DEF Over, Good
<1>4. "Unsynced" \in Frames
  BY DEF Frames
<1>5. y \in Responders
  BY <1>3, <1>4, ZenonT(60) DEF Responders
<1>6. SameCore(c, y) /\ y.frame = "Unsynced" /\ y.ack = c.ack /\ y.active = c.active
  BY <1>3 DEF Responders, SameCore, SameSend, SameText, SameRing
<1> HIDE DEF y
<1>7. Good(y) /\ Hushed(c, y)
  BY <1>3, <1>5, <1>6, CoreGood
<1>8. Hushed(r, y)
  BY <1>3, <1>7, HushedThen
<1>9. Fine(r, r')
  BY <1>2, <1>7, <1>8, HushedFine, Zenon
<1> QED
  BY <1>2, <1>9, QuietCall, Zenon

\* AA26Poll, in time or late.
LEMMA PollStep ==
  ASSUME AuthorityInv, NEW late, AA26Poll(late)
  PROVE  AuthorityInv' /\ Quiet(r, r')
<1> DEFINE x == HoldDropped(r)
           a == Authority(x)
           z == Housekeep(r, late)
<1>0. HostOK /\ Good(r)
  BY Zenon DEF AuthorityInv
<1>1. Good(x) /\ Hushed(r, x)
  BY <1>0, HoldDroppedGood, Zenon DEF Freed
<1>2. Fine(r, z)
  <2>1. CASE ~x.active
    <3>1. z = x
      BY <2>1 DEF Housekeep
    <3> HIDE DEF x, z
    <3> QED
      BY <1>1, <3>1, HushedFine, Zenon
  <2>2. CASE x.active /\ late
    <3> DEFINE reason == IF x.awaitEcho THEN "Collision" ELSE "Idle"
    <3>1. z = Close(x, reason)
      BY <2>2 DEF Housekeep
    <3> HIDE DEF x, z, reason
    <3>2. Over(x, Close(x, reason))
      BY <1>0, <1>1, ClosedGood, Zenon
    <3>3. Fine(r, Close(x, reason))
      BY <1>1, <3>2, HushedThen
    <3> QED
      BY <3>1, <3>3, Zenon
  <2>3. CASE x.active /\ ~late
    <3>1. z = a.x \/ z = Close(a.x, a.reason)
      BY <2>3 DEF Housekeep
    <3> HIDE DEF x, z
    <3>2. Ruled(x, a)
      BY <1>0, <1>1, <2>3, AuthorityGood, Zenon
    <3> HIDE DEF a
    <3>3. Good(a.x) /\ Hushed(x, a.x)
      BY <3>2, Zenon DEF Ruled
    <3>4. Hushed(r, a.x)
      BY <1>1, <3>3, HushedThen
    <3>5. Over(a.x, Close(a.x, a.reason))
      BY <1>0, <3>3, ClosedGood, Zenon
    <3>6. Fine(r, Close(a.x, a.reason))
      BY <3>4, <3>5, HushedThen
    <3>7. Fine(r, a.x)
      BY <3>3, <3>4, HushedFine, Zenon
    <3> QED
      BY <3>1, <3>6, <3>7, Zenon
  <2> QED
    BY <2>1, <2>2, <2>3, Zenon
<1> HIDE DEF z
<1>3. r' = z /\ Calls /\ UNCHANGED acks
  BY Zenon DEF AA26Poll, z
<1>4. Fine(r, r')
  BY <1>2, <1>3, Zenon
<1> QED
  BY <1>3, <1>4, QuietCall, Zenon

\* A plan is adopted: the one before it is the host's to reclaim, unless it is pinned.
LEMMA AdoptStep ==
  ASSUME AuthorityInv, NEW p \in Plans, AA26AdoptPlan(p)
  PROVE  AuthorityInv' /\ Quiet(r, r')
<1> DEFINE a == AddressOf(p)
           previous == r.current[a]
           old == previous # 0 /\ pool[previous] # "Reclaimed"
           top == [r.planTop EXCEPT ![a] = p]
           current == [r.current EXCEPT ![a] = p]
           bindings == [r.bindings EXCEPT ![a] = p]
           gone == IF old THEN r.superseded \cup {previous} ELSE r.superseded
           y == [r EXCEPT !.planTop = top, !.current = current, !.bindings = bindings, !.superseded = gone]
<1>0. HostOK /\ Good(r) /\ setup \in Setups /\ r \in Responders /\ ViewOK(r) /\ HoldOK(r) /\ SendOK(r) /\ TextOK(r) /\ RingOK(r) /\ ReadOK(r)
  BY Zenon DEF AuthorityInv, HostOK, Good
<1>1. /\ pool[p] = "Published" /\ planStream[p] = r.stream /\ p > r.planTop[a]
      /\ acks' = IF old /\ r.pin # previous THEN acks \cup {previous} ELSE acks
      /\ Calls
  BY Zenon DEF AA26AdoptPlan, Acknowledge
<1>2. r' = y
  BY DEF AA26AdoptPlan
<1>3. a \in Targets /\ p \in Nat /\ p # 0 /\ Plans \subseteq Nat \ {0}
  BY <1>0, SetupFacts
<1>4. r.planTop \in [Targets -> PlanIds] /\ r.current \in [Targets -> PlanIds] /\ r.bindings \in [Targets -> PlanIds] /\ r.superseded \in SUBSET Plans
      /\ r.revoked \in SUBSET Plans
  BY <1>0 DEF Responders, Tables, PlanIds, PlanSets
<1>5. previous \in PlanIds /\ r.planTop[a] \in PlanIds
  BY <1>3, <1>4
<1> HIDE DEF a
<1>6. top \in Tables /\ current \in Tables /\ bindings \in Tables
  BY <1>3, <1>4 DEF Tables, PlanIds
<1>7. /\ top[a] = p /\ current[a] = p
      /\ \A b \in Targets : b # a => current[b] = r.current[b] /\ top[b] = r.planTop[b]
  BY <1>3, <1>4
<1>8. bindings = current
  BY <1>0, Zenon DEF ViewOK
<1>9. previous # 0 => previous \in Plans /\ previous # p /\ AddressOf(previous) = a /\ pool[previous] \in Gone
  <2> SUFFICES ASSUME previous # 0 PROVE previous \in Plans /\ previous # p /\ AddressOf(previous) = a /\ pool[previous] \in Gone
    OBVIOUS
  <2>1. previous \in Plans
    BY <1>5 DEF PlanIds
  <2>2. AddressOf(previous) = a /\ pool[previous] # "None" /\ previous <= r.planTop[a]
    BY <1>0, <1>3, Zenon DEF ViewOK
  <2>0. \A q \in PlanIds : q \in Nat
    BY <1>3 DEF PlanIds
  <2>3. r.planTop[a] \in Nat /\ previous \in Nat
    BY <2>0, <1>5, Zenon
  <2>4. previous # p
    <3> HIDE DEF previous
    <3> QED
      BY <2>2, <2>3, <1>1, <1>3
  <2>5. pool[previous] # "Published"
    BY <2>1, <2>2, <2>4, <1>0, <1>1, Zenon DEF HostOK, a
  <2>6. pool[previous] \in Storage
    BY <2>1, <1>0 DEF HostOK
  <2> QED
    BY <2>1, <2>2, <2>4, <2>5, <2>6 DEF Storage, Gone
<1>10. gone \in PlanSets /\ r.superseded \subseteq gone /\ \A q \in gone : q \in r.superseded \/ (q = previous /\ previous # 0)
  BY <1>4, <1>9 DEF PlanSets
<1> HIDE DEF previous, old, top, current, bindings, gone
<1>11. y \in Responders
  BY <1>0, <1>6, <1>10, ZenonT(60) DEF Responders
<1>12. /\ y.planTop = top /\ y.current = current /\ y.bindings = bindings /\ y.superseded = gone
       /\ y.stream = r.stream /\ y.revoked = r.revoked /\ SameHold(r, y) /\ SameSend(r, y) /\ SameText(r, y) /\ SameRing(r, y)
       /\ y.frame = r.frame
  BY <1>0 DEF Responders, SameHold, SameSend, SameText, SameRing
<1> HIDE DEF y
<1>13. ViewOK(y)
  <2>1. ASSUME NEW b \in Targets, y.current[b] # 0
        PROVE  /\ AddressOf(y.current[b]) = b /\ pool[y.current[b]] # "None" /\ planStream[y.current[b]] = y.stream
               /\ y.current[b] <= y.planTop[b] /\ y.current[b] \notin y.superseded \cup y.revoked
    <3>1. CASE b = a
      <4>1. y.current[b] = p /\ y.planTop[b] = p
        BY <3>1, <1>7, <1>12, Zenon
      <4>2. p <= p /\ pool[p] # "None" /\ pool[p] \notin Gone
        BY <1>1, <1>3 DEF Gone
      <4>3. p \notin y.superseded \cup y.revoked
        BY <4>2, <1>0, <1>9, <1>10, <1>12, Zenon DEF ViewOK
      <4> QED
        BY <3>1, <4>1, <4>2, <4>3, <1>1, <1>12, Zenon DEF a
    <3>2. CASE b # a
      <4>1. y.current[b] = r.current[b] /\ y.planTop[b] = r.planTop[b] /\ r.current[b] # 0
        BY <2>1, <3>2, <1>7, <1>12, Zenon
      <4>2. /\ AddressOf(r.current[b]) = b /\ pool[r.current[b]] # "None" /\ planStream[r.current[b]] = r.stream
            /\ r.current[b] <= r.planTop[b] /\ r.current[b] \notin r.superseded \cup r.revoked
        BY <4>1, <1>0, Zenon DEF ViewOK
      <4>3. r.current[b] \notin gone
        BY <3>2, <4>2, <1>9, <1>10, Zenon
      <4> QED
        BY <4>1, <4>2, <4>3, <1>12, Zenon
    <3> QED
      BY <3>1, <3>2
  <2>2. \A q \in y.superseded \cup y.revoked : pool[q] \in Gone
    BY <1>0, <1>9, <1>10, <1>12, Zenon DEF ViewOK
  <2> QED
    BY <1>8, <1>12, <2>1, <2>2, Zenon DEF ViewOK
<1>14. pool[p] \notin Gone
  BY <1>1 DEF Gone
<1>15. HoldOK(y)
  <2>1. ASSUME NEW q \in (acks \cup {y.ack}) \ {0}
        PROVE  pool[q] \in Gone /\ q # y.pin /\ \A b \in Targets : y.current[b] # q
    <3>1. pool[q] \in Gone /\ q # r.pin /\ \A b \in Targets : r.current[b] # q
      BY <1>0, <1>12, Zenon DEF HoldOK, SameHold
    <3>2. ASSUME NEW b \in Targets PROVE current[b] # q
      BY <3>1, <1>7, <1>14, Zenon
    <3> QED
      BY <3>1, <3>2, <1>12, Zenon DEF SameHold
  <2>2. /\ y.active = (y.pin # 0) /\ y.plan = y.pin /\ (y.active => y.held = 0)
        /\ y.pin # 0 => pool[y.pin] # "None" /\ planStream[y.pin] = y.stream
    BY <1>0, <1>12, Zenon DEF HoldOK, SameHold
  <2> QED
    BY <2>1, <2>2, Zenon DEF HoldOK
<1>16. SendOK(y) /\ TextOK(y) /\ RingOK(y)
  BY <1>0, <1>12, KeptSend, KeptText, KeptRing, Zenon DEF SameRing
<1>17. ReadOK(y)
  BY <1>0, <1>12, Zenon DEF ReadOK, SameRing
<1>18. Fine(r, y)
  BY <1>11, <1>12, <1>13, <1>15, <1>16, <1>17, Zenon DEF Fine, Quiet, Hushed, Good, SameSend
<1>19. Acknowledged(y)
  <2>1. ASSUME NEW q \in acks', q \notin acks
        PROVE  q \in Plans /\ pool[q] \in Gone /\ q # y.pin /\ \A b \in Targets : y.current[b] # q
    <3>1. q = previous /\ previous # 0 /\ r.pin # previous
      BY <2>1, <1>1, Zenon DEF old
    <3>2. ASSUME NEW b \in Targets PROVE y.current[b] # q
      <4>1. CASE b = a
        BY <4>1, <3>1, <1>7, <1>9, <1>12, Zenon
      <4>2. CASE b # a
        <5>1. y.current[b] = r.current[b]
          BY <4>2, <1>7, <1>12, Zenon
        <5>2. r.current[b] # 0 => AddressOf(r.current[b]) = b
          BY <1>0, Zenon DEF ViewOK
        <5> QED
          BY <4>2, <5>1, <5>2, <3>1, <1>9, Zenon
      <4> QED
        BY <4>1, <4>2
    <3>3. y.pin = r.pin
      BY <1>12, Zenon DEF SameHold
    <3> QED
      BY <3>1, <3>2, <3>3, <1>9, Zenon
  <2> QED
    BY <2>1, Zenon DEF Acknowledged
<1>20. Fine(r, r') /\ Acknowledged(r') /\ UNCHANGED <<setup, hostVars, expired, lapsed>>
  BY <1>1, <1>2, <1>18, <1>19, Zenon DEF Calls
<1> QED
  BY <1>20, CallStep

\* A notice is noted: its plan is neither current nor bound any more.
Noted(n) ==
  [r EXCEPT !.superseded = IF n.reason = "Superseded" THEN @ \cup {n.plan} ELSE @,
            !.revoked = IF n.reason = "Superseded" THEN @ ELSE @ \cup {n.plan},
            !.current[AddressOf(n.plan)] = IF @ = n.plan THEN 0 ELSE @,
            !.bindings[AddressOf(n.plan)] = IF @ = n.plan THEN 0 ELSE @]

\* A noted plan is neither selected nor bound any more.
LEMMA NoticeGood ==
  ASSUME NEW n \in notices, AuthorityInv, pool[n.plan] = "Retained"
  PROVE  LET y == Noted(n)
         IN  Good(y) /\ Hushed(r, y) /\ y.pin = r.pin /\ \A a \in Targets : y.current[a] # n.plan
<1> DEFINE y == Noted(n)
           p == n.plan
           a == AddressOf(p)
           s == IF n.reason = "Superseded" THEN r.superseded \cup {p} ELSE r.superseded
           v == IF n.reason = "Superseded" THEN r.revoked ELSE r.revoked \cup {p}
           current == [r.current EXCEPT ![a] = IF r.current[a] = p THEN 0 ELSE r.current[a]]
           bindings == [r.bindings EXCEPT ![a] = IF r.bindings[a] = p THEN 0 ELSE r.bindings[a]]
<1>0. HostOK /\ Good(r) /\ setup \in Setups /\ r \in Responders /\ ViewOK(r) /\ HoldOK(r) /\ SendOK(r) /\ TextOK(r) /\ RingOK(r) /\ ReadOK(r)
  BY Zenon DEF AuthorityInv, HostOK, Good
<1>1. y = [r EXCEPT !.superseded = s, !.revoked = v, !.current = current, !.bindings = bindings]
  BY DEF Noted
<1> HIDE DEF y
<1>2. p \in Plans
  BY <1>0 DEF HostOK
<1>3. a \in Targets /\ p # 0
  BY <1>0, <1>2, SetupFacts
<1>4. r.current \in [Targets -> PlanIds] /\ r.bindings = r.current /\ r.superseded \in SUBSET Plans /\ r.revoked \in SUBSET Plans
  BY <1>0 DEF Responders, Tables, PlanIds, PlanSets, ViewOK
<1>5. bindings = current
  BY <1>4, Zenon
<1>6. s \in PlanSets /\ v \in PlanSets /\ s \cup v = r.superseded \cup r.revoked \cup {p}
  BY <1>2, <1>4 DEF PlanSets
<1> HIDE DEF p, a
<1>7. /\ \A b \in Targets : b # a => current[b] = r.current[b]
      /\ current[a] = IF r.current[a] = p THEN 0 ELSE r.current[a]
  BY <1>3, <1>4
<1>8. current \in Tables
  <2>1. r.current[a] \in PlanIds /\ 0 \in PlanIds
    BY <1>3, <1>4 DEF PlanIds
  <2> QED
    BY <2>1, <1>4 DEF Tables, PlanIds
<1>9. \A b \in Targets : current[b] # 0 => current[b] = r.current[b] /\ current[b] # p
  <2> SUFFICES ASSUME NEW b \in Targets, current[b] # 0 PROVE current[b] = r.current[b] /\ current[b] # p
    BY Zenon
  <2> HIDE DEF current
  <2>1. CASE b = a
    BY <2>1, <1>7, Zenon
  <2>2. CASE b # a
    <3>1. current[b] = r.current[b]
      BY <2>2, <1>7, Zenon
    <3>2. AddressOf(r.current[b]) = b
      BY <3>1, <1>0, Zenon DEF ViewOK
    <3> QED
      BY <2>2, <3>1, <3>2, Zenon DEF a
  <2> QED
    BY <2>1, <2>2
<1> HIDE DEF current, bindings, s, v
<1>10. y \in Responders
  BY <1>0, <1>1, <1>5, <1>6, <1>8, ZenonT(60) DEF Responders
<1>11. /\ y.superseded = s /\ y.revoked = v /\ y.current = current /\ y.bindings = bindings /\ y.planTop = r.planTop
       /\ y.stream = r.stream /\ SameHold(r, y) /\ SameSend(r, y) /\ SameText(r, y) /\ SameRing(r, y)
       /\ y.frame = r.frame
  BY <1>0, <1>1 DEF Responders, SameHold, SameSend, SameText, SameRing
<1>12. pool[p] \in Gone
  BY DEF Gone, p
<1>13. ViewOK(y)
  <2>1. ASSUME NEW b \in Targets, y.current[b] # 0
        PROVE  /\ AddressOf(y.current[b]) = b /\ pool[y.current[b]] # "None" /\ planStream[y.current[b]] = y.stream
               /\ y.current[b] <= y.planTop[b] /\ y.current[b] \notin y.superseded \cup y.revoked
    <3>1. y.current[b] = r.current[b] /\ r.current[b] # p /\ r.current[b] # 0
      BY <2>1, <1>9, <1>11, Zenon
    <3>2. /\ AddressOf(r.current[b]) = b /\ pool[r.current[b]] # "None" /\ planStream[r.current[b]] = r.stream
          /\ r.current[b] <= r.planTop[b] /\ r.current[b] \notin r.superseded \cup r.revoked
      BY <3>1, <1>0, Zenon DEF ViewOK
    <3>3. r.current[b] \notin y.superseded \cup y.revoked
      BY <3>1, <3>2, <1>6, <1>11, Zenon
    <3> QED
      BY <3>1, <3>2, <3>3, <1>11, Zenon
  <2>2. \A q \in y.superseded \cup y.revoked : pool[q] \in Gone
    BY <1>0, <1>6, <1>11, <1>12, Zenon DEF ViewOK
  <2> QED
    BY <1>5, <1>11, <2>1, <2>2, Zenon DEF ViewOK
<1>14. HoldOK(y)
  <2>1. ASSUME NEW q \in (acks \cup {y.ack}) \ {0}
        PROVE  pool[q] \in Gone /\ q # y.pin /\ \A b \in Targets : y.current[b] # q
    <3>1. pool[q] \in Gone /\ q # r.pin /\ (\A b \in Targets : r.current[b] # q) /\ q # 0
      BY <1>0, <1>11, Zenon DEF HoldOK, SameHold
    <3>2. ASSUME NEW b \in Targets PROVE current[b] # q
      BY <3>1, <1>9, Zenon
    <3> QED
      BY <3>1, <3>2, <1>11, Zenon DEF SameHold
  <2>2. /\ y.active = (y.pin # 0) /\ y.plan = y.pin /\ (y.active => y.held = 0)
        /\ y.pin # 0 => pool[y.pin] # "None" /\ planStream[y.pin] = y.stream
    BY <1>0, <1>11, Zenon DEF HoldOK, SameHold
  <2> QED
    BY <2>1, <2>2, Zenon DEF HoldOK
<1>15. SendOK(y) /\ TextOK(y) /\ RingOK(y)
  BY <1>0, <1>11, KeptSend, KeptText, KeptRing, Zenon DEF SameRing
<1>16. ReadOK(y)
  BY <1>0, <1>11, Zenon DEF ReadOK, SameRing
<1>17. Good(y) /\ Hushed(r, y) /\ y.pin = r.pin
  BY <1>10, <1>11, <1>13, <1>14, <1>15, <1>16, Zenon DEF Hushed, Good, SameSend, SameHold
<1>18. \A b \in Targets : y.current[b] # p
  BY <1>3, <1>9, <1>11, Zenon
<1> QED
  BY <1>17, <1>18, Zenon DEF p, y

\* A notice arrives: its plan is acknowledged now, or when its transaction ends.
LEMMA NotifyStep ==
  ASSUME AuthorityInv, NEW n \in notices, AA26ObserveRevocation(n)
  PROVE  AuthorityInv' /\ Quiet(r, r')
<1> DEFINE x == Noted(n)
           ends == x.active /\ n.reason # "Superseded" /\ x.plan = n.plan
           closed == Close(x, n.reason)
           over == [closed EXCEPT !.ack = 0]
           done == Revocation(r, n)
<1>0. HostOK /\ Good(r) /\ setup \in Setups
  BY Zenon DEF AuthorityInv, HostOK
<1>1. pool[n.plan] = "Retained" /\ r' = done.x /\ acks' = (IF done.ack # 0 THEN acks \cup {done.ack} ELSE acks) /\ Calls
  BY Zenon DEF AA26ObserveRevocation, Acknowledge
<1>2. Good(x) /\ Hushed(r, x) /\ x.pin = r.pin /\ \A a \in Targets : x.current[a] # n.plan
  BY <1>1, NoticeGood, Zenon
<1>3. n.plan \in Plans /\ pool[n.plan] \in Gone
  BY <1>0, <1>1 DEF HostOK, Gone
<1>p. 0 \notin Plans
  BY <1>0, SetupFacts, Zenon
<1>4. Fine(r, done.x) /\ (done.ack # 0 => done.ack \in Plans /\ pool[done.ack] \in Gone /\ done.ack # done.x.pin
                                          /\ \A a \in Targets : done.x.current[a] # done.ack)
  <2>1. CASE ends
    <3>1. done.x = over /\ done.ack = closed.ack
      BY <2>1, Zenon DEF Revocation, Noted
    <3>2. Over(x, closed)
      <4> HIDE DEF x
      <4> QED
        BY <1>0, <1>2, ClosedGood, Zenon
    <3> HIDE DEF x, closed, done, ends
    <3>3. Good(closed) /\ closed \in Responders /\ ~closed.active /\ Hushed(r, closed) /\ HoldOK(closed)
      <4>1. Hushed(r, closed)
        BY <1>2, <3>2, HushedThen DEF Over
      <4> QED
        BY <3>2, <4>1, Zenon DEF Over, Good
    <3>4. over \in Responders
      BY <1>0, <3>3, Zeros, ZenonT(60) DEF Responders
    <3>5. SameCore(closed, over) /\ over.frame = closed.frame /\ over.ack = 0 /\ over.active = closed.active
      BY <3>3 DEF Responders, SameCore, SameSend, SameText, SameRing
    <3> HIDE DEF over
    <3>6. Good(over) /\ Hushed(closed, over)
      BY <3>3, <3>4, <3>5, CoreGood
    <3>7. Hushed(r, over)
      BY <3>3, <3>6, HushedThen
    <3>8. Fine(r, over)
      BY <3>6, <3>7, HushedFine, Zenon
    <3>9. closed.ack \in PlanIds
      BY <3>3 DEF Responders
    <3>10. closed.ack # 0 => /\ closed.ack \in Plans /\ pool[closed.ack] \in Gone /\ closed.ack # over.pin
                             /\ \A a \in Targets : over.current[a] # closed.ack
      <4>1. closed.ack # 0 => closed.ack \in Plans
        BY <3>9 DEF PlanIds
      <4> QED
        BY <3>3, <3>5, <4>1, Zenon DEF HoldOK, SameCore
    <3> QED
      BY <3>1, <3>8, <3>10, Zenon
  <2>2. CASE ~ends
    <3>1. done.x = x /\ done.ack = IF x.pin = n.plan THEN 0 ELSE n.plan
      BY <2>2, Zenon DEF Revocation, Noted
    <3> HIDE DEF x, done, ends
    <3>2. Fine(r, x)
      BY <1>2, HushedFine, Zenon
    <3>3. done.ack # 0 => done.ack = n.plan /\ x.pin # n.plan
      BY <3>1, Zenon
    <3> QED
      BY <3>1, <3>2, <3>3, <1>2, <1>3, Zenon
  <2> QED
    BY <2>1, <2>2, Zenon
<1> HIDE DEF done
<1>5. Fine(r, r')
  BY <1>1, <1>4, Zenon
<1>6. Acknowledged(r')
  BY <1>1, <1>4, Zenon DEF Acknowledged
<1>7. UNCHANGED <<setup, hostVars, expired, lapsed>>
  BY <1>1 DEF Calls
<1> QED
  BY <1>5, <1>6, <1>7, CallStep

\* The acknowledgement is taken to the host.
LEMMA TakeStep ==
  ASSUME AuthorityInv, AA26TakeAcknowledgement
  PROVE  AuthorityInv' /\ Quiet(r, r')
<1> DEFINE y == [r EXCEPT !.ack = 0]
<1>0. HostOK /\ Good(r) /\ setup \in Setups /\ r \in Responders /\ HoldOK(r)
  BY Zenon DEF AuthorityInv, HostOK, Good
<1>1. r' = y /\ r.ack # 0 /\ acks' = acks \cup {r.ack} /\ Calls
  BY Zenon DEF AA26TakeAcknowledgement, Acknowledge
<1>2. y \in Responders
  BY <1>0, Zeros, ZenonT(60) DEF Responders
<1>3. SameCore(r, y) /\ y.frame = r.frame /\ y.ack = 0 /\ y.held = r.held
  BY <1>0 DEF Responders, SameCore, SameSend, SameText, SameRing
<1> HIDE DEF y
<1>4. y.active => y.held = 0
  BY <1>0, <1>3, Zenon DEF HoldOK, SameCore
<1>5. Good(y) /\ Hushed(r, y)
  BY <1>0, <1>2, <1>3, <1>4, CoreGood
<1>6. r.ack \in Plans
  <2>1. r.ack \in PlanIds
    BY <1>0 DEF Responders
  <2> QED
    BY <2>1, <1>1 DEF PlanIds
<1>7. Acknowledged(y)
  BY <1>0, <1>1, <1>3, <1>6, Zenon DEF Acknowledged, HoldOK, SameCore
<1>8. Fine(r, y)
  BY <1>5, HushedFine, Zenon
<1>9. Fine(r, r') /\ Acknowledged(r')
  BY <1>1, <1>7, <1>8, Zenon
<1>10. UNCHANGED <<setup, hostVars, expired, lapsed>>
  BY <1>1 DEF Calls
<1> QED
  BY <1>9, <1>10, CallStep

\* The worker moves to the next stream.
LEMMA AdvanceStep ==
  ASSUME AuthorityInv, AA26AdvanceStream
  PROVE  AuthorityInv' /\ Quiet(r, r')
<1> DEFINE c == Close(r, "Stream")
           zeros == [a \in Targets |-> 0]
           next == c.stream + 1
           y == [c EXCEPT !.stream = next, !.read = 0, !.fenced = FALSE, !.command = 0, !.commandPlan = 0,
                          !.bindings = zeros, !.current = zeros,
                          !.disarmed = FALSE, !.held = 0, !.frame = "Unsynced"]
<1>0. HostOK /\ Good(r) /\ setup \in Setups /\ ReadOK(r) /\ r \in Responders
  BY Zenon DEF AuthorityInv, HostOK, Good
<1>1. r' = y /\ r.stream < hostStream /\ Calls /\ UNCHANGED acks
  BY DEF AA26AdvanceStream
<1>2. Over(r, c)
  BY <1>0, ClosedGood, Zenon
<1> HIDE DEF c
<1>3. Good(c) /\ ~c.active /\ Hushed(r, c) /\ c.stream = r.stream
  BY <1>2, Zenon DEF Over, SameView
<1>4. c \in Responders /\ ViewOK(c) /\ HoldOK(c) /\ SendOK(c) /\ TextOK(c) /\ RingOK(c)
  BY <1>3, Zenon DEF Good
<1>5. zeros \in Tables /\ \A a \in Targets : zeros[a] = 0
  BY DEF Tables
<1>6. next \in Counts /\ next \in 1 .. hostStream /\ hostStream \in Nat
  <2>1. r.stream \in Nat /\ hostStream \in Nat
    BY <1>0, HostStill DEF Responders, Counts
  <2> QED
    BY <1>1, <1>3, <2>1 DEF Counts
<1>7. "Unsynced" \in Frames /\ "Unsynced" \notin Asked \cup Spoken /\ "Unsynced" # "Data"
  BY DEF Frames, Asked, Spoken
<1> HIDE DEF zeros, next
<1>8. y \in Responders
  BY <1>0, <1>4, <1>5, <1>6, <1>7, Zeros, ZenonT(120) DEF Responders
<1>9. /\ y.stream = next /\ y.read = 0 /\ y.bindings = zeros /\ y.current = zeros /\ y.held = 0 /\ y.frame = "Unsynced"
      /\ y.superseded = c.superseded /\ y.revoked = c.revoked /\ y.active = c.active /\ y.pin = c.pin /\ y.plan = c.plan
      /\ y.ack = c.ack /\ SameSend(c, y) /\ SameText(c, y) /\ y.ring = c.ring
  BY <1>4 DEF Responders, SameSend, SameText
<1> HIDE DEF y
<1>10. ViewOK(y)
  BY <1>4, <1>5, <1>9, Zenon DEF ViewOK
<1>11. y.pin = 0
  BY <1>3, <1>4, <1>9, Zenon DEF HoldOK
<1>12. HoldOK(y)
  <2>1. \A p \in (acks \cup {y.ack}) \ {0} : pool[p] \in Gone /\ p # y.pin /\ \A a \in Targets : y.current[a] # p
    BY <1>4, <1>5, <1>9, Zenon DEF HoldOK
  <2>2. y.active = (y.pin # 0) /\ y.plan = y.pin /\ (y.active => y.held = 0)
    BY <1>4, <1>9, Zenon DEF HoldOK
  <2> QED
    BY <1>11, <2>1, <2>2, Zenon DEF HoldOK
<1>13. SendOK(y) /\ TextOK(y)
  <2>1. c.offset = 0 /\ ~c.awaitEcho
    BY <1>3, Idle, Zenon
  <2> QED
    BY <1>4, <1>7, <1>9, <2>1, Zenon DEF SendOK, TextOK, SameSend, SameText
<1>14. RingOK(y)
  BY <1>4, <1>9, KeptRing, Zenon
<1>15. ReadOK(y)
  <2>1. hostStream \in 1 .. setup.streams /\ setup.streams \in Nat
    BY <1>0, HostStill DEF HostOK
  <2>2. next \in 1 .. setup.streams
    BY <1>6, <2>1
  <2>3. Len(lane[next]) \in Nat
    BY <1>0, <2>2 DEF HostOK
  <2> QED
    BY <1>6, <1>9, <2>3 DEF ReadOK
<1>16. Good(y)
  BY <1>8, <1>10, <1>12, <1>13, <1>14, <1>15, Zenon DEF Good
<1>17. Hushed(r, y)
  BY <1>3, <1>9, Zenon DEF Hushed, SameSend
<1>18. Fine(r, r')
  BY <1>1, <1>16, <1>17, HushedFine, Zenon
<1> QED
  BY <1>1, <1>18, QuietCall, Zenon

\* A local initiator asks for the wire.
LEMMA StartStep ==
  ASSUME AuthorityInv, NEW started, AA26StartInitiator(started)
  PROVE  AuthorityInv' /\ Quiet(r, r')
<1> DEFINE s == Serviced(r)
           dropped == [s EXCEPT !.command = 0, !.commandPlan = 0]
           k == r.command
           taken == [s EXCEPT !.held = k]
<1>0. HostOK /\ Good(r) /\ setup \in Setups /\ r \in Responders
  BY Zenon DEF AuthorityInv, HostOK, Good
<1>1. ~r.active /\ Calls /\ UNCHANGED acks
  BY Zenon DEF AA26StartInitiator
<1>2. r' = s \/ r' = dropped \/ r' = taken
  BY DEF AA26StartInitiator
<1>3. Served(r, s) /\ Good(s) /\ Hushed(r, s)
  BY <1>0, ServicedGood, Zenon
<1>k. k \in CommandIds
  BY <1>0 DEF Responders
<1> HIDE DEF s, k
<1>4. s \in Responders /\ ~s.active
  BY <1>1, <1>3, Zenon DEF Served, Same, SameHold
<1>5. Fine(r, dropped)
  <2>1. dropped \in Responders
    BY <1>0, <1>4, Zeros, ZenonT(60) DEF Responders
  <2>2. SameCore(s, dropped) /\ dropped.frame = s.frame /\ dropped.ack = s.ack /\ dropped.active = s.active
    BY <1>4 DEF Responders, SameCore, SameSend, SameText, SameRing
  <2> HIDE DEF dropped
  <2>3. Good(dropped) /\ Hushed(s, dropped)
    BY <1>3, <1>4, <2>1, <2>2, CoreGood
  <2>4. Hushed(r, dropped)
    BY <1>3, <2>3, HushedThen
  <2> QED
    BY <2>3, <2>4, HushedFine, Zenon
<1>6. Fine(r, taken)
  <2>1. taken \in Responders
    BY <1>4, <1>k, ZenonT(60) DEF Responders
  <2>2. SameCore(s, taken) /\ taken.frame = s.frame /\ taken.ack = s.ack /\ taken.active = s.active
    BY <1>4 DEF Responders, SameCore, SameSend, SameText, SameRing
  <2> HIDE DEF taken
  <2>3. Good(taken) /\ Hushed(s, taken)
    BY <1>3, <1>4, <2>1, <2>2, CoreGood
  <2>4. Hushed(r, taken)
    BY <1>3, <2>3, HushedThen
  <2> QED
    BY <2>3, <2>4, HushedFine, Zenon
<1>7. Fine(r, s)
  BY <1>3, HushedFine, Zenon
<1> HIDE DEF dropped, taken
<1>8. Fine(r, r')
  BY <1>2, <1>5, <1>6, <1>7, Zenon
<1> QED
  BY <1>1, <1>8, QuietCall, Zenon

\* A local initiator is done.
LEMMA EndStep ==
  ASSUME AuthorityInv, AA26EndInitiator
  PROVE  AuthorityInv' /\ Quiet(r, r')
<1> DEFINE y == [r EXCEPT !.held = 0]
<1>0. HostOK /\ Good(r) /\ setup \in Setups /\ r \in Responders
  BY Zenon DEF AuthorityInv, HostOK, Good
<1>1. r' = y /\ Calls /\ UNCHANGED acks
  BY Zenon DEF AA26EndInitiator
<1>2. y \in Responders
  BY <1>0, Zeros, ZenonT(60) DEF Responders
<1>3. SameCore(r, y) /\ y.frame = r.frame /\ y.ack = r.ack /\ y.held = 0
  BY <1>0 DEF Responders, SameCore, SameSend, SameText, SameRing
<1> HIDE DEF y
<1>4. Good(y) /\ Hushed(r, y)
  BY <1>0, <1>2, <1>3, CoreGood
<1>5. Fine(r, r')
  BY <1>1, <1>4, HushedFine, Zenon
<1> QED
  BY <1>1, <1>5, QuietCall, Zenon

\* The observer drains the ring.
LEMMA DrainStep ==
  ASSUME AuthorityInv, AA26DrainObserver
  PROVE  AuthorityInv' /\ Quiet(r, r')
<1> DEFINE n == IF Len(r.ring) < setup.buffer THEN Len(r.ring) ELSE setup.buffer
           g == SubSeq(r.ring, n + 1, Len(r.ring))
           y == [r EXCEPT !.ring = g]
<1>0. HostOK /\ Good(r) /\ setup \in Setups /\ r \in Responders /\ RingOK(r)
  BY Zenon DEF AuthorityInv, HostOK, Good
<1>1. r' = y /\ UNCHANGED <<setup, hostVars, acks, expired, lapsed>>
  BY DEF AA26DrainObserver
<1>2. r.ring \in Seq(Events) /\ Len(r.ring) \in Nat
  BY <1>0 DEF Responders, EventSeqs
<1>3. setup.buffer \in Nat /\ setup.ring \in Nat
  <2>1. SetupOK(setup)
    BY <1>0, SetupsAssumption, Zenon
  <2> QED
    BY <1>0, <2>1, SetupFacts DEF SetupOK
<1>4. n \in Nat /\ n <= Len(r.ring)
  BY <1>2, <1>3
<1> HIDE DEF n
<1>5. g \in EventSeqs /\ Len(g) <= Len(r.ring) /\ Len(g) \in Nat
  <2>1. g \in Seq(Events) /\ Len(g) = IF n + 1 <= Len(r.ring) THEN Len(r.ring) - (n + 1) + 1 ELSE 0
    BY <1>2, <1>4, SubSeqProperties
  <2> HIDE DEF g
  <2> QED
    BY <2>1, <1>2, <1>4 DEF EventSeqs
<1> HIDE DEF g
<1>6. y \in Responders
  BY <1>0, <1>5, ZenonT(60) DEF Responders
<1>7. Same(r, y) /\ SameText(r, y) /\ y.frame = r.frame /\ y.escape = r.escape /\ y.read = r.read /\ y.ring = g
  BY <1>0 DEF Responders, Same, SameView, SameHold, SameSend, SameText
<1> HIDE DEF y
<1>8. RingOK(y)
  BY <1>0, <1>2, <1>3, <1>5, <1>7 DEF RingOK
<1>9. Good(y) /\ Hushed(r, y)
  BY <1>0, <1>6, <1>7, <1>8, ToldGood, Zenon DEF Told
<1>10. Fine(r, r') /\ Acknowledged(r')
  BY <1>1, <1>9, HushedFine, Zenon DEF Acknowledged
<1>11. UNCHANGED <<setup, hostVars, expired, lapsed>>
  BY <1>1
<1> QED
  BY <1>10, <1>11, CallStep

\* The next command of the initiator.
LEMMA CommandStep ==
  ASSUME AuthorityInv, NextCommand
  PROVE  AuthorityInv' /\ Quiet(r, r')
<1> DEFINE s == Serviced(r)
           k == r.tokens + 1
<1>0. HostOK /\ Good(r) /\ setup \in Setups /\ r \in Responders
  BY Zenon DEF AuthorityInv, HostOK, Good
<1>1. r.tokens < setup.commands /\ Calls /\ UNCHANGED acks
  BY Zenon DEF NextCommand
<1>2. PICK p \in Plans : r' = [s EXCEPT !.tokens = s.tokens + 1, !.command = k, !.commandPlan = p]
  BY Zenon DEF NextCommand
<1>3. Served(r, s) /\ Good(s) /\ Hushed(r, s)
  BY <1>0, ServicedGood, Zenon
<1>4. k \in CommandIds /\ k \in Counts
  <2>1. r.tokens \in Nat /\ setup.commands \in Nat
    BY <1>0, SetupFacts DEF Responders, Counts
  <2> QED
    BY <1>1, <2>1 DEF CommandIds, Counts
<1>5. s.tokens + 1 = k /\ p \in PlanIds
  <2>1. s.tokens = r.tokens
    <3> HIDE DEF s
    <3> QED
      BY <1>3, Zenon DEF Served
  <2> HIDE DEF s
  <2> QED
    BY <2>1 DEF PlanIds
<1> DEFINE y == [s EXCEPT !.tokens = k, !.command = k, !.commandPlan = p]
<1> HIDE DEF s, k
<1>6. r' = y
  BY <1>2, <1>5, Zenon
<1>7. s \in Responders /\ HoldOK(s)
  BY <1>3, Zenon DEF Good
<1>8. y \in Responders
  BY <1>4, <1>5, <1>7, ZenonT(60) DEF Responders
<1>9. SameCore(s, y) /\ y.frame = s.frame /\ y.ack = s.ack /\ y.held = s.held
  BY <1>7 DEF Responders, SameCore, SameSend, SameText, SameRing
<1> HIDE DEF y
<1>10. y.active => y.held = 0
  BY <1>7, <1>9, Zenon DEF HoldOK, SameCore
<1>11. Good(y) /\ Hushed(s, y)
  BY <1>3, <1>8, <1>9, <1>10, CoreGood
<1>12. Hushed(r, y)
  BY <1>3, <1>11, HushedThen
<1>13. Fine(r, r')
  BY <1>6, <1>11, <1>12, HushedFine, Zenon
<1> QED
  BY <1>1, <1>13, QuietCall, Zenon

\* A control plane fails closed.
LEMMA FaultStep ==
  ASSUME AuthorityInv, ViewClockFault \/ IPCFault
  PROVE  AuthorityInv' /\ Quiet(r, r')
<1> DEFINE c == [r EXCEPT !.clockClosed = TRUE]
           f == [r EXCEPT !.fenced = TRUE]
<1>0. HostOK /\ Good(r) /\ setup \in Setups /\ r \in Responders /\ HoldOK(r)
  BY Zenon DEF AuthorityInv, HostOK, Good
<1>1. (r' = c \/ r' = f) /\ Calls /\ UNCHANGED acks
  BY Zenon DEF ViewClockFault, IPCFault
<1>2. c \in Responders /\ f \in Responders
  <2>1. c \in Responders
    BY <1>0, Zeros, ZenonT(60) DEF Responders
  <2>2. f \in Responders
    BY <1>0, Zeros, ZenonT(60) DEF Responders
  <2> QED
    BY <2>1, <2>2
<1>3. SameCore(r, c) /\ c.frame = r.frame /\ c.ack = r.ack /\ c.held = r.held
  BY <1>0 DEF Responders, SameCore, SameSend, SameText, SameRing
<1>4. SameCore(r, f) /\ f.frame = r.frame /\ f.ack = r.ack /\ f.held = r.held
  BY <1>0 DEF Responders, SameCore, SameSend, SameText, SameRing
<1> HIDE DEF c, f
<1>5. (c.active => c.held = 0) /\ (f.active => f.held = 0)
  BY <1>0, <1>3, <1>4, Zenon DEF HoldOK, SameCore
<1>6. Good(c) /\ Hushed(r, c)
  BY <1>0, <1>2, <1>3, <1>5, CoreGood
<1>7. Good(f) /\ Hushed(r, f)
  BY <1>0, <1>2, <1>4, <1>5, CoreGood
<1>8. Fine(r, r')
  BY <1>1, <1>6, <1>7, HushedFine, Zenon
<1> QED
  BY <1>1, <1>8, QuietCall, Zenon

-----------------------------------------------------------------------------
(* The theorems.                                                           *)

\* At the start nothing is held.
LEMMA InitAuthority ==
  ASSUME Init
  PROVE  AuthorityInv
<1> DEFINE zeros == [a \in Targets |-> 0]
<1>0. setup \in Setups
  BY Zenon DEF Init
<1>s. setup.streams \in Nat /\ setup.streams > 0 /\ setup.ring \in Nat /\ setup.maxRequestData \in Nat /\ setup.commands \in Nat
  BY <1>0, SetupFacts, Zenon
<1>1. HostOK
  <2>1. pool \in [Plans -> Storage] /\ \A p \in Plans : pool[p] # "Published"
    BY DEF Init, Storage
  <2>2. planStream \in [Plans -> 0 .. setup.streams] /\ hostStream \in 1 .. setup.streams
    BY <1>s DEF Init
  <2>3. lane \in [1 .. setup.streams -> Seq(Records)]
    BY DEF Init
  <2>4. notices = {} /\ acks = {} /\ expired = {} /\ lapsed = {}
    BY Zenon DEF Init
  <2> QED
    BY <1>0, <2>1, <2>2, <2>3, <2>4, Zenon DEF HostOK
<1>2. r = NewResponder
  BY Zenon DEF Init
<1>3. zeros \in Tables /\ \A a \in Targets : zeros[a] = 0
  BY DEF Tables
<1>4. r \in Responders
  <2>1. "Unsynced" \in Frames /\ {} \in PlanSets
    BY DEF Frames, PlanSets
  <2> QED
    BY <1>0, <1>2, <1>3, <2>1, Zeros, ZenonT(60) DEF Responders, NewResponder, zeros
<1>5. /\ r.bindings = zeros /\ r.current = zeros /\ r.superseded = {} /\ r.revoked = {}
      /\ r.active = FALSE /\ r.pin = 0 /\ r.plan = 0 /\ r.ack = 0 /\ r.frame = "Unsynced" /\ r.prepared = FALSE
      /\ r.awaitEcho = FALSE /\ r.offset = 0 /\ r.reply = <<>> /\ r.data = <<>> /\ r.ring = <<>>
      /\ r.stream = 1 /\ r.read = 0
  BY <1>2 DEF NewResponder
<1> HIDE DEF zeros
<1>6. ViewOK(r)
  BY <1>3, <1>5, Zenon DEF ViewOK
<1>7. HoldOK(r)
  <2>1. acks = {}
    BY Zenon DEF Init
  <2>2. (acks \cup {r.ack}) \ {0} = {}
    BY <2>1, <1>5
  <2> QED
    BY <1>5, <2>2, Zenon DEF HoldOK
<1>8. SendOK(r)
  <2>1. "Unsynced" \notin Asked \cup Spoken /\ Len(r.reply) = 0
    BY <1>5 DEF Asked, Spoken
  <2>2. r.offset <= Len(r.reply)
    BY <1>5, <2>1
  <2> QED
    BY <1>5, <2>1, <2>2, Zenon DEF SendOK
<1>9. TextOK(r)
  <2>1. "Unsynced" # "Data"
    OBVIOUS
  <2> QED
    BY <1>0, <1>5, <2>1, NoText, Zenon
<1>10. RingOK(r)
  <2>1. Len(r.ring) = 0
    BY <1>5
  <2> QED
    BY <1>s, <2>1 DEF RingOK
<1>11. ReadOK(r)
  <2>1. hostStream = 1 /\ Len(lane[1]) = 0
    BY <1>s DEF Init
  <2> QED
    BY <1>5, <2>1 DEF ReadOK
<1> QED
  BY <1>1, <1>4, <1>6, <1>7, <1>8, <1>9, <1>10, <1>11, Zenon DEF AuthorityInv, Good

\* One step, whoever takes it.
LEMMA StepAuthority ==
  ASSUME AuthorityInv, [Next]_vars
  PROVE  AuthorityInv' /\ Quiet(r, r')
<1>1. CASE UNCHANGED vars
  <2>1. UNCHANGED <<setup, hostVars, acks, r>> /\ expired' = expired /\ lapsed' = lapsed
    BY <1>1 DEF vars
  <2>2. expired' \subseteq Plans /\ lapsed' \subseteq 1 .. setup.commands
    BY <2>1, Zenon DEF AuthorityInv, HostOK
  <2> QED
    BY <2>1, <2>2, TimeStep
<1>2. CASE Publish
  BY <1>2, PublishStep, Zenon DEF Publish
<1>3. CASE Retire
  BY <1>3, RetireStep, Zenon DEF Retire
<1>4. CASE Sends
  BY <1>4, SendsStep, Zenon DEF Sends
<1>5. CASE HostStops
  BY <1>5, StopsStep, Zenon
<1>6. CASE HostRebinds
  BY <1>6, RebindStep, Zenon
<1>7. CASE Reclaim
  BY <1>7, ReclaimStep, Zenon DEF Reclaim
<1>8. CASE Expires
  BY <1>8, ExpiresStep, Zenon DEF Expires
<1>9. CASE Lapses
  BY <1>9, LapsesStep, Zenon DEF Lapses
<1>10. CASE ObserveRaw
  BY <1>10, RawStep, Zenon
<1>11. CASE ObserveGap
  BY <1>11, GapStep, Zenon
<1>12. CASE ObserveFraming
  BY <1>12, FramingStep, Zenon
<1>13. CASE PollInTime \/ PollLate
  BY <1>13, PollStep, Zenon DEF PollInTime, PollLate
<1>14. CASE Adopt
  BY <1>14, AdoptStep, Zenon DEF Adopt
<1>15. CASE Notify
  BY <1>15, NotifyStep, Zenon DEF Notify
<1>16. CASE AA26TakeAcknowledgement
  BY <1>16, TakeStep, Zenon
<1>17. CASE AA26AdvanceStream
  BY <1>17, AdvanceStep, Zenon
<1>18. CASE Start
  BY <1>18, StartStep, Zenon DEF Start
<1>19. CASE AA26EndInitiator
  BY <1>19, EndStep, Zenon
<1>20. CASE AA26DrainObserver
  BY <1>20, DrainStep, Zenon
<1>21. CASE NextCommand
  BY <1>21, CommandStep, Zenon
<1>22. CASE ViewClockFault \/ IPCFault
  BY <1>22, FaultStep, Zenon
<1> QED
  BY <1>1, <1>2, <1>3, <1>4, <1>5, <1>6, <1>7, <1>8, <1>9, <1>10, <1>11, <1>12, <1>13, <1>14, <1>15, <1>16,
     <1>17, <1>18, <1>19, <1>20, <1>21, <1>22, Zenon DEF Next

\* What was there before the step is enough for what was sent in it.
LEMMA QuietSilent ==
  ASSUME AuthorityInv, AuthorityInv', Quiet(r, r')
  PROVE  Len(r'.emitted) > Len(r.emitted) => Armed(r')
<1>1. r.emitted \in Bytes
  <2>1. r \in Responders
    BY Zenon DEF AuthorityInv, Good
  <2> QED
    BY <2>1 DEF Responders
<1>2. Len(r.emitted) \in Nat
  BY <1>1 DEF Bytes
<1>3. CASE Hushed(r, r')
  <2>1. Len(r'.emitted) = Len(r.emitted) \/ Len(r'.emitted) = 0
    BY <1>3 DEF Hushed
  <2> QED
    BY <1>2, <2>1
<1> QED
  BY <1>3, Zenon DEF Quiet

\* The invariant gives what the run checks.
LEMMA AuthorityHolds ==
  ASSUME AuthorityInv
  PROVE  HoldsInv
<1>0. HostOK /\ Good(r) /\ setup \in Setups /\ r \in Responders /\ ViewOK(r) /\ HoldOK(r) /\ SendOK(r) /\ TextOK(r) /\ RingOK(r) /\ ReadOK(r)
  BY Zenon DEF AuthorityInv, HostOK, Good
<1>1. WireExclusion
  BY <1>0, Zenon DEF WireExclusion, HoldOK
<1>2. AcknowledgedIsOver
  BY <1>0, Zenon DEF AcknowledgedIsOver, ViewOK, HoldOK
<1>3. TypeOK
  <2>1. /\ r.frame \in Frames /\ r.escape \in Flags /\ r.active \in Flags /\ r.prepared \in Flags /\ r.awaitEcho \in Flags /\ r.disarmed \in Flags
        /\ r.crc \in Byte /\ r.source \in Byte /\ r.pb \in Byte /\ r.sb \in Byte /\ r.nn \in Byte /\ r.echo \in Byte
    BY <1>0 DEF Responders
  <2>2. /\ r.plan \in PlanIds /\ r.pin \in PlanIds /\ r.ack \in PlanIds /\ r.commandPlan \in PlanIds
        /\ r.superseded \in PlanSets /\ r.revoked \in PlanSets
        /\ r.bindings \in Tables /\ r.current \in Tables /\ r.planTop \in Tables /\ r.ring \in EventSeqs
        /\ r.held \in CommandIds /\ r.command \in CommandIds
    BY <1>0 DEF Responders
  <2>3. {r.escape, r.active, r.prepared, r.awaitEcho, r.disarmed} \subseteq BOOLEAN
    BY <2>1, Zenon DEF Flags
  <2>4. {r.crc, r.source, r.pb, r.sb, r.nn, r.echo} \subseteq Byte
    BY <2>1, Zenon
  <2>5. {r.plan, r.pin, r.ack, r.commandPlan} \subseteq Plans \cup {0} /\ r.superseded \cup r.revoked \subseteq Plans
    BY <2>2, Zenon DEF PlanIds, PlanSets
  <2>6. \A a \in Targets : {r.bindings[a], r.current[a], r.planTop[a]} \subseteq Plans \cup {0}
    BY <2>2 DEF Tables
  <2>7. Range(r.ring) \subseteq Events
    BY <2>2 DEF EventSeqs, Range
  <2>8. {r.held, r.command} \subseteq 0 .. setup.commands
    BY <2>2, Zenon DEF CommandIds
  <2>9. Len(r.data) <= setup.maxRequestData /\ r.offset <= Len(r.reply) /\ Len(r.ring) <= setup.ring
        /\ r.stream \in 1 .. hostStream /\ r.read <= Len(lane[r.stream])
    BY <1>0, Zenon DEF TextOK, SendOK, RingOK, ReadOK
  <2> QED
    BY <1>0, <2>1, <2>3, <2>4, <2>5, <2>6, <2>7, <2>8, <2>9, Zenon DEF TypeOK, HostOK, Storage
<1> QED
  BY <1>1, <1>2, <1>3, Zenon DEF HoldsInv

\* Through supersession, late notices, initiators and new streams, aa26_responder.go
\* holds the wire alone: a transaction and an initiator's hold exclude each other, and
\* the plan it answers from is bound, current and pinned, or let go before it is
\* acknowledged to the host.  For any plans, addresses and number of streams.
THEOREM ResponderHolds == Spec => []HoldsInv
<1>1. Init => AuthorityInv
  BY InitAuthority
<1>2. AuthorityInv /\ [Next]_vars => AuthorityInv'
  BY StepAuthority, Zenon
<1>3. AuthorityInv => HoldsInv
  BY AuthorityHolds
<1> QED
  BY <1>1, <1>2, <1>3, PTL DEF Spec

\* aa26Emit is reached only through aa26Authority: no symbol goes out against a stop, a
\* revocation, a gap, a closed clock or a deadline, whether the worker has read of it
\* or not.  For any plans, requests and answers.
THEOREM ResponderIsSilent == Spec => SilentWithoutAuthority
<1>1. Init => AuthorityInv
  BY InitAuthority
<1>2. AuthorityInv /\ [Next]_vars => AuthorityInv' /\ Quiet(r, r')
  BY StepAuthority, Zenon
<1>3. AuthorityInv /\ [Next]_vars => (Len(r'.emitted) > Len(r.emitted) => Armed(r'))
  BY <1>2, QuietSilent, Zenon
<1>4. AuthorityInv /\ [Next]_vars =>
        [Len(r'.emitted) > Len(r.emitted) =>
           LET p == r'.pin
               s == r'.stream
           IN  /\ Sent(s, "publish", p) /\ ~Sent(s, "revoke", p) /\ ~Sent(s, "stop", 0) /\ ~r'.fenced
               /\ pool[p] \in Readable /\ planStream[p] = s /\ p \notin expired /\ p \notin r'.revoked
               /\ ~r'.disarmed /\ ~r'.clockClosed /\ r'.held = 0]_vars
  BY <1>3, Zenon DEF Armed
<1>5. AuthorityInv /\ [Next]_vars => AuthorityInv'
  BY <1>2, Zenon
<1> QED
  BY <1>1, <1>4, <1>5, PTL DEF Spec, SilentWithoutAuthority

=============================================================================
