------------------------------ MODULE EnhStream ------------------------------
(***************************************************************************)
(* The byte and event stream of transport/enh_transport.go: the messages   *)
(* the adapter sends are parsed, unescaped, filtered by the arbitration    *)
(* windows and queued in pendingEvents, while RequestStart opens such a    *)
(* window from another goroutine.                                          *)
(*                                                                         *)
(* One goroutine at a time holds readMu and runs one of the operations op. *)
(* The messages of one conn.Read are chosen one after the other instead of *)
(* as a sequence: the adapter is not constrained.  Every atomic field is   *)
(* stored in a step of its own where the other goroutine can see it.       *)
(* Deadlines expire at any time after they are armed.  Connections, locks  *)
(* and Close are EnhConnection's subject; what an operation returns, and   *)
(* the counters, are left out.                                             *)
(***************************************************************************)
EXTENDS Integers, Sequences

CONSTANTS
  Setups,                         \* what the callers and the adapter do, one of them per behaviour
  MaxAaAbsorptionsPerEscapePair,
  MaxResets                       \* bound on adapter resets not yet returned

AllOperations == {"ReadByte", "ReadEvent", "ReadEventWithRawSymbol", "StartArbitration",
                  "RequestInfo", "Reconnect", "Init"}

ASSUME SetupsAssumption ==
  \A s \in Setups :
    /\ s.dialFunc \in BOOLEAN             \* a dial function is configured
    /\ s.symbols \subseteq 0 .. 255       \* the wire symbols the adapter reports
    /\ s.operations \subseteq AllOperations
    /\ s.maxPendingEvents \in Nat \ {0}
    /\ s.dialFails \in BOOLEAN            \* dialFunc may fail
    /\ s.writeFails \in BOOLEAN           \* the write of RequestStart's START may fail
ASSUME CapsAssumption == MaxAaAbsorptionsPerEscapePair \in Nat /\ MaxResets \in Nat

SymbolEscape  == 169
ebusSymbolSyn == 170

VARIABLES
  setup,         \* the configuration, constant
  pc, op,        \* where the goroutine that holds readMu is
  progress,      \* StartArbitration, RequestInfo: how far the answer is
  mismatchCount, \* StartArbitration: STARTED frames of other initiators
  got,           \* this conn.Read has produced a message
  connDown,      \* the connection has failed or was closed: no read succeeds on it
  parser,        \* the parser holds a byte1
  pendingEvents, rawSymbolItems, deferredErr, resets,
  escDecoder,
  awaitingStart, arbitrationDeadline, postGrantPreEcho, escapeResetPending,
  wpc,           \* where RequestStart is
  half,          \* the adapter has sent the byte1 of a frame but not its byte2
  lead,          \* where the pending 0xA9 comes from, or that a symbol to deliver was paired
                 \* with one it does not belong to
  outstanding,   \* the START of RequestStart is neither answered nor aborted
  staleTimeout   \* the read that timed out did so before RequestStart opened its window

streamVars == <<connDown, parser, half>>
queueVars  == <<pendingEvents, rawSymbolItems, deferredErr, resets>>
decVars    == <<escDecoder, lead>>
windowVars == <<awaitingStart, arbitrationDeadline, postGrantPreEcho, escapeResetPending>>
localVars  == <<progress, mismatchCount, got>>
ghostVars  == <<outstanding, staleTimeout>>
vars == <<setup, pc, op, streamVars, queueVars, decVars, windowVars, localVars, wpc, ghostVars>>

Idle == [escape |-> FALSE, absorbed |-> 0]

Init ==
  /\ setup \in Setups
  /\ pc = "idle" /\ op = "none"
  /\ progress = "waiting" /\ mismatchCount = 0 /\ got = FALSE
  /\ connDown = FALSE /\ parser = FALSE /\ half = FALSE
  /\ pendingEvents = <<>> /\ rawSymbolItems = FALSE /\ deferredErr = FALSE /\ resets = 0
  /\ escDecoder = Idle /\ lead = "none"
  /\ awaitingStart = FALSE /\ arbitrationDeadline = "none"
  /\ postGrantPreEcho = "closed" /\ escapeResetPending = FALSE
  /\ wpc = "idle"
  /\ outstanding = FALSE /\ staleTimeout = FALSE

-----------------------------------------------------------------------------
(* EbusEscapeDecoder                                                       *)

Decoded(d, ok, b, escaped) == [d |-> d, ok |-> ok, byte |-> b, wasEscaped |-> escaped]
Nothing(d) == Decoded(d, FALSE, 0, FALSE)

feedNormal(raw) ==
  IF raw = SymbolEscape THEN Nothing([escape |-> TRUE, absorbed |-> 0])
                        ELSE Decoded(Idle, TRUE, raw, FALSE)

\* late: more than EscapePendingTimeout has passed since the lead.  The two
\* faults, a bad suffix and an exhausted budget, drop everything.
feedPending(d, raw, late) ==
  CASE late -> feedNormal(raw)
    [] ~late /\ raw \in {0, 1} -> Decoded(Idle, TRUE, SymbolEscape + raw, TRUE)
    [] ~late /\ raw = ebusSymbolSyn /\ d.absorbed < MaxAaAbsorptionsPerEscapePair ->
         Nothing([d EXCEPT !.absorbed = @ + 1])
    [] OTHER -> Nothing(Idle)

Feed(d, raw, late) == IF d.escape THEN feedPending(d, raw, late) ELSE feedNormal(raw)

\* feedEscapeDecoderLocked from state d; a discarded symbol is fed all the same.
FeedDecoder(d, raw, late, discard) ==
  /\ escDecoder' = Feed(d, raw, late).d
  /\ lead' = IF ~discard /\ d.escape /\ ~late /\ lead # "live" THEN "mispaired"
             ELSE IF ~escDecoder'.escape THEN "none"
             ELSE IF escDecoder'.absorbed > 0 THEN lead
             ELSE IF discard THEN "discarded" ELSE "live"

ResetDecoder == escDecoder' = Idle /\ lead' = "none"

\* The decoder is left alone across a boundary of the wire stream.
KeepDecoder ==
  /\ lead' = IF escDecoder.escape THEN "stale" ELSE "none"
  /\ UNCHANGED escDecoder

-----------------------------------------------------------------------------
(* pendingEvents                                                           *)

Byte(b, escaped) == [kind |-> "byte", byte |-> b, flag |-> escaped]
WireSyn == [kind |-> "wireSyn", byte |-> ebusSymbolSyn, flag |-> FALSE]
RawSymbol(symbol, completesNext) == [kind |-> "raw", byte |-> symbol, flag |-> completesNext]
Control(kind) == [kind |-> kind, byte |-> 0, flag |-> FALSE]

pendingCap == IF rawSymbolItems THEN 2 * setup.maxPendingEvents ELSE setup.maxPendingEvents

\* Mutant: the bound is checked one item late.
RoomLate(q, n) == Len(q) + n <= pendingCap + 1

Room(q, n) == Len(q) + n <= pendingCap

\* queueObservedSymbolLocked, with and without a logical item.
QueueLogical(symbol, logical) ==
  pendingEvents' =
    IF ~rawSymbolItems
    THEN IF Room(pendingEvents, 1) THEN Append(pendingEvents, logical) ELSE pendingEvents
    ELSE IF Room(pendingEvents, 2)
         THEN pendingEvents \o <<RawSymbol(symbol, TRUE), logical>>
         ELSE pendingEvents

QueueLead(symbol) ==
  pendingEvents' = IF rawSymbolItems /\ Room(pendingEvents, 3)
                   THEN Append(pendingEvents, RawSymbol(symbol, FALSE))
                   ELSE pendingEvents

\* Mutant: the scan for a victim does not know of raw items.
EvictableLogical(e) == e.kind \in {"byte", "wireSyn"}

Evictable(e) == e.kind \in {"byte", "wireSyn", "raw"}

\* The queue without its oldest evictable item, or without its oldest item.
Evicted(q) ==
  IF \E i \in 1 .. Len(q) : Evictable(q[i])
  THEN LET i == CHOOSE i \in 1 .. Len(q) : Evictable(q[i]) /\ \A j \in 1 .. i - 1 : ~Evictable(q[j])
           n == IF q[i].kind = "raw" /\ q[i].flag THEN 2 ELSE 1
       IN  SubSeq(q, 1, i - 1) \o SubSeq(q, i + n, Len(q))
  ELSE Tail(q)

\* appendControlEventLocked
QueueControl(kind) ==
  pendingEvents' =
    Append(IF Room(pendingEvents, 1) THEN pendingEvents ELSE Evicted(pendingEvents), Control(kind))

-----------------------------------------------------------------------------
(* Resets of the state                                                     *)

Goto(next) == pc' = next /\ UNCHANGED op
Return == pc' = "idle" /\ op' = "none"

\* The locals of an operation end with it.
Forget == progress' = "waiting" /\ mismatchCount' = 0 /\ got' = FALSE

CloseWindows ==
  /\ awaitingStart' = FALSE /\ arbitrationDeadline' = "none" /\ postGrantPreEcho' = "closed"

\* resetStateLocked
ResetState ==
  /\ parser' = FALSE
  /\ pendingEvents' = <<>> /\ deferredErr' = FALSE
  /\ CloseWindows /\ escapeResetPending' = FALSE
  /\ ResetDecoder
  /\ outstanding' = FALSE /\ UNCHANGED staleTimeout

-----------------------------------------------------------------------------
(* ReadByte, ReadEvent, ReadEventWithRawSymbol: the loop around the queue  *)

Reading == op \in {"ReadByte", "ReadEvent", "ReadEventWithRawSymbol"}

BeginRead(o) ==
  /\ pc = "idle" /\ o \in setup.operations \cap {"ReadByte", "ReadEvent", "ReadEventWithRawSymbol"}
  /\ op' = o /\ pc' = "serve"
  /\ rawSymbolItems' = (rawSymbolItems \/ o = "ReadEventWithRawSymbol")
  /\ UNCHANGED <<setup, streamVars, pendingEvents, deferredErr, resets, decVars, windowVars,
                 localVars, wpc, ghostVars>>

ServeReset ==
  /\ pc = "serve" /\ resets > 0
  /\ resets' = resets - 1
  /\ Return
  /\ UNCHANGED <<setup, streamVars, pendingEvents, rawSymbolItems, deferredErr, decVars,
                 windowVars, localVars, wpc, ghostVars>>

\* How many items the reader takes off the queue at once.
Taken == IF op = "ReadEventWithRawSymbol" /\ Head(pendingEvents).kind = "raw" /\ Head(pendingEvents).flag
         THEN 2 ELSE 1

\* The reader returns the item it has taken, or skips it and looks again.
Returned(e) ==
  CASE op = "ReadByte" -> e.kind = "byte"
    [] op = "ReadEvent" -> e.kind # "raw"
    [] OTHER -> TRUE

ServeEvent ==
  /\ pc = "serve" /\ resets = 0 /\ pendingEvents # <<>>
  /\ pendingEvents' = SubSeq(pendingEvents, Taken + 1, Len(pendingEvents))
  /\ IF Returned(Head(pendingEvents)) THEN Return ELSE Goto("serve")
  /\ UNCHANGED <<setup, streamVars, rawSymbolItems, deferredErr, resets, decVars, windowVars,
                 localVars, wpc, ghostVars>>

\* Nothing is queued: the deferred error, or another fillPendingLocked.
ServeEmpty ==
  /\ pc = "serve" /\ resets = 0 /\ pendingEvents = <<>>
  /\ deferredErr' = FALSE
  /\ IF deferredErr THEN Return ELSE Goto("read")
  /\ UNCHANGED <<setup, streamVars, pendingEvents, rawSymbolItems, resets, decVars, windowVars,
                 localVars, wpc, ghostVars>>

-----------------------------------------------------------------------------
(* The other operations begin                                              *)

\* RequestStart and StartArbitration, RequestInfo, Reconnect need writeMu.
WriteMuFree == wpc = "idle"

\* Also a failed write of START: StartArbitration returns at once.
BeginArbitration ==
  /\ pc = "idle" /\ "StartArbitration" \in setup.operations /\ WriteMuFree
  /\ op' = "StartArbitration" /\ pc' = "read"
  /\ progress' = "waiting" /\ mismatchCount' = 0
  /\ UNCHANGED <<setup, streamVars, queueVars, decVars, windowVars, got, wpc, ghostVars>>

\* The request is written, or the write fails.
BeginInfo ==
  /\ pc = "idle" /\ "RequestInfo" \in setup.operations /\ WriteMuFree
  /\ op' = "RequestInfo" /\ pc' \in {"read", "infoFail"}
  /\ progress' = "waiting"
  /\ UNCHANGED <<setup, streamVars, queueVars, decVars, windowVars, mismatchCount, got, wpc, ghostVars>>

\* Init on the connection in place, whose INIT may also fail to be written.
BeginInit ==
  /\ pc = "idle" /\ "Init" \in setup.operations /\ WriteMuFree
  /\ op' = "Init" /\ pc' = "initRead"
  /\ UNCHANGED <<setup, streamVars, queueVars, decVars, windowVars, localVars, wpc, ghostVars>>

BeginReconnect ==
  /\ pc = "idle" /\ "Reconnect" \in setup.operations /\ setup.dialFunc
  /\ op' = "Reconnect" /\ pc' = "reconnect"
  /\ UNCHANGED <<setup, streamVars, queueVars, decVars, windowVars, localVars, wpc, ghostVars>>

-----------------------------------------------------------------------------
(* conn.Read                                                               *)

\* A read that ends in a timeout; the goroutine has yet to act on it.
ReadTimeout ==
  /\ pc \in {"read", "initRead"} /\ ~connDown
  /\ Goto(IF pc = "read" THEN "timedOut" ELSE "initTimedOut")
  /\ staleTimeout' = ~awaitingStart
  /\ UNCHANGED <<setup, streamVars, queueVars, decVars, windowVars, localVars, wpc,
                 outstanding>>

\* Data, parsed up to the byte1 of a frame that is not complete yet.  A byte2
\* whose byte1 the parser no longer holds is an orphan.
ReadData ==
  /\ pc \in {"read", "initRead"} /\ ~connDown
  /\ \/ /\ half => parser
        /\ Goto(IF pc = "read" THEN "msgs" ELSE "initMsgs")
        /\ half' \in BOOLEAN
     \/ /\ half /\ ~parser
        /\ Goto(IF pc = "read" THEN "fault" ELSE "initFault")
        /\ half' = FALSE
  /\ parser' = half'
  /\ got' = FALSE
  /\ UNCHANGED <<setup, connDown, queueVars, decVars, windowVars, progress, mismatchCount, wpc, ghostVars>>

\* The adapter breaks the framing after these messages: Parse stopped there.
Malformed ==
  /\ pc \in {"msgs", "initMsgs"} /\ ~half
  /\ Goto(IF pc = "msgs" THEN "fault" ELSE "initFault")
  /\ UNCHANGED <<setup, streamVars, queueVars, decVars, windowVars, localVars, wpc, ghostVars>>

\* requestInfoFail
RequestInfoFail(err) ==
  /\ parser' = FALSE /\ UNCHANGED half
  /\ connDown' = (connDown \/ err = "closed")
  /\ deferredErr' = FALSE
  /\ CloseWindows /\ UNCHANGED escapeResetPending
  /\ outstanding' = FALSE
  /\ IF err # "timeout" \/ awaitingStart THEN ResetDecoder ELSE UNCHANGED decVars
  /\ pendingEvents' = IF err \in {"closed", "reset"} THEN <<>> ELSE pendingEvents
  /\ UNCHANGED <<rawSymbolItems, resets>>
  /\ Return /\ Forget
  /\ staleTimeout' = FALSE
  /\ UNCHANGED <<setup, wpc>>

\* A read that fails: the connection is gone.
ReadError ==
  /\ pc = "read"
  /\ \/ op = "RequestInfo" /\ RequestInfoFail("closed")
     \/ /\ op # "RequestInfo"
        /\ connDown' = TRUE
        /\ Return /\ Forget
        /\ UNCHANGED <<setup, parser, half, queueVars, decVars, windowVars, wpc, ghostVars>>

\* The abort of the window on a timeout: one that happened while it was open.
Aborted == outstanding' = (outstanding /\ staleTimeout) /\ staleTimeout' = FALSE

\* Mutant: a timeout in the arbitration window leaves the decoder alone.
FillTimeoutKeepsLead ==
  /\ pc = "timedOut" /\ Reading
  /\ parser' = FALSE
  /\ awaitingStart' = FALSE
  /\ Aborted
  /\ Return
  /\ UNCHANGED <<setup, connDown, half, queueVars, decVars, arbitrationDeadline, postGrantPreEcho,
                 escapeResetPending, localVars, wpc>>

\* fillPendingLocked after a timeout.
FillTimeout ==
  /\ pc = "timedOut" /\ Reading
  /\ parser' = FALSE
  /\ IF awaitingStart THEN ResetDecoder ELSE UNCHANGED decVars
  /\ awaitingStart' = FALSE
  /\ Aborted
  /\ Return
  /\ UNCHANGED <<setup, connDown, half, queueVars, arbitrationDeadline, postGrantPreEcho,
                 escapeResetPending, localVars, wpc>>

\* StartArbitration after a timeout.
ArbitrationTimeout ==
  /\ pc = "timedOut" /\ op = "StartArbitration"
  /\ parser' = FALSE /\ deferredErr' = FALSE
  /\ ResetDecoder
  /\ awaitingStart' = FALSE
  /\ Aborted
  /\ Return /\ Forget
  /\ UNCHANGED <<setup, connDown, half, pendingEvents, rawSymbolItems, resets, arbitrationDeadline,
                 postGrantPreEcho, escapeResetPending, wpc>>

InfoTimeout == pc = "timedOut" /\ op = "RequestInfo" /\ RequestInfoFail("timeout")

-----------------------------------------------------------------------------
(* Messages that fillPendingLocked and RequestInfo treat alike             *)

Passive == Reading \/ op = "RequestInfo"

\* RECEIVED inside the arbitration window: fed, and dropped unless it is a SYN.
ReceivedInWindow(symbol) ==
  /\ pc = "msgs" /\ Passive
  /\ awaitingStart /\ arbitrationDeadline # "expired"
  /\ \E late \in BOOLEAN :
       LET f == Feed(escDecoder, symbol, late)
       IN  /\ FeedDecoder(escDecoder, symbol, late, TRUE)
           /\ IF f.ok /\ f.byte = ebusSymbolSyn /\ ~f.wasEscaped
              THEN QueueLogical(symbol, WireSyn) ELSE UNCHANGED pendingEvents
  /\ got' = TRUE
  /\ UNCHANGED <<setup, pc, op, streamVars, rawSymbolItems, deferredErr, resets, windowVars,
                 progress, mismatchCount, wpc, ghostVars>>

\* RECEIVED outside the window, from decoder state d: a lead, a symbol the
\* post-grant window suppresses, or one that is delivered.
Deliver(d, symbol) ==
  \E late \in BOOLEAN :
    LET f == Feed(d, symbol, late)
    IN  /\ FeedDecoder(d, symbol, late, FALSE)
        /\ \/ ~f.ok /\ QueueLead(symbol) /\ UNCHANGED postGrantPreEcho
           \/ /\ f.ok /\ postGrantPreEcho = "open" /\ f.byte = ebusSymbolSyn /\ ~f.wasEscaped
              /\ UNCHANGED <<pendingEvents, postGrantPreEcho>>
           \/ /\ f.ok
              /\ postGrantPreEcho = "open" => ~(f.byte = ebusSymbolSyn /\ ~f.wasEscaped)
              /\ postGrantPreEcho' = "closed"
              /\ QueueLogical(symbol, Byte(f.byte, f.wasEscaped))

\* The decoder state after resetPendingEscapeBeforeEmissionLocked.
EscapeResetApplied == IF escapeResetPending THEN Idle ELSE escDecoder

Received(symbol) ==
  /\ pc = "msgs" /\ Passive
  /\ ~awaitingStart
  /\ Deliver(EscapeResetApplied, symbol)
  /\ escapeResetPending' = FALSE
  /\ got' = TRUE
  /\ UNCHANGED <<setup, pc, op, streamVars, rawSymbolItems, deferredErr, resets, awaitingStart,
                 arbitrationDeadline, progress, mismatchCount, wpc, outstanding, staleTimeout>>

\* The window has expired: it is closed in two steps, then the symbol delivered.
WindowExpired ==
  /\ pc = "msgs" /\ Passive
  /\ awaitingStart /\ arbitrationDeadline = "expired"
  /\ ResetDecoder
  /\ awaitingStart' = FALSE
  /\ outstanding' = FALSE
  /\ Goto("expired")
  /\ UNCHANGED <<setup, streamVars, queueVars, arbitrationDeadline, postGrantPreEcho,
                 escapeResetPending, localVars, wpc, staleTimeout>>

ReceivedExpired(symbol) ==
  /\ pc = "expired"
  /\ arbitrationDeadline' = "none"
  /\ Deliver(Idle, symbol)
  /\ escapeResetPending' = FALSE
  /\ got' = TRUE
  /\ Goto("msgs")
  /\ UNCHANGED <<setup, streamVars, rawSymbolItems, deferredErr, resets, awaitingStart,
                 progress, mismatchCount, wpc, outstanding, staleTimeout>>

\* STARTED of another initiator while ours is awaited: only queued.
StartedOther ==
  /\ pc = "msgs" /\ Passive /\ awaitingStart
  /\ QueueControl("started")
  /\ got' = TRUE
  /\ UNCHANGED <<setup, pc, op, streamVars, rawSymbolItems, deferredErr, resets, decVars,
                 windowVars, progress, mismatchCount, wpc, ghostVars>>

\* Our STARTED (or any outside the window), or FAILED: awaitingStart is cleared ...
Settle ==
  /\ pc = "msgs" /\ Passive
  /\ \E next \in {"started", "failed"} : Goto(next)
  /\ awaitingStart' = FALSE
  /\ outstanding' = FALSE
  /\ UNCHANGED <<setup, streamVars, queueVars, decVars, arbitrationDeadline, postGrantPreEcho,
                 escapeResetPending, localVars, wpc, staleTimeout>>

\* Mutant: the decoder keeps a pre-grant lead across STARTED and FAILED.
SettledKeepsLead ==
  /\ pc \in {"started", "failed"}
  /\ arbitrationDeadline' = "none"
  /\ KeepDecoder
  /\ postGrantPreEcho' = IF pc = "started" THEN "open" ELSE "closed"
  /\ QueueControl(pc)
  /\ got' = TRUE
  /\ Goto("msgs")
  /\ UNCHANGED <<setup, streamVars, rawSymbolItems, deferredErr, resets, awaitingStart,
                 escapeResetPending, progress, mismatchCount, wpc, ghostVars>>

\* ... then the deadline, the decoder and the post-grant window follow.
Settled ==
  /\ pc \in {"started", "failed"}
  /\ arbitrationDeadline' = "none"
  /\ ResetDecoder
  /\ postGrantPreEcho' = IF pc = "started" THEN "open" ELSE "closed"
  /\ QueueControl(pc)
  /\ got' = TRUE
  /\ Goto("msgs")
  /\ UNCHANGED <<setup, streamVars, rawSymbolItems, deferredErr, resets, awaitingStart,
                 escapeResetPending, progress, mismatchCount, wpc, ghostVars>>

-----------------------------------------------------------------------------
(* fillPendingLocked                                                       *)

\* RESETTED with a dial function: reconnectLocked.
FillResettedDial ==
  /\ pc = "msgs" /\ Reading /\ setup.dialFunc /\ resets < MaxResets
  /\ Goto("reconnect") /\ Forget
  /\ UNCHANGED <<setup, streamVars, queueVars, decVars, windowVars, wpc, ghostVars>>

\* RESETTED without: the boundary is queued and the window stays open.
FillResetted ==
  /\ pc = "msgs" /\ Reading /\ ~setup.dialFunc
  /\ postGrantPreEcho' = "closed"
  /\ ResetDecoder
  /\ QueueControl("reset")
  /\ got' = TRUE
  /\ UNCHANGED <<setup, pc, op, streamVars, rawSymbolItems, deferredErr, resets, awaitingStart,
                 arbitrationDeadline, escapeResetPending, progress, mismatchCount, wpc, ghostVars>>

\* INFO and the error responses are ignored.
FillIgnored ==
  /\ pc = "msgs" /\ Reading /\ ~got
  /\ got' = TRUE
  /\ UNCHANGED <<setup, pc, op, streamVars, queueVars, decVars, windowVars, progress,
                 mismatchCount, wpc, ghostVars>>

FillDone ==
  /\ pc = "msgs" /\ Reading
  /\ Goto("serve") /\ Forget
  /\ UNCHANGED <<setup, streamVars, queueVars, decVars, windowVars, wpc, ghostVars>>

\* A parse error: surfaced now in the arbitration window or when nothing was
\* parsed, otherwise after the queue has been drained.
FillFault ==
  /\ pc = "fault" /\ Reading
  /\ parser' = FALSE /\ UNCHANGED half
  /\ ResetDecoder
  /\ awaitingStart' = FALSE
  /\ Forget
  /\ outstanding' = FALSE
  /\ IF ~awaitingStart /\ got
     THEN deferredErr' = TRUE /\ Goto("serve")
     ELSE UNCHANGED deferredErr /\ Return
  /\ UNCHANGED <<setup, connDown, pendingEvents, rawSymbolItems, resets, arbitrationDeadline,
                 postGrantPreEcho, escapeResetPending, wpc, staleTimeout>>

-----------------------------------------------------------------------------
(* reconnectLocked and initRecvResultLocked                                *)

\* The operation goes on after reconnectLocked, which returned nil or an error.
Resume(ok) ==
  \/ Reading /\ ok /\ resets' = resets + 1 /\ Goto("serve") /\ UNCHANGED progress
  \/ Reading /\ ~ok /\ Return /\ UNCHANGED <<resets, progress>>
  \/ op \in {"Reconnect", "Init"} /\ Return /\ UNCHANGED <<resets, progress>>
  \/ op = "StartArbitration" /\ progress' = "failed" /\ Goto("msgs") /\ UNCHANGED resets

\* The dial fails: the old connection and all the state stay in place.
DialFailed ==
  /\ pc = "reconnect" /\ setup.dialFails
  /\ IF op = "Reconnect" THEN UNCHANGED decVars ELSE KeepDecoder
  /\ Resume(FALSE)
  /\ UNCHANGED <<setup, streamVars, pendingEvents, rawSymbolItems, deferredErr, windowVars,
                 mismatchCount, got, wpc, ghostVars>>

\* The connections are swapped, the state is reset and INIT is sent, or not.
Swap ==
  /\ pc = "reconnect" /\ WriteMuFree
  /\ ResetState /\ half' = FALSE
  /\ \/ connDown' = FALSE /\ Goto("initRead") /\ UNCHANGED <<resets, progress>>
     \/ connDown' = TRUE /\ Resume(FALSE)
  /\ UNCHANGED <<setup, rawSymbolItems, mismatchCount, got, wpc>>

\* RECEIVED is queued without regard to any window.
InitReceived(symbol) ==
  /\ pc = "initMsgs"
  /\ \E late \in BOOLEAN :
       LET f == Feed(escDecoder, symbol, late)
       IN  /\ FeedDecoder(escDecoder, symbol, late, FALSE)
           /\ IF f.ok THEN QueueLogical(symbol, Byte(f.byte, f.wasEscaped)) ELSE QueueLead(symbol)
  /\ UNCHANGED <<setup, pc, op, streamVars, rawSymbolItems, deferredErr, resets, windowVars,
                 localVars, wpc, outstanding, staleTimeout>>

InitMore ==
  /\ pc = "initMsgs"
  /\ Goto("initRead")
  /\ UNCHANGED <<setup, streamVars, queueVars, decVars, windowVars, localVars, wpc, ghostVars>>

InitResetted ==
  /\ pc = "initMsgs"
  /\ ResetState /\ UNCHANGED <<connDown, half>>
  /\ Resume(TRUE)
  /\ UNCHANGED <<setup, rawSymbolItems, mismatchCount, got, wpc>>

\* No answer in time is no error.
InitTimeout ==
  /\ pc = "initTimedOut"
  /\ parser' = FALSE /\ deferredErr' = FALSE
  /\ awaitingStart' = FALSE
  /\ Aborted
  /\ Resume(TRUE)
  /\ UNCHANGED <<setup, connDown, half, pendingEvents, rawSymbolItems, decVars, arbitrationDeadline,
                 postGrantPreEcho, escapeResetPending, mismatchCount, got, wpc>>

\* A parse error, an error response or a failed read.
InitFailed ==
  /\ \/ pc = "initFault" /\ parser' = FALSE /\ ResetDecoder /\ UNCHANGED connDown
     \/ pc = "initMsgs" /\ UNCHANGED <<connDown, parser, decVars>>
     \/ pc = "initRead" /\ connDown' = TRUE /\ UNCHANGED <<parser, decVars>>
  /\ Resume(FALSE)
  /\ UNCHANGED <<setup, half, pendingEvents, rawSymbolItems, deferredErr, windowVars,
                 mismatchCount, got, wpc, ghostVars>>

-----------------------------------------------------------------------------
(* StartArbitration                                                        *)

ArbitrationMessage == pc = "msgs" /\ op = "StartArbitration"

ArbitrationReceived(symbol) ==
  /\ ArbitrationMessage
  /\ \E late \in BOOLEAN : FeedDecoder(escDecoder, symbol, late, TRUE)
  /\ UNCHANGED <<setup, pc, op, streamVars, queueVars, windowVars, localVars, wpc, ghostVars>>

ArbitrationResettedDial ==
  /\ ArbitrationMessage /\ setup.dialFunc
  /\ Goto("reconnect")
  /\ UNCHANGED <<setup, streamVars, queueVars, decVars, windowVars, localVars, wpc, ghostVars>>

ArbitrationResetted ==
  /\ ArbitrationMessage /\ ~setup.dialFunc
  /\ ResetState
  /\ progress' = "failed"
  /\ UNCHANGED <<setup, pc, op, connDown, half, rawSymbolItems, resets, mismatchCount, got, wpc>>

\* STARTED, FAILED or an error response.
ArbitrationAnswer ==
  /\ ArbitrationMessage
  /\ \/ /\ progress' = IF progress = "waiting" THEN "granted" ELSE progress
        /\ UNCHANGED mismatchCount
     \/ /\ mismatchCount < 3 /\ mismatchCount' = mismatchCount + 1
        /\ progress' = IF mismatchCount' >= 3 THEN "failed" ELSE progress
     \/ progress' = "failed" /\ UNCHANGED mismatchCount
  /\ UNCHANGED <<setup, pc, op, streamVars, queueVars, decVars, windowVars, got, wpc, ghostVars>>

ArbitrationMore ==
  /\ ArbitrationMessage /\ progress = "waiting"
  /\ Goto("read")
  /\ UNCHANGED <<setup, streamVars, queueVars, decVars, windowVars, localVars, wpc, ghostVars>>

\* arbitrationDone
ArbitrationDone ==
  /\ pc \in {"msgs", "fault"} /\ op = "StartArbitration" /\ progress # "waiting"
  /\ parser' = FALSE
  /\ pendingEvents' = <<>> /\ deferredErr' = FALSE
  /\ awaitingStart' = FALSE
  /\ ResetDecoder
  /\ postGrantPreEcho' = IF progress = "granted" THEN "open" ELSE "closed"
  /\ outstanding' = FALSE
  /\ Return /\ Forget
  /\ UNCHANGED <<setup, connDown, half, rawSymbolItems, resets, arbitrationDeadline, escapeResetPending,
                 wpc, staleTimeout>>

ArbitrationFault ==
  /\ pc = "fault" /\ op = "StartArbitration" /\ progress = "waiting"
  /\ parser' = FALSE /\ deferredErr' = FALSE
  /\ awaitingStart' = FALSE
  /\ ResetDecoder
  /\ outstanding' = FALSE
  /\ Return /\ Forget
  /\ UNCHANGED <<setup, connDown, half, pendingEvents, rawSymbolItems, resets, arbitrationDeadline,
                 postGrantPreEcho, escapeResetPending, wpc, staleTimeout>>

-----------------------------------------------------------------------------
(* RequestInfo                                                             *)

InfoMessage == pc = "msgs" /\ op = "RequestInfo"

\* The length, which may be 0, or a byte of the payload.
InfoPayload ==
  /\ InfoMessage
  /\ progress' \in IF progress \in {"waiting", "payload"} THEN {"payload", "done"} ELSE {progress}
  /\ UNCHANGED <<setup, pc, op, streamVars, queueVars, decVars, windowVars, mismatchCount, got,
                 wpc, ghostVars>>

InfoResetted ==
  /\ InfoMessage /\ resets < MaxResets
  /\ ResetState
  /\ resets' = resets + 1
  /\ progress' = IF progress = "done" THEN progress ELSE "reset"
  /\ UNCHANGED <<setup, pc, op, connDown, half, rawSymbolItems, mismatchCount, got, wpc>>

\* An error response, or a failed write.
InfoError ==
  \/ InfoMessage /\ RequestInfoFail("error")
  \/ pc = "infoFail" /\ \E err \in {"error", "timeout", "closed"} : RequestInfoFail(err)

\* The end of the messages, of the exchange, or a parse error.
InfoDone ==
  /\ pc \in {"msgs", "fault"} /\ op = "RequestInfo"
  /\ \/ progress = "reset" /\ RequestInfoFail("reset")
     \/ /\ progress = "done"
        /\ Return /\ Forget
        /\ UNCHANGED <<setup, streamVars, queueVars, decVars, windowVars, wpc, ghostVars>>
     \/ progress \in {"waiting", "payload"} /\ pc = "fault" /\ RequestInfoFail("parse")
     \/ /\ progress \in {"waiting", "payload"} /\ pc = "msgs"
        /\ Goto("read")
        /\ UNCHANGED <<setup, streamVars, queueVars, decVars, windowVars, localVars, wpc, ghostVars>>

-----------------------------------------------------------------------------
(* RequestStart                                                            *)

readVars == <<setup, pc, op, streamVars, queueVars, decVars, postGrantPreEcho, localVars>>

RequestStart ==
  /\ wpc = "idle" /\ op # "RequestInfo"
  /\ arbitrationDeadline' = "armed"
  /\ wpc' = "armed"
  /\ UNCHANGED <<readVars, awaitingStart, escapeResetPending, ghostVars>>

RequestStartOpen ==
  /\ wpc = "armed"
  /\ awaitingStart' = TRUE
  /\ outstanding' = TRUE
  /\ wpc' = "write"
  /\ UNCHANGED <<readVars, arbitrationDeadline, escapeResetPending, staleTimeout>>

RequestStartWritten ==
  /\ wpc = "write"
  /\ wpc' = "idle"
  /\ UNCHANGED <<readVars, awaitingStart, arbitrationDeadline, escapeResetPending, ghostVars>>

RequestStartFails ==
  /\ wpc = "write" /\ setup.writeFails
  /\ escapeResetPending' = TRUE
  /\ wpc' = "rollback"
  /\ UNCHANGED <<readVars, awaitingStart, arbitrationDeadline, ghostVars>>

RequestStartRollback ==
  /\ wpc = "rollback"
  /\ awaitingStart' = FALSE /\ arbitrationDeadline' = "none"
  /\ outstanding' = FALSE
  /\ wpc' = "idle"
  /\ UNCHANGED <<readVars, escapeResetPending, staleTimeout>>

-----------------------------------------------------------------------------
(* Time                                                                    *)

ArbitrationDeadline ==
  /\ arbitrationDeadline = "armed"
  /\ arbitrationDeadline' = "expired"
  /\ UNCHANGED <<readVars, awaitingStart, escapeResetPending, wpc, ghostVars>>

PreEchoDeadline ==
  /\ postGrantPreEcho = "open"
  /\ postGrantPreEcho' = "expired"
  /\ UNCHANGED <<setup, pc, op, streamVars, queueVars, decVars, awaitingStart,
                 arbitrationDeadline, escapeResetPending, localVars, wpc, ghostVars>>

-----------------------------------------------------------------------------
Begin ==
  \/ \E o \in AllOperations : BeginRead(o)
  \/ BeginArbitration \/ BeginInfo \/ BeginInit \/ BeginReconnect

Next ==
  \/ Begin \/ ServeReset \/ ServeEvent \/ ServeEmpty
  \/ ReadTimeout \/ ReadData \/ ReadError \/ Malformed
  \/ FillTimeout \/ ArbitrationTimeout \/ InfoTimeout
  \/ \E symbol \in setup.symbols :
       \/ ReceivedInWindow(symbol) \/ Received(symbol) \/ ReceivedExpired(symbol)
       \/ InitReceived(symbol) \/ ArbitrationReceived(symbol)
  \/ WindowExpired \/ StartedOther \/ Settle \/ Settled
  \/ FillResettedDial \/ FillResetted \/ FillIgnored \/ FillDone \/ FillFault
  \/ DialFailed \/ Swap \/ InitMore \/ InitResetted \/ InitTimeout \/ InitFailed
  \/ ArbitrationResettedDial \/ ArbitrationResetted \/ ArbitrationAnswer \/ ArbitrationMore
  \/ ArbitrationDone \/ ArbitrationFault
  \/ InfoPayload \/ InfoResetted \/ InfoError \/ InfoDone
  \/ RequestStart \/ RequestStartOpen \/ RequestStartWritten \/ RequestStartFails
  \/ RequestStartRollback
  \/ ArbitrationDeadline \/ PreEchoDeadline

Spec == Init /\ [][Next]_vars

-----------------------------------------------------------------------------
(* Properties                                                              *)

Kinds == {"byte", "wireSyn", "raw", "started", "failed", "reset"}

\* Every field of the transport keeps its type, and pendingEvents its bound.
TypeOK ==
  /\ setup \in Setups
  /\ pc \in {"idle", "serve", "read", "timedOut", "msgs", "fault", "expired", "started", "failed",
             "infoFail", "reconnect", "initRead", "initTimedOut", "initMsgs", "initFault"}
  /\ op \in AllOperations \cup {"none"}
  /\ progress \in {"waiting", "granted", "failed", "payload", "done", "reset"}
  /\ mismatchCount \in 0 .. 3 /\ got \in BOOLEAN
  /\ connDown \in BOOLEAN /\ parser \in BOOLEAN /\ half \in BOOLEAN
  /\ pendingEvents \in Seq([kind : Kinds, byte : 0 .. 255, flag : BOOLEAN])
  /\ Len(pendingEvents) <= pendingCap
  /\ rawSymbolItems \in BOOLEAN /\ deferredErr \in BOOLEAN /\ resets \in Nat
  /\ escDecoder \in [escape : BOOLEAN, absorbed : 0 .. MaxAaAbsorptionsPerEscapePair]
  /\ lead \in {"none", "live", "discarded", "stale", "mispaired"}
  /\ awaitingStart \in BOOLEAN /\ arbitrationDeadline \in {"none", "armed", "expired"}
  /\ postGrantPreEcho \in {"closed", "open", "expired"} /\ escapeResetPending \in BOOLEAN
  /\ wpc \in {"idle", "armed", "write", "rollback"}
  /\ outstanding \in BOOLEAN /\ staleTimeout \in BOOLEAN

\* No symbol that is delivered is decoded with an 0xA9 that was discarded as
\* pre-grant traffic or that precedes a grant, a lost arbitration, an adapter
\* reset, a framing fault or a rolled-back RequestStart.  (Init is called on a
\* fresh transport: called while a START is unanswered it closes the window and
\* keeps the decoder, so callers that use it at any time are left out.  So are
\* dials and writes of START that fail: after either the code resets nothing, or
\* too early.)
NoStaleLead ==
  "Init" \notin setup.operations /\ ~setup.dialFails /\ ~setup.writeFails => lead # "mispaired"

\* The raw and the logical view agree on what was lost: a raw item that completed
\* a logical item is directly followed by it, whatever is evicted for control
\* events, dropped at the bound or taken by readers of either kind.
RawPairs ==
  \A i \in 1 .. Len(pendingEvents) :
    LET e == pendingEvents[i]
    IN  e.kind = "raw" /\ e.flag =>
          /\ i < Len(pendingEvents)
          /\ LET next == pendingEvents[i + 1]
             IN  /\ next.kind \in {"byte", "wireSyn"}
                 /\ next.byte = IF next.flag THEN SymbolEscape + e.byte ELSE e.byte

\* The event queue keeps its bound and its pairs of raw and logical items.
QueueInv ==
  /\ TypeOK
  /\ RawPairs

\* The comment on awaitingStart: what is received between START and its answer
\* "must not leak into pendingEvents" as a byte.
NoPreGrantByte ==
  [][outstanding /\ outstanding' /\ Len(pendingEvents') > Len(pendingEvents) =>
       pendingEvents'[Len(pendingEvents')].kind # "byte"]_vars

\* The comment on arbitrationDeadline: it bounds every arbitration window, so
\* that a lost answer does not starve the readers for ever.
WindowHasDeadline == awaitingStart => arbitrationDeadline # "none"

\* The comment in StartArbitration: after a grant ReadByte starts with a clean
\* state, so the parser knows of a frame that has been received in part.
GrantedClean == pc = "idle" /\ postGrantPreEcho = "open" /\ pendingEvents = <<>> => half = parser
=============================================================================
