--------------------------- MODULE BusTransaction ---------------------------
(***************************************************************************)
(* protocol/bus.go: sendTransaction and what it calls, one telegram of an  *)
(* initiator byte by byte.  Every byte is written and its echo awaited; a  *)
(* command that is NACKed is repeated once, a response whose CRC is wrong  *)
(* is NACKed and read once more, and a SYN ends the exchange.              *)
(*                                                                         *)
(* The bus may deliver any byte of InBytes at any time.  A transport is    *)
(* "plain" (it delivers wire bytes), "flagged" (ENH: it decodes escape     *)
(* pairs and tells which bytes came from one) or "unflagged" (it decodes   *)
(* them and does not tell).  Response data is not kept, so a CRC matches   *)
(* or not by choice.  Frames of unknown type and oversized data do not     *)
(* come here: Send has validated the frame.                                *)
(***************************************************************************)
EXTENDS Addressing, SequencesExt

CONSTANTS Telegrams,   \* source, target and what follows, as logical bytes
          InBytes,     \* what the bus delivers
          MaxLength,   \* responses are read as if no longer than this
          maxPayloadAaAutoSynDrains

ASSUME TelegramsAssumption == Telegrams \subseteq Seq(0 .. 255) /\ \A t \in Telegrams : Len(t) > 1
ASSUME BytesAssumption == InBytes \subseteq 0 .. 255
ASSUME LimitsAssumption == MaxLength \in Nat \ {0} /\ maxPayloadAaAutoSynDrains \in Nat \ {0}

SymbolAck    == 0
SymbolNack   == 255
SymbolEscape == 169
SymbolSyn    == 170

VARIABLES
  kind,           \* of the transport
  telegram,
  includeSource,
  place,
  out,            \* the symbols still to be written, with their parameters
  sent,           \* the raw bytes of the first of them that are confirmed
  after,          \* what follows when all are confirmed
  absorbed, commandAttempt, respAttempt,
  left,           \* response data bytes still to be read
  escape,         \* of busDecoder
  outcome,
  log,            \* the exchange so far: confirmed writes and symbols read
  echoes,         \* what the bus delivered as the echo of each confirmed write
  lastSyn         \* what the last symbol 0xAA was: "wire" SYN or "payload"

input   == <<kind, telegram>>
sending == <<out, sent, after, absorbed>>
reading == <<left, escape, lastSyn>>
transactionVars == <<input, includeSource, place, sending, commandAttempt, respAttempt, reading, outcome,
          log, echoes>>

frameType == FrameTypeForTarget(telegram[2])

-----------------------------------------------------------------------------
(* sendSymbolWithEcho, sendInitiatorTelegram and sendEndOfMessage          *)

\* A call of sendSymbolWithEcho.
SymbolWithEcho(symbol, esc, first) == <<[symbol |-> symbol, esc |-> esc, first |-> first]>>

InitiatorTelegram(source) ==
  LET start == IF source THEN 1 ELSE 2
  IN [i \in 1 .. Len(telegram) - start + 1 |-> [symbol |-> telegram[start + i - 1], esc |-> TRUE, first |-> i = 1]]

EndOfMessage == SymbolWithEcho(SymbolSyn, FALSE, FALSE)

-----------------------------------------------------------------------------
TransactionInit ==
  /\ kind \in {"plain", "flagged", "unflagged"}
  /\ telegram \in Telegrams
  /\ includeSource \in BOOLEAN
  /\ place = "idle" /\ out = <<>> /\ sent = <<>> /\ after = "ack" /\ absorbed = 0
  /\ commandAttempt = 0 /\ respAttempt = 0
  /\ left = 0 /\ escape = FALSE /\ lastSyn = "none"
  /\ outcome = "none" /\ log = <<>> /\ echoes = {}

\* sendTransaction is called; with ENH the arbitration may have sent the source.
BeginTransaction ==
  /\ place = "idle"
  /\ telegram' \in Telegrams /\ includeSource' \in BOOLEAN
  /\ place' = "command" /\ out' = <<>> /\ sent' = <<>> /\ after' = "ack" /\ absorbed' = 0
  /\ commandAttempt' = 0 /\ respAttempt' = 0
  /\ left' = 0 /\ escape' = FALSE /\ lastSyn' = "none"
  /\ outcome' = "none" /\ log' = <<>> /\ echoes' = {}
  /\ UNCHANGED kind

\* sendTransaction returns to sendWithRetries.
EndTransaction ==
  /\ place = "done"
  /\ place' = "idle"
  /\ UNCHANGED <<input, includeSource, sending, commandAttempt, respAttempt, reading, outcome,
                 log, echoes>>

Done(with) == place' = "done" /\ outcome' = with

\* Write items, then do next.
Send(items, next) ==
  /\ out' = items /\ after' = next
  /\ place' = "write"

\* Mutant: a repeated command leaves out the source, like the first.
SendCommandSourceless ==
  /\ place = "command"
  /\ LET command == InitiatorTelegram(includeSource)
     IN IF frameType = "M2BC" THEN Send(command \o EndOfMessage, "ok") ELSE Send(command, "ack")
  /\ UNCHANGED <<input, includeSource, sent, absorbed, commandAttempt, respAttempt, reading, outcome,
                 log, echoes>>

\* The head of the command loop; a repeated command carries its source.
SendCommand ==
  /\ place = "command"
  /\ LET command == InitiatorTelegram(includeSource \/ commandAttempt > 0)
     IN IF frameType = "M2BC" THEN Send(command \o EndOfMessage, "ok") ELSE Send(command, "ack")
  /\ UNCHANGED <<input, includeSource, sent, absorbed, commandAttempt, respAttempt, reading, outcome,
                 log, echoes>>

-----------------------------------------------------------------------------
(* sendRawWithEcho                                                         *)

\* The symbol at the head of out is one raw write, or on a plain transport two: the
\* lead of an escape pair and, once that is confirmed, the other half.
Whole(item) == kind # "plain" \/ ~item.esc \/ item.symbol \notin {SymbolEscape, SymbolSyn}
Raw(item) ==
  IF Whole(item) THEN [raw |-> item.symbol, expectRawSyn |-> ~item.esc /\ item.symbol = SymbolSyn, first |-> item.first]
  ELSE IF sent = <<>> THEN [raw |-> SymbolEscape, expectRawSyn |-> FALSE, first |-> item.first]
  ELSE [raw |-> IF item.symbol = SymbolSyn THEN 1 ELSE 0, expectRawSyn |-> FALSE, first |-> FALSE]

\* A write or its echo failed.  The error of the SYN that ends a refused command
\* or response is ignored: the refusal is reported.
SendFailed(err) == Done(IF after \in {"nack", "crc"} THEN after ELSE err)

Write ==
  /\ place = "write"
  /\ \/ place' = "echo" /\ UNCHANGED outcome
     \/ SendFailed("other")
  /\ UNCHANGED <<input, includeSource, sending, commandAttempt, respAttempt, reading, log, echoes>>

\* What the transport can deliver; escaped: decoded from an escape pair.
Deliveries ==
  LET raw(b) == [byte |-> b, escaped |-> FALSE]
  IN IF kind = "plain" THEN {raw(b) : b \in InBytes}
     ELSE {raw(b) : b \in InBytes \ {SymbolEscape}} \cup
          {[byte |-> b, escaped |-> TRUE] : b \in InBytes \cap {SymbolEscape, SymbolSyn}}

ReadErrors == {"timeout", "reset", "host", "other"}

\* The echo is not the byte written.
Mismatch(item, d) ==
  IF item.first /\ ~(d.escaped /\ kind = "flagged") /\ IsInitiatorCapableAddress(d.byte)
  THEN "collision" ELSE "echoMismatch"

\* Mutant: a wire SYN is accepted as the echo of a payload 0xAA.
EchoBareValue(item, d) ==
  IF kind # "unflagged" /\ d.byte = SymbolSyn /\ ~d.escaped /\ item.raw # SymbolSyn THEN "collision"
  ELSE IF kind = "flagged" /\ item.expectRawSyn /\ d.byte = SymbolSyn /\ d.escaped THEN "collision"
  ELSE IF d.byte # item.raw THEN Mismatch(item, d)
  ELSE "ok"

\* The guards of sendRawWithEcho in their order.
Echo(item, d) ==
  IF kind # "unflagged" /\ d.byte = SymbolSyn /\ ~d.escaped /\ item.raw # SymbolSyn THEN "collision"
  ELSE IF kind = "flagged" /\ item.expectRawSyn /\ d.byte = SymbolSyn /\ d.escaped THEN "collision"
  ELSE IF kind = "flagged" /\ ~item.expectRawSyn /\ item.raw = SymbolSyn /\ d.byte = SymbolSyn /\ ~d.escaped THEN "drain"
  ELSE IF d.byte # item.raw THEN Mismatch(item, d)
  ELSE "ok"

\* The write is confirmed by d: the other half of a pair follows, or the next symbol,
\* or what comes after the last.
Confirm(d) ==
  LET item == Raw(Head(out)) IN
  /\ echoes' = echoes \cup {<<item.raw, item.expectRawSyn, d>>}
  /\ \/ /\ ~Whole(Head(out)) /\ sent = <<>>
        /\ sent' = <<item.raw>> /\ place' = "write"
        /\ UNCHANGED <<out, after, outcome, log>>
     \/ /\ Whole(Head(out)) \/ sent # <<>>
        /\ sent' = <<>> /\ log' = Append(log, <<"w", Append(sent, item.raw), item.expectRawSyn>>)
        /\ \/ /\ Len(out) > 1
              /\ out' = Tail(out) /\ place' = "write"
              /\ UNCHANGED <<after, outcome>>
           \/ /\ Len(out) = 1 /\ after \in {"ok", "nack", "crc"}
              /\ Done(after)
              /\ UNCHANGED <<out, after>>
           \/ /\ Len(out) = 1 /\ after \in {"ack", "length"}
              /\ place' = after
              /\ UNCHANGED <<out, after, outcome>>
           \/ /\ Len(out) = 1 /\ after = "crcEnd"
              /\ Send(EndOfMessage, "crc")
              /\ UNCHANGED outcome

EchoRead ==
  /\ place = "echo"
  /\ \E d \in Deliveries :
       LET echo == Echo(Raw(Head(out)), d) IN
       \/ /\ echo = "ok"
          /\ Confirm(d)
          /\ UNCHANGED absorbed
       \/ /\ echo = "drain"
          /\ place' = "drain" /\ absorbed' = 0
          /\ UNCHANGED <<out, sent, after, outcome, log, echoes>>
       \/ /\ echo \in {"collision", "echoMismatch"}
          /\ SendFailed(echo)
          /\ UNCHANGED <<sending, log, echoes>>
  /\ UNCHANGED <<input, includeSource, commandAttempt, respAttempt, reading>>

\* Mutant: the limit of the drain is checked one SYN too late.
DrainReadLate ==
  /\ place = "drain"
  /\ absorbed' = absorbed + 1
  /\ \E d \in Deliveries :
       \/ /\ d.byte = SymbolSyn /\ d.escaped
          /\ Confirm(d)
       \/ /\ d.byte = SymbolSyn /\ ~d.escaped
          /\ IF absorbed' <= maxPayloadAaAutoSynDrains THEN UNCHANGED <<place, outcome>>
             ELSE SendFailed("collision")
          /\ UNCHANGED <<out, sent, after, log, echoes>>
  /\ UNCHANGED <<input, includeSource, commandAttempt, respAttempt, reading>>

\* AUTO-SYN symbols before the echo of a payload 0xAA are absorbed, up to a limit.
DrainRead ==
  /\ place = "drain"
  /\ absorbed' = absorbed + 1
  /\ \E d \in Deliveries :
       \/ /\ d.byte = SymbolSyn /\ d.escaped
          /\ Confirm(d)
       \/ /\ d.byte = SymbolSyn /\ ~d.escaped
          /\ IF absorbed' < maxPayloadAaAutoSynDrains THEN UNCHANGED <<place, outcome>>
             ELSE SendFailed("collision")
          /\ UNCHANGED <<out, sent, after, log, echoes>>
       \/ /\ d.byte # SymbolSyn
          /\ SendFailed(Mismatch(Raw(Head(out)), d))
          /\ UNCHANGED <<out, sent, after, log, echoes>>
  /\ UNCHANGED <<input, includeSource, commandAttempt, respAttempt, reading>>

EchoError ==
  /\ place \in {"echo", "drain"}
  /\ \E err \in ReadErrors : SendFailed(err)
  /\ UNCHANGED <<input, includeSource, sending, commandAttempt, respAttempt, reading, log, echoes>>

-----------------------------------------------------------------------------
(* busDecoder.readSymbol                                                   *)

ReadingPcs == {"ack", "length", "data", "crc"}

\* The decoder returns symbol; wire says whether it was a SYN of the wire.
ReadSymbol(symbol, wire) ==
  /\ escape' = FALSE
  /\ lastSyn' = IF symbol # SymbolSyn THEN "none" ELSE IF wire THEN "wire" ELSE "payload"
  /\ \E d \in Deliveries :
       \/ /\ kind # "plain" \/ (~escape /\ d.byte # SymbolEscape)
          /\ symbol = d.byte /\ wire = (d.byte = SymbolSyn /\ ~d.escaped)
       \/ /\ kind = "plain" /\ escape /\ ~wire
          /\ \/ d.byte = 0 /\ symbol = SymbolEscape
             \/ d.byte = 1 /\ symbol = SymbolSyn

\* A plain transport delivers the lead of an escape pair.
ReadEscape ==
  /\ place \in ReadingPcs /\ kind = "plain" /\ ~escape /\ SymbolEscape \in InBytes
  /\ escape' = TRUE
  /\ UNCHANGED <<input, includeSource, place, sending, commandAttempt, respAttempt, left, lastSyn,
                 outcome, log, echoes>>

\* A read fails, or an escape lead is followed by a byte that is not 0 or 1.
ReadFailed ==
  /\ place \in ReadingPcs
  /\ \/ \E err \in ReadErrors : Done(err)
     \/ escape /\ InBytes \ {0, 1} # {} /\ Done("other")
  /\ escape' = FALSE
  /\ UNCHANGED <<input, includeSource, sending, commandAttempt, respAttempt, left, lastSyn, log,
                 echoes>>

-----------------------------------------------------------------------------
(* The rest of sendTransaction                                             *)

Logged(what) == log' = Append(log, <<"r", what>>)

\* The symbol after a command.
ReadAck ==
  /\ place = "ack"
  /\ \E symbol \in InBytes \cup {SymbolSyn}, wire \in BOOLEAN :
       /\ ReadSymbol(symbol, wire)
       /\ \/ /\ symbol = SymbolAck
             /\ Logged("ack")
             /\ \/ frameType = "M2M" /\ Send(EndOfMessage, "ok")
                \/ frameType = "M2S" /\ place' = "length" /\ UNCHANGED <<out, after>>
             /\ UNCHANGED <<commandAttempt, outcome>>
          \/ /\ symbol = SymbolNack
             /\ Logged("nack")
             /\ commandAttempt' = commandAttempt + 1
             /\ \/ commandAttempt = 0 /\ place' = "command" /\ UNCHANGED <<out, after>>
                \/ commandAttempt = 1 /\ Send(EndOfMessage, "nack")
             /\ UNCHANGED outcome
          \/ /\ symbol \notin {SymbolAck, SymbolNack}
             /\ Done("timeout")
             /\ UNCHANGED <<out, after, commandAttempt, log>>
  /\ UNCHANGED <<input, includeSource, sent, absorbed, respAttempt, left, echoes>>

\* A SYN where a response symbol is expected, for a plain transport.
ReadIdle ==
  /\ place \in {"length", "data", "crc"} /\ kind = "plain"
  /\ \E wire \in BOOLEAN : ReadSymbol(SymbolSyn, wire)
  /\ Done("idle")
  /\ UNCHANGED <<input, includeSource, sending, commandAttempt, respAttempt, left, log, echoes>>

\* A symbol of the response.
ReadResponse(symbol) ==
  /\ ~(kind = "plain" /\ symbol = SymbolSyn)
  /\ \E wire \in BOOLEAN : ReadSymbol(symbol, wire)

ReadLength ==
  /\ place = "length"
  /\ \E symbol \in InBytes \cup {SymbolEscape, SymbolSyn} :
       /\ ReadResponse(symbol)
       /\ left' = IF symbol > MaxLength THEN MaxLength ELSE symbol
  /\ place' = IF left' = 0 THEN "crc" ELSE "data"
  /\ UNCHANGED <<input, includeSource, sending, commandAttempt, respAttempt, outcome, log, echoes>>

ReadData ==
  /\ place = "data"
  /\ \E symbol \in InBytes \cup {SymbolEscape, SymbolSyn} : ReadResponse(symbol)
  /\ left' = left - 1
  /\ place' = IF left' = 0 THEN "crc" ELSE "data"
  /\ UNCHANGED <<input, includeSource, sending, commandAttempt, respAttempt, outcome, log, echoes>>

\* The CRC matches, or the response is refused: once more, then for good.
ReadCRC ==
  /\ place = "crc"
  /\ \E symbol \in InBytes \cup {SymbolEscape, SymbolSyn} : ReadResponse(symbol)
  /\ \/ /\ Logged("good")
        /\ Send(SymbolWithEcho(SymbolAck, TRUE, FALSE) \o EndOfMessage, "ok")
        /\ UNCHANGED respAttempt
     \/ /\ Logged("bad")
        /\ Send(SymbolWithEcho(SymbolNack, TRUE, FALSE), IF respAttempt = 0 THEN "length" ELSE "crcEnd")
        /\ respAttempt' = respAttempt + 1
  /\ UNCHANGED <<input, includeSource, sent, absorbed, commandAttempt, left, outcome, echoes>>

-----------------------------------------------------------------------------
TransactionNext ==
  \/ BeginTransaction \/ EndTransaction \/ SendCommand \/ Write \/ EchoRead \/ DrainRead \/ EchoError
  \/ ReadEscape \/ ReadFailed \/ ReadAck \/ ReadIdle \/ ReadLength \/ ReadData \/ ReadCRC

TransactionSpec == TransactionInit /\ [][TransactionNext]_transactionVars

-----------------------------------------------------------------------------
(* Properties                                                              *)

Results == ReadErrors \cup {"none", "ok", "nack", "crc", "idle", "collision", "echoMismatch"}

\* Every local of sendTransaction keeps its type, and the drain, the command and
\* the response loops keep to their limits.
TransactionTypeOK ==
  /\ kind \in {"plain", "flagged", "unflagged"} /\ telegram \in Telegrams
  /\ includeSource \in BOOLEAN
  /\ place \in {"idle", "command", "write", "echo", "drain", "done"} \cup ReadingPcs
  /\ out \in Seq([symbol : 0 .. 255, esc : BOOLEAN, first : BOOLEAN]) /\ sent \in {<<>>, <<SymbolEscape>>}
  /\ place \in {"write", "echo", "drain"} => out # <<>>
  /\ after \in {"ack", "length", "crcEnd", "ok", "nack", "crc"}
  /\ absorbed \in 0 .. maxPayloadAaAutoSynDrains
  /\ commandAttempt \in 0 .. 2 /\ respAttempt \in 0 .. 2
  /\ left \in 0 .. MaxLength /\ escape \in BOOLEAN
  /\ lastSyn \in {"none", "wire", "payload"}
  /\ outcome \in Results

\* The exchanges of the eBUS: symbols that were written "w", each with its raw bytes and
\* whether it is a SYN of the wire, and what is read "r".
Sent(symbol) ==
  <<"w", IF kind = "plain" /\ symbol \in {SymbolEscape, SymbolSyn} THEN <<SymbolEscape, symbol - SymbolEscape>> ELSE <<symbol>>, FALSE>>
Received(what) == <<<<"r", what>>>>
Terminator == <<<<"w", <<SymbolSyn>>, TRUE>>>>

Command(symbols) == [i \in 1 .. Len(symbols) |-> Sent(symbols[i])]
FirstCommand == Command(IF includeSource THEN telegram ELSE Tail(telegram))
Repeated == FirstCommand \o Received("nack") \o Command(telegram)
Accepted == {c \o Received("ack") : c \in {FirstCommand, Repeated}}
Refusal  == Received("bad") \o <<Sent(SymbolNack)>>
RefusedOnce  == {a \o Refusal : a \in Accepted}
RefusedTwice == {a \o Refusal : a \in RefusedOnce}

Exchanges(verdict) ==
  CASE verdict = "ok" /\ frameType = "M2BC" -> {FirstCommand \o Terminator}
    [] verdict = "ok" /\ frameType = "M2M" -> {a \o Terminator : a \in Accepted}
    [] verdict = "ok" /\ frameType = "M2S" ->
         {a \o Received("good") \o <<Sent(SymbolAck)>> \o Terminator : a \in Accepted \cup RefusedOnce}
    [] verdict = "nack" -> {Repeated \o Received("nack") \o t : t \in {<<>>, Terminator}}
    [] verdict = "crc" -> RefusedTwice \cup {a \o Terminator : a \in RefusedTwice}
    [] OTHER -> {}

\* Whatever the bus delivers, what the bus writes and reads is a prefix of an
\* eBUS exchange: nothing is sent over another initiator after a failed echo, a
\* command or a response is repeated once at most and with its source.  A
\* success, a NACK or a CRC mismatch is reported for complete exchanges only.
ExchangeLegal ==
  /\ \E verdict \in {"ok", "nack", "crc"} :
       \E exchange \in Exchanges(verdict) :
         /\ IsPrefix(log, exchange)
         /\ sent # <<>> => Len(log) < Len(exchange) /\ IsPrefix(sent, exchange[Len(log) + 1][2])
  /\ outcome \in {"ok", "nack", "crc"} => log \in Exchanges(outcome)

\* No foreign byte is taken for the echo of a write: a payload 0xA9 or 0xAA comes
\* back from an escape pair, the terminating SYN and every other byte does not,
\* whatever AUTO-SYN symbols precede it.
EchoesAreOurs ==
  kind # "unflagged" =>
    \A e \in echoes :
      e[3] = [byte |-> e[1],
              escaped |-> kind = "flagged" /\ ~e[2] /\ e[1] \in {SymbolEscape, SymbolSyn}]

\* A transaction writes a legal exchange and goes on only after its own echoes.
TransactionInv ==
  /\ TransactionTypeOK
  /\ ExchangeLegal
  /\ EchoesAreOurs

\* The comment of readSymbol: the escape pair of a plain transport is decoded, so
\* only a SYN of the wire means that the bus went idle.
PayloadIsNotIdle == outcome = "idle" => lastSyn = "wire"

\* The comments of sendTransaction: with ENH a 0xAA in a response is data; a SYN of
\* the wire is never read as part of a response.
IdleIsNotPayload == lastSyn = "wire" => place \in {"done", "idle"}
=============================================================================
