----------------------------- MODULE TelegramFsm -----------------------------
(***************************************************************************)
(* protocol/telegram_fsm/fsm.go: the machine that follows a telegram byte  *)
(* by byte, fed from a bus that carries the exchanges of the eBUS.         *)
(*                                                                         *)
(* The bus is the reference: an exchange is the sequence of symbols that   *)
(* initiator and target put on the wire, each with the phase it belongs    *)
(* to.  The adapter injects raw 0xAA symbols between them, resets, or      *)
(* garbles the stream; after that any symbol may follow until the caller,  *)
(* on a timeout or an abort, calls ResetToIdle.  Exchanges between two     *)
(* initiators must not be fed to this machine (its comment says so), and   *)
(* an injected 0xAA where the terminator is due cannot be told from it.    *)
(* CRCs are not looked at by the code.                                     *)
(***************************************************************************)
EXTENDS Integers, Sequences

CONSTANTS
  Lengths,   \* data lengths of the telegrams, both ways
  Fills,     \* what the other bytes of a telegram are
  Stray      \* symbols of a garbled stream

MaxRetxPerPhase == 1
BroadcastDestination == 254
ACKByte == 0
NACKByte == 255
SynByte == 170
MaxLengthByte == 16

Symbol(b, escaped) == [byte |-> b, escaped |-> escaped]
RawSyn == Symbol(SynByte, FALSE)
Plain(b) == Symbol(b, FALSE)

ASSUME FsmAssumption ==
  /\ Lengths \subseteq 0 .. MaxLengthByte
  /\ RawSyn \notin Fills
  /\ Fills \cup Stray \subseteq [byte : 0 .. 255, escaped : BOOLEAN]

VARIABLES
  machine,
  coming,     \* the rest of the exchange on the wire
  foreign,    \* the exchange began without a STARTED for this session
  inStep,     \* the stream has not been garbled since the exchange began
  misjudged   \* a symbol of the exchange was not forwarded, or an injected one was

fsmVars == <<machine, coming, foreign, inStep, misjudged>>

-----------------------------------------------------------------------------
(* Machine                                                                 *)

Fresh == [state |-> "IDLE", masterNN |-> 0, consumed |-> 0, masterDest |-> 0, masterRetx |-> 0,
          slaveNN |-> 0, slaveRetx |-> 0, passive |-> FALSE]

ResetToIdle(m) == Fresh
EnterArbitrating(m) == [m EXCEPT !.state = "ARBITRATING", !.passive = FALSE]
EnterPassiveTracking(m) == [Fresh EXCEPT !.state = "MASTER_HEADER", !.consumed = 1, !.passive = TRUE]

\* The state the caller is told.
State(m) == IF m.passive /\ m.state \notin {"IDLE", "ABORTED"} THEN "PASSIVE_TRACKING" ELSE m.state

\* What Feed returns, and the machine after it.
Forward(m) == [m |-> m, decision |-> "forward"]
Drop(m) == [m |-> m, decision |-> "drop"]
Fault(m) == [m |-> [m EXCEPT !.state = "ABORTED"], decision |-> "fault"]
Goto(m, state) == Forward([m EXCEPT !.state = state])
NextPhase(m, state) == Forward([m EXCEPT !.state = state, !.consumed = 0])

feedArbitrating(m) == Forward([m EXCEPT !.state = "MASTER_HEADER", !.consumed = 1])

\* Mutant: a length above the limit is accepted.
HeaderUnchecked(m, b) ==
  LET n == [m EXCEPT !.masterDest = IF m.consumed = 1 THEN b ELSE @,
                     !.masterNN = IF m.consumed = 4 THEN b ELSE @, !.consumed = @ + 1]
  IN  IF n.consumed < 5 THEN Forward(n) ELSE NextPhase(n, IF n.masterNN = 0 THEN "MASTER_CRC" ELSE "MASTER_DATA")

feedMasterHeader(m, b) ==
  LET n == [m EXCEPT !.masterDest = IF m.consumed = 1 THEN b ELSE @,
                     !.masterNN = IF m.consumed = 4 THEN b ELSE @, !.consumed = @ + 1]
  IN  IF m.consumed = 4 /\ b > MaxLengthByte THEN Fault([n EXCEPT !.consumed = 4])
      ELSE IF n.consumed < 5 THEN Forward(n)
      ELSE NextPhase(n, IF n.masterNN = 0 THEN "MASTER_CRC" ELSE "MASTER_DATA")

feedMasterData(m) ==
  IF m.consumed + 1 >= m.masterNN THEN NextPhase(m, "MASTER_CRC") ELSE Forward([m EXCEPT !.consumed = @ + 1])

feedMasterCRC(m) == Goto(m, IF m.masterDest = BroadcastDestination THEN "WAIT_TERMINATOR_SYN" ELSE "WAIT_MASTER_ACK")

feedWaitMasterAck(m, b) ==
  CASE b = ACKByte -> NextPhase(m, "SLAVE_LENGTH")
    [] b = NACKByte ->
         IF m.masterRetx < MaxRetxPerPhase THEN Goto([m EXCEPT !.masterRetx = @ + 1], "MASTER_RETX")
                                           ELSE Goto(m, "ABORTED")
    [] OTHER -> Fault(m)

\* Mutant: the repeated source address is not counted as a header byte.
RetxUncounted(m) ==
  Forward([m EXCEPT !.state = "MASTER_HEADER", !.consumed = 0, !.masterNN = 0, !.masterDest = 0])

feedMasterRetx(m) ==
  Forward([m EXCEPT !.state = "MASTER_HEADER", !.consumed = 1, !.masterNN = 0, !.masterDest = 0])

feedSlaveLength(m, b) ==
  IF b > MaxLengthByte THEN Fault(m)
  ELSE NextPhase([m EXCEPT !.slaveNN = b], IF b = 0 THEN "SLAVE_CRC" ELSE "SLAVE_DATA")

\* The byte is the repeated length.
feedSlaveRetx(m, b) == feedSlaveLength(m, b)

feedSlaveData(m) ==
  IF m.consumed + 1 >= m.slaveNN THEN NextPhase(m, "SLAVE_CRC") ELSE Forward([m EXCEPT !.consumed = @ + 1])

feedSlaveCRC(m) == Goto(m, "WAIT_SLAVE_ACK")

feedWaitSlaveAck(m, b) ==
  CASE b = ACKByte -> Goto(m, "WAIT_TERMINATOR_SYN")
    [] b = NACKByte ->
         IF m.slaveRetx < MaxRetxPerPhase THEN Goto([m EXCEPT !.slaveRetx = @ + 1], "SLAVE_RETX")
                                          ELSE Goto(m, "ABORTED")
    [] OTHER -> Fault(m)

feedWaitTerminatorSyn(m, s) == IF s = RawSyn THEN Forward(ResetToIdle(m)) ELSE Fault(m)

\* Mutant: an escaped 0xAA is dropped like a raw one.
IsInjectionByValue(m, s) == s.byte = SynByte /\ m.state \notin {"IDLE", "WAIT_TERMINATOR_SYN", "ABORTED"}

IsInjection(m, s) == s = RawSyn /\ m.state \notin {"IDLE", "WAIT_TERMINATOR_SYN", "ABORTED"}

Feed(m, s) ==
  IF IsInjection(m, s) THEN Drop(m)
  ELSE CASE m.state = "IDLE" -> Forward(m)
         [] m.state = "ARBITRATING" -> feedArbitrating(m)
         [] m.state = "MASTER_HEADER" -> feedMasterHeader(m, s.byte)
         [] m.state = "MASTER_DATA" -> feedMasterData(m)
         [] m.state = "MASTER_CRC" -> feedMasterCRC(m)
         [] m.state = "WAIT_MASTER_ACK" -> feedWaitMasterAck(m, s.byte)
         [] m.state = "MASTER_RETX" -> feedMasterRetx(m)
         [] m.state = "SLAVE_LENGTH" -> feedSlaveLength(m, s.byte)
         [] m.state = "SLAVE_RETX" -> feedSlaveRetx(m, s.byte)
         [] m.state = "SLAVE_DATA" -> feedSlaveData(m)
         [] m.state = "SLAVE_CRC" -> feedSlaveCRC(m)
         [] m.state = "WAIT_SLAVE_ACK" -> feedWaitSlaveAck(m, s.byte)
         [] m.state = "WAIT_TERMINATOR_SYN" -> feedWaitTerminatorSyn(m, s)
         [] m.state = "ABORTED" -> Fault(m)

-----------------------------------------------------------------------------
(* The exchanges of the eBUS                                               *)

Source == 16
Target == 8
Exchanged == [dest : {BroadcastDestination, Target}, nn : Lengths, rn : Lengths, fill : Fills,
              masterNacks : 0 .. MaxRetxPerPhase + 1, slaveNacks : 0 .. MaxRetxPerPhase + 1]

On(symbol, phase) == <<[symbol |-> symbol, phase |-> phase]>>
Many(n, symbol, phase) == [i \in 1 .. n |-> [symbol |-> symbol, phase |-> phase]]

MasterFrame(t, first) ==
  On(Plain(Source), first) \o On(Plain(t.dest), "MASTER_HEADER") \o Many(2, t.fill, "MASTER_HEADER")
  \o On(Plain(t.nn), "MASTER_HEADER") \o Many(t.nn, t.fill, "MASTER_DATA") \o On(t.fill, "MASTER_CRC")
SlaveFrame(t, first) ==
  On(Plain(t.rn), first) \o Many(t.rn, t.fill, "SLAVE_DATA") \o On(t.fill, "SLAVE_CRC")

Completed == On(RawSyn, "WAIT_TERMINATOR_SYN")
Abandoned == On(RawSyn, "ABORTED")

\* A frame, as often as it is refused, and how the exchange goes on.
Refused(again, n, phase, accepted) ==
  CASE n = 0 -> On(Plain(ACKByte), phase) \o accepted
    [] n = 1 -> On(Plain(NACKByte), phase) \o again \o On(Plain(ACKByte), phase) \o accepted
    [] n = 2 -> On(Plain(NACKByte), phase) \o again \o On(Plain(NACKByte), phase) \o Abandoned

Response(t) ==
  SlaveFrame(t, "SLAVE_LENGTH") \o Refused(SlaveFrame(t, "SLAVE_RETX"), t.slaveNacks, "WAIT_SLAVE_ACK", Completed)
Exchange(t) ==
  MasterFrame(t, "ARBITRATING")
  \o IF t.dest = BroadcastDestination THEN Completed
     ELSE Refused(MasterFrame(t, "MASTER_RETX"), t.masterNacks, "WAIT_MASTER_ACK", Response(t))

-----------------------------------------------------------------------------
(* The machine on the bus                                                  *)

FsmInit == machine = Fresh /\ coming = <<>> /\ foreign = FALSE /\ inStep = TRUE /\ misjudged = FALSE

\* STARTED for this session, or a first byte without it, which is fed in IDLE.
Starts(t) ==
  /\ inStep /\ coming = <<>>
  /\ \/ machine' = EnterArbitrating(machine) /\ coming' = Exchange(t) /\ foreign' = FALSE
     \/ machine' = EnterPassiveTracking(machine) /\ coming' = Tail(Exchange(t)) /\ foreign' = TRUE
  /\ UNCHANGED <<inStep, misjudged>>

Delivers ==
  /\ inStep /\ coming # <<>> /\ machine.state # "ABORTED"
  /\ LET f == Feed(machine, Head(coming).symbol)
     IN  machine' = f.m /\ misjudged' = (misjudged \/ f.decision # "forward")
  /\ coming' = Tail(coming)
  /\ UNCHANGED <<foreign, inStep>>

Injects ==
  /\ inStep /\ coming # <<>> /\ Head(coming).phase \notin {"WAIT_TERMINATOR_SYN", "ABORTED"}
  /\ LET f == Feed(machine, RawSyn)
     IN  machine' = f.m /\ misjudged' = (misjudged \/ f.decision # "drop")
  /\ UNCHANGED <<coming, foreign, inStep>>

Garbles ==
  /\ inStep /\ coming # <<>>
  /\ inStep' = FALSE /\ coming' = <<>> /\ foreign' = FALSE
  /\ UNCHANGED <<machine, misjudged>>

Strays(s) ==
  /\ ~inStep /\ machine.state # "ABORTED"
  /\ machine' = Feed(machine, s).m
  /\ UNCHANGED <<coming, foreign, inStep, misjudged>>

\* RESETTED, a timeout of the caller, or its answer to ABORTED.
Resets ==
  /\ coming # <<>> \/ ~inStep
  /\ machine' = ResetToIdle(machine) /\ coming' = <<>> /\ foreign' = FALSE /\ inStep' = TRUE
  /\ UNCHANGED misjudged

FsmNext ==
  \/ \E t \in Exchanged : Starts(t)
  \/ Delivers \/ Injects \/ Garbles \/ Resets
  \/ \E s \in Stray : Strays(s)
FsmSpec == FsmInit /\ [][FsmNext]_fsmVars

-----------------------------------------------------------------------------
(* Properties                                                              *)

\* Whatever is fed, the machine counts within the lengths of the eBUS.
FsmTypeOK ==
  /\ machine \in [state : {"IDLE", "ARBITRATING", "MASTER_HEADER", "MASTER_DATA", "MASTER_CRC",
                           "WAIT_MASTER_ACK", "MASTER_RETX", "SLAVE_LENGTH", "SLAVE_DATA", "SLAVE_CRC",
                           "WAIT_SLAVE_ACK", "SLAVE_RETX", "WAIT_TERMINATOR_SYN", "ABORTED"},
                   masterNN : 0 .. 255, consumed : 0 .. MaxLengthByte - 1, masterDest : 0 .. 255,
                   masterRetx : 0 .. MaxRetxPerPhase, slaveNN : 0 .. MaxLengthByte,
                   slaveRetx : 0 .. MaxRetxPerPhase, passive : BOOLEAN]
  /\ machine.state \notin {"MASTER_HEADER", "ABORTED"} => machine.masterNN <= MaxLengthByte
  /\ {foreign, inStep, misjudged} \subseteq BOOLEAN

\* The filter of v8: of everything on the wire exactly the 0xAA symbols that the
\* adapter injects are dropped, in every phase, also where the payload is 0xAA.
OnlyInjectionsDropped == ~misjudged

\* The machine is in the phase of the symbol that comes next, for every telegram,
\* answer and repetition, whatever was injected, and reports a foreign telegram as
\* such: it aborts after the second NACK only, and after an exchange, a reset or a
\* garbled stream nothing is left of it for the next one.
InStep ==
  inStep =>
    IF coming = <<>> THEN machine = Fresh
    ELSE LET phase == Head(coming).phase
         IN  /\ machine.state = phase
             /\ State(machine) = IF foreign /\ phase # "ABORTED" THEN "PASSIVE_TRACKING" ELSE phase

\* The machine follows the telegrams of the bus: its phase is theirs, and it forwards
\* their symbols and no injected ones.
TelegramFollowed ==
  /\ FsmTypeOK
  /\ OnlyInjectionsDropped
  /\ InStep
=============================================================================
