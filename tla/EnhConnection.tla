---------------------------- MODULE EnhConnection ----------------------------
(***************************************************************************)
(* transport/enh_transport.go: who uses which connection, and under which  *)
(* of readMu, writeMu and connMu, while reconnectLocked swaps connections  *)
(* and Close may run at any time.                                          *)
(*                                                                         *)
(* An operation that finds the transport closed before it takes a lock     *)
(* returns at once and is a stuttering step.  What is read and written is  *)
(* EnhStream's subject: "Read" stands for ReadByte and ReadEvent, "Start"  *)
(* for StartArbitration and Init, which write before they read, "Write"    *)
(* for Write and RequestStart, "Info" for RequestInfo.  The transport has  *)
(* a dialFunc.  A dial may hang, and without timeouts so may a read or a   *)
(* write, until its connection is closed.                                  *)
(***************************************************************************)
EXTENDS Naturals, FiniteSets

CONSTANTS
  Callers,
  NoCaller,        \* a mutex is free
  MaxConnections   \* bound on successful dials

ASSUME NoCallerAssumption == NoCaller \notin Callers
ASSUME MaxConnectionsAssumption == MaxConnections \in Nat \ {0}

VARIABLES
  closed,
  conn,       \* t.conn
  open,       \* the connections that are not closed
  dialed,     \* the number of connections so far
  inited,     \* the connections on which INIT precedes everything else
  readMu, writeMu, connMu,
  pc, op,     \* per caller: where it is, and in which operation
  fresh,      \* per caller: the connection it has dialled, or 0
  snapshot    \* per caller: the connection Close has read

locks == <<readMu, writeMu, connMu>>
conns == <<conn, open, dialed, inited>>
vars == <<closed, conns, locks, pc, op, fresh, snapshot>>

Operations == {"Read", "Start", "Info", "Write", "Reconnect", "Close"}

Connections == 1 .. MaxConnections

Init ==
  /\ closed = FALSE
  /\ conn = 1 /\ open = {1} /\ dialed = 1 /\ inited = {1}
  /\ readMu = NoCaller /\ writeMu = NoCaller /\ connMu = NoCaller
  /\ pc = [p \in Callers |-> "idle"]
  /\ op = [p \in Callers |-> "Read"]
  /\ fresh = [p \in Callers |-> 0]
  /\ snapshot = [p \in Callers |-> 1]

Goto(p, next) == pc' = [pc EXCEPT ![p] = next]

\* The deferred unlocks of a return.
Unlock(p, mutex) == IF mutex = p THEN NoCaller ELSE mutex
Return(p) ==
  /\ Goto(p, "idle")
  /\ fresh' = [fresh EXCEPT ![p] = 0]
  /\ readMu' = Unlock(p, readMu) /\ writeMu' = Unlock(p, writeMu) /\ connMu' = Unlock(p, connMu)

-----------------------------------------------------------------------------
(* Operations begin                                                        *)

Begin(p, o) ==
  /\ pc[p] = "idle" /\ ~closed
  /\ op' = [op EXCEPT ![p] = o]
  /\ Goto(p, IF o = "Write" THEN "lockWrite" ELSE "lockRead")
  /\ UNCHANGED <<closed, conns, locks, fresh, snapshot>>

LockRead(p) ==
  /\ pc[p] = "lockRead" /\ readMu = NoCaller
  /\ readMu' = p
  /\ Goto(p, CASE op[p] = "Read" -> "read"
               [] op[p] \in {"Start", "Info"} -> "lockWrite"
               [] op[p] = "Reconnect" -> "check")
  /\ UNCHANGED <<closed, conns, writeMu, connMu, op, fresh, snapshot>>

\* "lockSwap" is reconnectLocked's, on behalf of any operation that reads.
LockWrite(p) ==
  /\ pc[p] \in {"lockWrite", "lockSwap"} /\ writeMu = NoCaller
  /\ writeMu' = p
  /\ Goto(p, IF pc[p] = "lockSwap" THEN "lockConn" ELSE "write")
  /\ UNCHANGED <<closed, conns, readMu, connMu, op, fresh, snapshot>>

-----------------------------------------------------------------------------
(* I/O on t.conn                                                           *)

\* The request is out: "Start" gives writeMu back for the wait, "Info" keeps it.
Written(p) ==
  /\ pc[p] = "write" /\ op[p] \in {"Start", "Info"} /\ conn \in open
  /\ Goto(p, "read")
  /\ writeMu' = IF op[p] = "Start" THEN NoCaller ELSE writeMu
  /\ UNCHANGED <<closed, conns, readMu, connMu, op, fresh, snapshot>>

\* Data, an error or a timeout, if one is set: the operation returns.
Answered(p) ==
  /\ pc[p] \in {"read", "write"} /\ conn \in open
  /\ Return(p)
  /\ UNCHANGED <<closed, conns, op, snapshot>>

\* net.Conn.Close fails the pending reads and writes.
Failed(p) ==
  /\ pc[p] \in {"read", "write"} /\ conn \notin open
  /\ Return(p)
  /\ UNCHANGED <<closed, conns, op, snapshot>>

\* The adapter reports RESETTED; RequestInfo only records it.
Resetted(p) ==
  /\ pc[p] = "read" /\ op[p] \in {"Read", "Start"} /\ conn \in open
  /\ Goto(p, "check")
  /\ UNCHANGED <<closed, conns, locks, op, fresh, snapshot>>

-----------------------------------------------------------------------------
(* reconnectLocked                                                         *)

Check(p) ==
  /\ pc[p] = "check"
  /\ IF closed THEN Return(p) ELSE Goto(p, "dial") /\ UNCHANGED <<locks, fresh>>
  /\ UNCHANGED <<closed, conns, op, snapshot>>

Dial(p) ==
  /\ pc[p] = "dial" /\ dialed < MaxConnections
  /\ dialed' = dialed + 1
  /\ open' = open \cup {dialed'}
  /\ fresh' = [fresh EXCEPT ![p] = dialed']
  /\ Goto(p, "dialed")
  /\ UNCHANGED <<closed, conn, inited, locks, op, snapshot>>

\* Mutant: the error of the dial is dropped.
DialErrorDropped(p) ==
  /\ pc[p] = "dial"
  /\ Goto(p, "dialed")
  /\ UNCHANGED <<closed, conns, locks, op, fresh, snapshot>>

DialFails(p) ==
  /\ pc[p] = "dial"
  /\ Return(p)
  /\ UNCHANGED <<closed, conns, op, snapshot>>

Dialed(p) ==
  /\ pc[p] = "dialed"
  /\ IF closed
     THEN open' = open \ {fresh[p]} /\ Return(p)
     ELSE UNCHANGED open /\ Goto(p, "lockSwap") /\ UNCHANGED <<locks, fresh>>
  /\ UNCHANGED <<closed, conn, dialed, inited, op, snapshot>>

\* Mutant: Close waits for the writer before it reads t.conn.
LockConnBehindWriters(p) ==
  /\ pc[p] = "lockConn" /\ connMu = NoCaller
  /\ op[p] = "Close" => writeMu = NoCaller
  /\ connMu' = p
  /\ Goto(p, IF op[p] = "Close" THEN "snapshot" ELSE "swap")
  /\ UNCHANGED <<closed, conns, readMu, writeMu, op, fresh, snapshot>>

LockConn(p) ==
  /\ pc[p] = "lockConn" /\ connMu = NoCaller
  /\ connMu' = p
  /\ Goto(p, IF op[p] = "Close" THEN "snapshot" ELSE "swap")
  /\ UNCHANGED <<closed, conns, readMu, writeMu, op, fresh, snapshot>>

\* Mutant: closed is not checked again under the locks.
SwapUnchecked(p) ==
  /\ pc[p] = "swap"
  /\ conn' = fresh[p]
  /\ open' = open \ {conn}
  /\ connMu' = NoCaller
  /\ Goto(p, "initSend")
  /\ UNCHANGED <<closed, dialed, inited, readMu, writeMu, op, fresh, snapshot>>

\* Mutant: the old connection is not closed.
SwapKeepsOld(p) ==
  /\ pc[p] = "swap"
  /\ IF closed
     THEN open' = open \ {fresh[p]} /\ Return(p) /\ UNCHANGED conn
     ELSE /\ conn' = fresh[p]
          /\ connMu' = NoCaller
          /\ Goto(p, "initSend")
          /\ UNCHANGED <<open, readMu, writeMu, fresh>>
  /\ UNCHANGED <<closed, dialed, inited, op, snapshot>>

\* Mutant: writeMu is given back with connMu, before INIT.
SwapReleasesWrite(p) ==
  /\ pc[p] = "swap"
  /\ IF closed
     THEN open' = open \ {fresh[p]} /\ Return(p) /\ UNCHANGED conn
     ELSE /\ conn' = fresh[p]
          /\ open' = open \ {conn}
          /\ connMu' = NoCaller /\ writeMu' = NoCaller
          /\ Goto(p, "initSend")
          /\ UNCHANGED <<readMu, fresh>>
  /\ UNCHANGED <<closed, dialed, inited, op, snapshot>>

Swap(p) ==
  /\ pc[p] = "swap"
  /\ IF closed
     THEN open' = open \ {fresh[p]} /\ Return(p) /\ UNCHANGED conn
     ELSE /\ conn' = fresh[p]
          /\ open' = open \ {conn}
          /\ connMu' = NoCaller
          /\ Goto(p, "initSend")
          /\ UNCHANGED <<readMu, writeMu, fresh>>
  /\ UNCHANGED <<closed, dialed, inited, op, snapshot>>

\* INIT is sent under writeMu.
InitSend(p) ==
  /\ pc[p] = "initSend" /\ conn \in open
  /\ inited' = inited \cup {conn}
  /\ writeMu' = NoCaller
  /\ Goto(p, "initRecv")
  /\ UNCHANGED <<closed, conn, open, dialed, readMu, connMu, op, fresh, snapshot>>

InitSendFails(p) ==
  /\ pc[p] = "initSend"
  /\ open' = open \ {conn}
  /\ Return(p)
  /\ UNCHANGED <<closed, conn, dialed, inited, op, snapshot>>

\* An answer, an error or the timeout, which is always set here.  The operation
\* in which RESETTED arrived returns ErrAdapterReset.
InitRecv(p) ==
  /\ pc[p] = "initRecv"
  /\ Return(p)
  /\ UNCHANGED <<closed, conns, op, snapshot>>

-----------------------------------------------------------------------------
(* Close                                                                   *)

Close(p) ==
  /\ pc[p] = "idle"
  /\ closed' = TRUE
  /\ op' = [op EXCEPT ![p] = "Close"]
  /\ Goto(p, "lockConn")
  /\ UNCHANGED <<conns, locks, fresh, snapshot>>

CloseSnapshot(p) ==
  /\ pc[p] = "snapshot"
  /\ snapshot' = [snapshot EXCEPT ![p] = conn]
  /\ connMu' = NoCaller
  /\ Goto(p, "close")
  /\ UNCHANGED <<closed, conns, readMu, writeMu, op, fresh>>

CloseConn(p) ==
  /\ pc[p] = "close"
  /\ open' = open \ {snapshot[p]}
  /\ Return(p)
  /\ UNCHANGED <<closed, conn, dialed, inited, op, snapshot>>

-----------------------------------------------------------------------------
Acquire(p) == LockRead(p) \/ LockWrite(p) \/ LockConn(p)

\* What the scheduler and the runtime carry out without the help of a peer.
Proceed(p) ==
  \/ Failed(p) \/ Check(p) \/ Dialed(p) \/ Swap(p)
  \/ InitSend(p) \/ InitSendFails(p) \/ InitRecv(p)
  \/ CloseSnapshot(p) \/ CloseConn(p)

Next ==
  \E p \in Callers :
    \/ \E o \in Operations \ {"Close"} : Begin(p, o)
    \/ Written(p) \/ Answered(p) \/ Resetted(p) \/ Dial(p) \/ DialFails(p) \/ Close(p)
    \/ Acquire(p) \/ Proceed(p)

Spec == Init /\ [][Next]_vars

\* sync.Mutex hands a contended lock to every waiter in the end.  Nothing is
\* assumed of the adapter, of dialFunc and of the callers.
Fairness == \A p \in Callers : SF_vars(Acquire(p)) /\ WF_vars(Proceed(p))

FairSpec == Spec /\ Fairness

-----------------------------------------------------------------------------
(* Properties                                                              *)

Pcs == {"idle", "lockRead", "lockWrite", "lockSwap", "lockConn", "read", "write", "check", "dial", "dialed",
        "swap", "initSend", "initRecv", "snapshot", "close"}

\* Every field keeps its type.
TypeOK ==
  /\ closed \in BOOLEAN
  /\ conn \in Connections /\ open \subseteq Connections /\ dialed \in Connections
  /\ inited \subseteq Connections
  /\ {readMu, writeMu, connMu} \subseteq Callers \cup {NoCaller}
  /\ pc \in [Callers -> Pcs] /\ op \in [Callers -> Operations]
  /\ fresh \in [Callers -> Connections \cup {0}] /\ snapshot \in [Callers -> Connections]

\* Whatever Close raced with, a reconnect before, during or after its dial, once
\* the calls have returned no connection is left open behind a closed transport.
ClosedForGood ==
  closed /\ (\A p \in Callers : pc[p] = "idle") => open = {}

\* At most one connection to the adapter is open unless a reconnect is between its
\* dial and the close of the old one: reconnects do not accumulate connections.
OneConnection ==
  Cardinality(open) > 1 => \E p \in Callers : pc[p] \in {"dialed", "lockSwap", "lockConn", "swap"}
                                              /\ readMu = p /\ open = {conn, fresh[p]}

\* No connection leaks: one at a time, and none behind a closed transport.
NoLeak ==
  /\ TypeOK
  /\ ClosedForGood
  /\ OneConnection

\* After a reconnect application bytes are written only to a connection on which INIT has been sent.
InitFirst == \A p \in Callers : pc[p] \in {"read", "write"} /\ conn \in open => conn \in inited

\* Close returns although a write stalls and a dial hangs, and then every other
\* operation returns too: writers in any case, readers unless a dial hangs.
CloseUnblocks ==
  \A p \in Callers :
    closed /\ pc[p] # "idle" ~>
      \/ pc[p] = "idle"
      \/ op[p] \notin {"Write", "Close"} /\ \E q \in Callers : pc[q] = "dial"
=============================================================================
