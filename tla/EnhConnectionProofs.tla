------------------------ MODULE EnhConnectionProofs ------------------------
(***************************************************************************)
(* Machine-checked proofs about EnhConnection, for any number of callers   *)
(* and of connections: no connection leaks and INIT comes first, whatever  *)
(* a reconnect and Close interleave with.                                  *)
(***************************************************************************)
EXTENDS EnhConnection, FiniteSetTheorems, TLAPS

-----------------------------------------------------------------------------
(* The inductive invariant.                                                *)

ReconnectPcs == {"check", "dial", "dialed", "lockSwap", "swap", "initSend", "initRecv"}

\* Which operation is where.
OpInv ==
  \A p \in Callers :
    /\ pc[p] = "lockRead" => op[p] \in {"Read", "Start", "Info", "Reconnect"}
    /\ pc[p] \in {"lockWrite", "write"} => op[p] \in {"Start", "Info", "Write"}
    /\ pc[p] = "read" => op[p] \in {"Read", "Start", "Info"}
    /\ pc[p] \in ReconnectPcs => op[p] \in {"Read", "Start", "Reconnect"}
    /\ pc[p] = "lockConn" => op[p] \in {"Read", "Start", "Reconnect", "Close"}
    /\ pc[p] \in {"snapshot", "close"} => op[p] = "Close"

\* Where a caller is about to swap connections.
Swapping(p) == pc[p] = "lockConn" /\ op[p] # "Close"

ReadHeld(p)  == pc[p] \in ReconnectPcs \cup {"read"} \/ Swapping(p) \/ (pc[p] \in {"lockWrite", "write"} /\ op[p] # "Write")
WriteHeld(p) == pc[p] \in {"write", "swap", "initSend"} \/ Swapping(p) \/ (pc[p] = "read" /\ op[p] = "Info")
ConnHeld(p)  == pc[p] \in {"swap", "snapshot"}

\* Each mutex is held exactly by the caller whose place says so.
LockInv ==
  \A p \in Callers : (readMu = p <=> ReadHeld(p)) /\ (writeMu = p <=> WriteHeld(p)) /\ (connMu = p <=> ConnHeld(p))

\* Connections are numbered in the order of their dials.
DialInv ==
  /\ conn <= dialed /\ open \subseteq 1 .. dialed /\ inited \subseteq 1 .. dialed
  /\ \A p \in Callers : snapshot[p] <= dialed

\* A caller has a connection of its own, from its dial to the swap.
FreshHeld(p) == pc[p] \in {"dialed", "lockSwap", "swap"} \/ Swapping(p)

\* It is open, it is nobody else's and nothing has been sent on it.
FreshInv ==
  \A p \in Callers : FreshHeld(p) =>
    /\ fresh[p] \in open /\ fresh[p] # conn /\ fresh[p] \notin inited
    /\ \A q \in Callers : snapshot[q] # fresh[p]

\* Only t.conn and such a connection are open.
OpenInv == \A c \in open : c = conn \/ \E p \in Callers : FreshHeld(p) /\ c = fresh[p]

\* If a closed transport's connection is still open, some Close is about to close it.
CloserInv ==
  closed /\ conn \in open =>
    \E p \in Callers : \/ op[p] = "Close" /\ pc[p] \in {"lockConn", "snapshot"}
                       \/ pc[p] = "close" /\ snapshot[p] = conn

\* INIT has been sent on t.conn, or the caller that is to send it holds writeMu.
ReadyInv == conn \in open => conn \in inited \/ \E p \in Callers : pc[p] = "initSend"

ConnectionInv == TypeOK /\ OpInv /\ LockInv /\ DialInv /\ FreshInv /\ OpenInv /\ CloserInv /\ ReadyInv

-----------------------------------------------------------------------------
(* The steps.                                                              *)

\* A step of one caller.
Step(p) ==
  \/ \E o \in Operations \ {"Close"} : Begin(p, o)
  \/ LockRead(p) \/ LockWrite(p) \/ LockConn(p)
  \/ Written(p) \/ Answered(p) \/ Failed(p) \/ Resetted(p)
  \/ Check(p) \/ Dial(p) \/ DialFails(p) \/ Dialed(p) \/ Swap(p)
  \/ InitSend(p) \/ InitSendFails(p) \/ InitRecv(p)
  \/ Close(p) \/ CloseSnapshot(p) \/ CloseConn(p)

\* The deferred unlocks keep the types.
LEMMA ReturnType ==
  ASSUME TypeOK, NEW p \in Callers, Return(p)
  PROVE  /\ {readMu', writeMu', connMu'} \subseteq Callers \cup {NoCaller}
         /\ pc' \in [Callers -> Pcs]
         /\ fresh' \in [Callers -> Connections \cup {0}]
  BY DEF TypeOK, Return, Goto, Unlock, Pcs

\* The caller with a connection of its own holds readMu, so that there is one.
LEMMA OneFresh ==
  ASSUME LockInv, NEW p \in Callers, NEW q \in Callers, FreshHeld(p), FreshHeld(q)
  PROVE  p = q
  BY DEF LockInv, FreshHeld, ReadHeld, ReconnectPcs

\* Every step keeps the types.
LEMMA TypeStep ==
  ASSUME TypeOK, OpInv, FreshInv, [Next]_vars
  PROVE  TypeOK'
<1> USE NoCallerAssumption, MaxConnectionsAssumption
<1> USE DEF TypeOK, OpInv, Pcs, Operations, Connections
<1>0. CASE UNCHANGED vars
  BY <1>0 DEF vars, locks, conns
<1> SUFFICES ASSUME NEW p \in Callers, Step(p) PROVE TypeOK'
  BY <1>0 DEF Next, Step, Acquire, Proceed
<1>1. CASE \E o \in Operations \ {"Close"} : Begin(p, o)
  BY <1>1 DEF Begin, Goto, locks, conns
<1>2. CASE LockRead(p)
  BY <1>2 DEF LockRead, Goto, conns
<1>3. CASE LockWrite(p)
  BY <1>3 DEF LockWrite, Goto, conns
<1>4. CASE LockConn(p)
  BY <1>4 DEF LockConn, Goto, conns
<1>5. CASE Written(p)
  BY <1>5 DEF Written, Goto, conns
<1>6. CASE Answered(p) \/ Failed(p) \/ DialFails(p) \/ InitRecv(p)
  <2>1. /\ Return(p)
        /\ closed' = closed /\ op' = op /\ snapshot' = snapshot
        /\ conn' = conn /\ dialed' = dialed /\ inited' = inited
        /\ open' \subseteq open
    BY <1>6 DEF Answered, Failed, DialFails, InitRecv, conns
  <2> QED
    BY <2>1, ReturnType
<1>7. CASE Resetted(p)
  BY <1>7 DEF Resetted, Goto, locks, conns
<1>8. CASE Check(p)
  <2>1. CASE closed
    BY <1>8, <2>1, ReturnType DEF Check, conns
  <2>2. CASE ~closed
    BY <1>8, <2>2 DEF Check, Goto, Pcs, conns, locks
  <2> QED
    BY <2>1, <2>2
<1>9. CASE Dial(p)
  BY <1>9 DEF Dial, Goto, locks
<1>10. CASE Dialed(p)
  <2>1. CASE closed
    BY <1>10, <2>1, ReturnType DEF Dialed
  <2>2. CASE ~closed
    BY <1>10, <2>2 DEF Dialed, Goto, Pcs, locks
  <2> QED
    BY <2>1, <2>2
<1>11. CASE Swap(p)
  <2>1. CASE closed
    BY <1>11, <2>1, ReturnType DEF Swap
  <2>2. CASE ~closed
    <3>1. fresh[p] \in Connections
      BY <1>11 DEF Swap, FreshInv, FreshHeld
    <3> QED
      BY <1>11, <2>2, <3>1 DEF Swap, Goto, Pcs
  <2> QED
    BY <2>1, <2>2
<1>12. CASE InitSend(p)
  BY <1>12 DEF InitSend, Goto
<1>13. CASE InitSendFails(p)
  <2>1. /\ Return(p)
        /\ closed' = closed /\ op' = op /\ snapshot' = snapshot
        /\ conn' = conn /\ dialed' = dialed /\ inited' = inited
        /\ open' \subseteq open
    BY <1>13 DEF InitSendFails, conns
  <2> QED
    BY <2>1, ReturnType
<1>14. CASE Close(p)
  BY <1>14 DEF Close, Goto, locks, conns
<1>15. CASE CloseSnapshot(p)
  BY <1>15 DEF CloseSnapshot, Goto, conns
<1>16. CASE CloseConn(p)
  <2>1. /\ Return(p)
        /\ closed' = closed /\ op' = op /\ snapshot' = snapshot
        /\ conn' = conn /\ dialed' = dialed /\ inited' = inited
        /\ open' \subseteq open
    BY <1>16 DEF CloseConn, conns
  <2> QED
    BY <2>1, ReturnType
<1> QED
  BY <1>1, <1>2, <1>3, <1>4, <1>5, <1>6, <1>7, <1>8, <1>9, <1>10, <1>11, <1>12, <1>13, <1>14, <1>15, <1>16 DEF Step

\* Every step keeps each operation on its path.
LEMMA OpStep ==
  ASSUME TypeOK, OpInv, [Next]_vars
  PROVE  OpInv'
<1> USE DEF TypeOK, OpInv, ReconnectPcs, Operations
<1>0. CASE UNCHANGED vars
  BY <1>0 DEF vars, locks, conns
<1> SUFFICES ASSUME NEW p \in Callers, Step(p) PROVE OpInv'
  BY <1>0 DEF Next, Step, Acquire, Proceed
<1>1. CASE \E o \in Operations \ {"Close"} : Begin(p, o)
  BY <1>1 DEF Begin, Goto, locks, conns
<1>2. CASE LockRead(p)
  BY <1>2 DEF LockRead, Goto, conns
<1>3. CASE LockWrite(p)
  BY <1>3 DEF LockWrite, Goto, conns
<1>4. CASE LockConn(p)
  BY <1>4 DEF LockConn, Goto, conns
<1>5. CASE Written(p)
  BY <1>5 DEF Written, Goto, conns
<1>6. CASE Answered(p) \/ Failed(p) \/ DialFails(p) \/ InitRecv(p)
  BY <1>6 DEF Answered, Failed, DialFails, InitRecv, Return, Goto, Unlock, conns
<1>7. CASE Resetted(p)
  BY <1>7 DEF Resetted, Goto, locks, conns
<1>8. CASE Check(p)
  BY <1>8 DEF Check, Return, Goto, Unlock, locks, conns
<1>9. CASE Dial(p)
  BY <1>9 DEF Dial, Goto, locks
<1>10. CASE Dialed(p)
  BY <1>10 DEF Dialed, Return, Goto, Unlock, locks
<1>11. CASE Swap(p)
  BY <1>11 DEF Swap, Return, Goto, Unlock
<1>12. CASE InitSend(p)
  BY <1>12 DEF InitSend, Goto
<1>13. CASE InitSendFails(p)
  BY <1>13 DEF InitSendFails, Return, Goto, Unlock
<1>14. CASE Close(p)
  BY <1>14 DEF Close, Goto, locks, conns
<1>15. CASE CloseSnapshot(p)
  BY <1>15 DEF CloseSnapshot, Goto, conns
<1>16. CASE CloseConn(p)
  BY <1>16 DEF CloseConn, Return, Goto, Unlock
<1> QED
  BY <1>1, <1>2, <1>3, <1>4, <1>5, <1>6, <1>7, <1>8, <1>9, <1>10, <1>11, <1>12, <1>13, <1>14, <1>15, <1>16 DEF Step

\* Every step keeps the locks with the callers that hold them.
LEMMA LockStep ==
  ASSUME TypeOK, OpInv, LockInv, [Next]_vars
  PROVE  LockInv'
<1> USE NoCallerAssumption
<1> USE DEF TypeOK, OpInv, LockInv, ReadHeld, WriteHeld, ConnHeld, Swapping, ReconnectPcs, Operations
<1>0. CASE UNCHANGED vars
  BY <1>0 DEF vars, locks, conns
<1> SUFFICES ASSUME NEW p \in Callers, Step(p) PROVE LockInv'
  BY <1>0 DEF Next, Step, Acquire, Proceed
<1>1. CASE \E o \in Operations \ {"Close"} : Begin(p, o)
  BY <1>1 DEF Begin, Goto, locks, conns
<1>2. CASE LockRead(p)
  BY <1>2 DEF LockRead, Goto, conns
<1>3. CASE LockWrite(p)
  BY <1>3 DEF LockWrite, Goto, conns
<1>4. CASE LockConn(p)
  BY <1>4 DEF LockConn, Goto, conns
<1>5. CASE Written(p)
  BY <1>5 DEF Written, Goto, conns
<1>6. CASE Answered(p) \/ Failed(p) \/ DialFails(p) \/ InitRecv(p)
  BY <1>6 DEF Answered, Failed, DialFails, InitRecv, Return, Goto, Unlock, conns
<1>7. CASE Resetted(p)
  BY <1>7 DEF Resetted, Goto, locks, conns
<1>8. CASE Check(p)
  BY <1>8 DEF Check, Return, Goto, Unlock, locks, conns
<1>9. CASE Dial(p)
  BY <1>9 DEF Dial, Goto, locks
<1>10. CASE Dialed(p)
  BY <1>10 DEF Dialed, Return, Goto, Unlock, locks
<1>11. CASE Swap(p)
  BY <1>11 DEF Swap, Return, Goto, Unlock
<1>12. CASE InitSend(p)
  BY <1>12 DEF InitSend, Goto
<1>13. CASE InitSendFails(p)
  BY <1>13 DEF InitSendFails, Return, Goto, Unlock
<1>14. CASE Close(p)
  BY <1>14 DEF Close, Goto, locks, conns
<1>15. CASE CloseSnapshot(p)
  BY <1>15 DEF CloseSnapshot, Goto, conns
<1>16. CASE CloseConn(p)
  BY <1>16 DEF CloseConn, Return, Goto, Unlock
<1> QED
  BY <1>1, <1>2, <1>3, <1>4, <1>5, <1>6, <1>7, <1>8, <1>9, <1>10, <1>11, <1>12, <1>13, <1>14, <1>15, <1>16 DEF Step

\* Every step keeps the numbering.
LEMMA DialStep ==
  ASSUME TypeOK, DialInv, FreshInv, [Next]_vars
  PROVE  DialInv'
<1> USE MaxConnectionsAssumption
<1> USE DEF TypeOK, DialInv, Connections
<1>0. CASE UNCHANGED vars
  BY <1>0 DEF vars, locks, conns
<1> SUFFICES ASSUME NEW p \in Callers, Step(p) PROVE DialInv'
  BY <1>0 DEF Next, Step, Acquire, Proceed
<1>1. CASE \E o \in Operations \ {"Close"} : Begin(p, o)
  BY <1>1 DEF Begin, Goto, locks, conns
<1>2. CASE LockRead(p)
  BY <1>2 DEF LockRead, Goto, conns
<1>3. CASE LockWrite(p)
  BY <1>3 DEF LockWrite, Goto, conns
<1>4. CASE LockConn(p)
  BY <1>4 DEF LockConn, Goto, conns
<1>5. CASE Written(p)
  BY <1>5 DEF Written, Goto, conns
<1>6. CASE Answered(p) \/ Failed(p) \/ DialFails(p) \/ InitRecv(p)
  BY <1>6 DEF Answered, Failed, DialFails, InitRecv, Return, Goto, Unlock, conns
<1>7. CASE Resetted(p)
  BY <1>7 DEF Resetted, Goto, locks, conns
<1>8. CASE Check(p)
  BY <1>8 DEF Check, Return, Goto, Unlock, locks, conns
<1>9. CASE Dial(p)
  BY <1>9 DEF Dial, Goto, locks
<1>10. CASE Dialed(p)
  BY <1>10 DEF Dialed, Return, Goto, Unlock, locks
<1>11. CASE Swap(p)
  <2>1. fresh[p] \in open
    BY <1>11 DEF Swap, FreshInv, FreshHeld
  <2>2. conn' \in {conn, fresh[p]} /\ open' \subseteq open /\ UNCHANGED <<dialed, inited, snapshot>>
    BY <1>11 DEF Swap
  <2> QED
    BY <2>1, <2>2
<1>12. CASE InitSend(p)
  BY <1>12 DEF InitSend, Goto
<1>13. CASE InitSendFails(p)
  BY <1>13 DEF InitSendFails, Return, Goto, Unlock
<1>14. CASE Close(p)
  BY <1>14 DEF Close, Goto, locks, conns
<1>15. CASE CloseSnapshot(p)
  BY <1>15 DEF CloseSnapshot, Goto, conns
<1>16. CASE CloseConn(p)
  BY <1>16 DEF CloseConn, Return, Goto, Unlock
<1> QED
  BY <1>1, <1>2, <1>3, <1>4, <1>5, <1>6, <1>7, <1>8, <1>9, <1>10, <1>11, <1>12, <1>13, <1>14, <1>15, <1>16 DEF Step

\* A connection that is dialled stays its caller's own until the swap.
LEMMA FreshStep ==
  ASSUME TypeOK, OpInv, LockInv, DialInv, FreshInv, [Next]_vars
  PROVE  FreshInv'
<1> USE DEF TypeOK, FreshInv, FreshHeld, Swapping
<1>0. CASE UNCHANGED vars
  BY <1>0 DEF vars, locks, conns
<1> SUFFICES ASSUME NEW p \in Callers, Step(p) PROVE FreshInv'
  BY <1>0 DEF Next, Step, Acquire, Proceed
<1>1. CASE \E o \in Operations \ {"Close"} : Begin(p, o)
  BY <1>1 DEF Begin, Goto, locks, conns
<1>2. CASE LockRead(p)
  <2>1. pc[p] = "lockRead" /\ \E x \in {"read", "lockWrite", "check"} : pc' = [pc EXCEPT ![p] = x]
    BY <1>2 DEF LockRead, Goto, OpInv
  <2>2. UNCHANGED <<conns, op, fresh, snapshot>>
    BY <1>2 DEF LockRead
  <2> QED
    BY <2>1, <2>2 DEF conns
<1>3. CASE LockWrite(p)
  BY <1>3 DEF LockWrite, Goto, conns
<1>4. CASE LockConn(p)
  BY <1>4 DEF LockConn, Goto, conns
<1>5. CASE Written(p)
  BY <1>5 DEF Written, Goto, conns
<1>6. CASE Answered(p) \/ Failed(p) \/ DialFails(p) \/ InitRecv(p)
  BY <1>6 DEF Answered, Failed, DialFails, InitRecv, Return, Goto, Unlock, conns
<1>7. CASE Resetted(p)
  BY <1>7 DEF Resetted, Goto, locks, conns
<1>8. CASE Check(p)
  BY <1>8 DEF Check, Return, Goto, Unlock, locks, conns
<1>9. CASE Dial(p)
  <2>1. pc[p] = "dial" /\ dialed \in Nat /\ dialed' = dialed + 1 /\ open' = open \cup {dialed + 1}
        /\ fresh' = [fresh EXCEPT ![p] = dialed + 1] /\ pc' = [pc EXCEPT ![p] = "dialed"]
        /\ UNCHANGED <<conn, inited, op, snapshot>>
    BY <1>9 DEF Dial, Goto, Connections
  <2>2. conn # dialed + 1 /\ dialed + 1 \notin inited /\ \A q \in Callers : snapshot[q] # dialed + 1
    BY <2>1 DEF DialInv, Connections
  <2> QED
    BY <2>1, <2>2
<1>10. CASE Dialed(p)
  <2>1. FreshHeld(p)
    BY <1>10 DEF Dialed
  <2>2. \A q \in Callers \ {p} : ~FreshHeld(q)
    BY <2>1, OneFresh
  <2> QED
    BY <1>10, <2>2 DEF Dialed, Return, Goto, locks
<1>11. CASE Swap(p)
  <2>1. FreshHeld(p)
    BY <1>11 DEF Swap
  <2>2. \A q \in Callers \ {p} : ~FreshHeld(q)
    BY <2>1, OneFresh
  <2> QED
    BY <1>11, <2>2 DEF Swap, Return, Goto
<1>12. CASE InitSend(p)
  BY <1>12 DEF InitSend, Goto
<1>13. CASE InitSendFails(p)
  BY <1>13 DEF InitSendFails, Return, Goto, Unlock
<1>14. CASE Close(p)
  BY <1>14 DEF Close, Goto, locks, conns
<1>15. CASE CloseSnapshot(p)
  BY <1>15 DEF CloseSnapshot, Goto, conns
<1>16. CASE CloseConn(p)
  BY <1>16 DEF CloseConn, Return, Goto, Unlock
<1> QED
  BY <1>1, <1>2, <1>3, <1>4, <1>5, <1>6, <1>7, <1>8, <1>9, <1>10, <1>11, <1>12, <1>13, <1>14, <1>15, <1>16 DEF Step

\* No other connection is left open.
LEMMA OpenStep ==
  ASSUME TypeOK, OpInv, LockInv, FreshInv, OpenInv, [Next]_vars
  PROVE  OpenInv'
<1> USE DEF TypeOK, OpenInv, FreshHeld, Swapping
<1>0. CASE UNCHANGED vars
  BY <1>0 DEF vars, locks, conns
<1> SUFFICES ASSUME NEW p \in Callers, Step(p) PROVE OpenInv'
  BY <1>0 DEF Next, Step, Acquire, Proceed
<1>1. CASE \E o \in Operations \ {"Close"} : Begin(p, o)
  BY <1>1 DEF Begin, Goto, locks, conns
<1>2. CASE LockRead(p)
  BY <1>2 DEF LockRead, Goto, conns
<1>3. CASE LockWrite(p)
  <2>1. pc[p] = "lockSwap" => op[p] # "Close"
    BY DEF OpInv, ReconnectPcs
  <2> QED
    BY <1>3, <2>1 DEF LockWrite, Goto, conns
<1>4. CASE LockConn(p)
  BY <1>4 DEF LockConn, Goto, conns
<1>5. CASE Written(p)
  BY <1>5 DEF Written, Goto, conns
<1>6. CASE Answered(p) \/ Failed(p) \/ DialFails(p) \/ InitRecv(p)
  BY <1>6 DEF Answered, Failed, DialFails, InitRecv, Return, Goto, Unlock, conns
<1>7. CASE Resetted(p)
  BY <1>7 DEF Resetted, Goto, locks, conns
<1>8. CASE Check(p)
  BY <1>8 DEF Check, Return, Goto, Unlock, locks, conns
<1>9. CASE Dial(p)
  <2>1. /\ pc[p] = "dial" /\ open' = open \cup {dialed'} /\ fresh' = [fresh EXCEPT ![p] = dialed']
        /\ pc' = [pc EXCEPT ![p] = "dialed"] /\ UNCHANGED <<conn, op>>
    BY <1>9 DEF Dial, Goto
  <2>2. \A q \in Callers : FreshHeld(q) => q # p
    BY <2>1
  <2> QED
    BY <2>1, <2>2
<1>10. CASE Dialed(p)
  <2>1. \A q \in Callers : FreshHeld(q) => q = p
    BY <1>10, OneFresh DEF Dialed
  <2> QED
    BY <1>10, <2>1 DEF Dialed, Return, Goto, locks
<1>11. CASE Swap(p)
  <2>1. \A q \in Callers : FreshHeld(q) => q = p
    BY <1>11, OneFresh DEF Swap
  <2> QED
    BY <1>11, <2>1 DEF Swap, Return, Goto
<1>12. CASE InitSend(p)
  BY <1>12 DEF InitSend, Goto
<1>13. CASE InitSendFails(p)
  BY <1>13 DEF InitSendFails, Return, Goto, Unlock
<1>14. CASE Close(p)
  BY <1>14 DEF Close, Goto, locks, conns
<1>15. CASE CloseSnapshot(p)
  BY <1>15 DEF CloseSnapshot, Goto, conns
<1>16. CASE CloseConn(p)
  BY <1>16 DEF CloseConn, Return, Goto, Unlock
<1> QED
  BY <1>1, <1>2, <1>3, <1>4, <1>5, <1>6, <1>7, <1>8, <1>9, <1>10, <1>11, <1>12, <1>13, <1>14, <1>15, <1>16 DEF Step

\* A closed transport keeps the Close that will close its connection.
LEMMA CloserStep ==
  ASSUME TypeOK, OpInv, DialInv, FreshInv, CloserInv, [Next]_vars
  PROVE  CloserInv'
<1> USE DEF TypeOK, CloserInv
<1>0. CASE UNCHANGED vars
  BY <1>0 DEF vars, locks, conns
<1> SUFFICES ASSUME NEW p \in Callers, Step(p) PROVE CloserInv'
  BY <1>0 DEF Next, Step, Acquire, Proceed
<1>1. CASE \E o \in Operations \ {"Close"} : Begin(p, o)
  BY <1>1 DEF Begin, Goto, locks, conns
<1>2. CASE LockRead(p)
  BY <1>2 DEF LockRead, Goto, conns
<1>3. CASE LockWrite(p)
  BY <1>3 DEF LockWrite, Goto, conns
<1>4. CASE LockConn(p)
  BY <1>4 DEF LockConn, Goto, conns
<1>5. CASE Written(p)
  BY <1>5 DEF Written, Goto, conns
<1>6. CASE Answered(p) \/ Failed(p) \/ DialFails(p) \/ InitRecv(p)
  <2>1. pc[p] \in {"read", "write", "dial", "initRecv"} /\ pc' = [pc EXCEPT ![p] = "idle"]
    BY <1>6 DEF Answered, Failed, DialFails, InitRecv, Return, Goto
  <2>2. UNCHANGED <<closed, conns, op, snapshot>>
    BY <1>6 DEF Answered, Failed, DialFails, InitRecv
  <2> QED
    BY <2>1, <2>2 DEF conns
<1>7. CASE Resetted(p)
  BY <1>7 DEF Resetted, Goto, locks, conns
<1>8. CASE Check(p)
  BY <1>8 DEF Check, Return, Goto, Unlock, locks, conns
<1>9. CASE Dial(p)
  <2>1. conn # dialed' /\ open' = open \cup {dialed'} /\ UNCHANGED <<closed, conn, op, snapshot>>
        /\ pc[p] = "dial" /\ pc' = [pc EXCEPT ![p] = "dialed"]
    BY <1>9 DEF Dial, Goto, DialInv, Connections
  <2> QED
    BY <2>1
<1>10. CASE Dialed(p)
  BY <1>10 DEF Dialed, Return, Goto, Unlock, locks
<1>11. CASE Swap(p)
  BY <1>11 DEF Swap, Return, Goto, Unlock
<1>12. CASE InitSend(p)
  BY <1>12 DEF InitSend, Goto
<1>13. CASE InitSendFails(p)
  BY <1>13 DEF InitSendFails, Return, Goto, Unlock
<1>14. CASE Close(p)
  BY <1>14 DEF Close, Goto, locks, conns
<1>15. CASE CloseSnapshot(p)
  BY <1>15 DEF CloseSnapshot, Goto, conns
<1>16. CASE CloseConn(p)
  BY <1>16 DEF CloseConn, Return, Goto, Unlock
<1> QED
  BY <1>1, <1>2, <1>3, <1>4, <1>5, <1>6, <1>7, <1>8, <1>9, <1>10, <1>11, <1>12, <1>13, <1>14, <1>15, <1>16 DEF Step

\* INIT stays the first thing sent on t.conn.
LEMMA ReadyStep ==
  ASSUME TypeOK, LockInv, DialInv, FreshInv, ReadyInv, [Next]_vars
  PROVE  ReadyInv'
<1> USE DEF TypeOK, ReadyInv
<1>0. CASE UNCHANGED vars
  BY <1>0 DEF vars, locks, conns
<1> SUFFICES ASSUME NEW p \in Callers, Step(p) PROVE ReadyInv'
  BY <1>0 DEF Next, Step, Acquire, Proceed
<1>1. CASE \E o \in Operations \ {"Close"} : Begin(p, o)
  BY <1>1 DEF Begin, Goto, locks, conns
<1>2. CASE LockRead(p)
  BY <1>2 DEF LockRead, Goto, conns
<1>3. CASE LockWrite(p)
  BY <1>3 DEF LockWrite, Goto, conns
<1>4. CASE LockConn(p)
  BY <1>4 DEF LockConn, Goto, conns
<1>5. CASE Written(p)
  BY <1>5 DEF Written, Goto, conns
<1>6. CASE Answered(p) \/ Failed(p) \/ DialFails(p) \/ InitRecv(p)
  BY <1>6 DEF Answered, Failed, DialFails, InitRecv, Return, Goto, Unlock, conns
<1>7. CASE Resetted(p)
  BY <1>7 DEF Resetted, Goto, locks, conns
<1>8. CASE Check(p)
  BY <1>8 DEF Check, Return, Goto, Unlock, locks, conns
<1>9. CASE Dial(p)
  <2>1. conn # dialed' /\ open' = open \cup {dialed'} /\ UNCHANGED <<conn, inited>>
        /\ pc[p] = "dial" /\ pc' = [pc EXCEPT ![p] = "dialed"]
    BY <1>9 DEF Dial, Goto, DialInv, Connections
  <2> QED
    BY <2>1
<1>10. CASE Dialed(p)
  BY <1>10 DEF Dialed, Return, Goto, Unlock, locks
<1>11. CASE Swap(p)
  BY <1>11 DEF Swap, Return, Goto, Unlock
<1>12. CASE InitSend(p)
  BY <1>12 DEF InitSend, Goto
<1>13. CASE InitSendFails(p)
  BY <1>13 DEF InitSendFails, Return, Goto, Unlock
<1>14. CASE Close(p)
  BY <1>14 DEF Close, Goto, locks, conns
<1>15. CASE CloseSnapshot(p)
  BY <1>15 DEF CloseSnapshot, Goto, conns
<1>16. CASE CloseConn(p)
  BY <1>16 DEF CloseConn, Return, Goto, Unlock
<1> QED
  BY <1>1, <1>2, <1>3, <1>4, <1>5, <1>6, <1>7, <1>8, <1>9, <1>10, <1>11, <1>12, <1>13, <1>14, <1>15, <1>16 DEF Step

LEMMA ConnectionInit == Init => ConnectionInv
<1> SUFFICES ASSUME Init PROVE ConnectionInv
  OBVIOUS
<1>1. TypeOK
  <2>1. 1 \in Connections
    BY MaxConnectionsAssumption DEF Connections
  <2> QED
    BY <2>1 DEF Init, TypeOK, Pcs, Operations
<1>2. OpInv /\ LockInv
  BY NoCallerAssumption DEF Init, OpInv, LockInv, ReadHeld, WriteHeld, ConnHeld, Swapping, ReconnectPcs
<1>3. DialInv /\ FreshInv /\ OpenInv /\ CloserInv /\ ReadyInv
  BY DEF Init, DialInv, FreshInv, FreshHeld, Swapping, OpenInv, CloserInv, ReadyInv
<1> QED
  BY <1>1, <1>2, <1>3 DEF ConnectionInv

LEMMA ConnectionInvHolds == Spec => []ConnectionInv
<1>1. ConnectionInv /\ [Next]_vars => ConnectionInv'
  BY TypeStep, OpStep, LockStep, DialStep, FreshStep, OpenStep, CloserStep, ReadyStep DEF ConnectionInv
<1> QED
  BY <1>1, ConnectionInit, PTL DEF Spec

-----------------------------------------------------------------------------
(* The theorems.                                                           *)

\* However many operations reconnect and whenever Close runs, the connection of
\* reconnectLocked and the one it replaces are the only two ever open together,
\* and a closed transport whose calls have returned leaves none open.
THEOREM NoConnectionLeaks == Spec => []NoLeak
<1>1. ConnectionInv => ClosedForGood
  <2> SUFFICES ASSUME ConnectionInv, closed, \A p \in Callers : pc[p] = "idle" PROVE open = {}
    BY DEF ClosedForGood
  <2>1. \A p \in Callers : ~FreshHeld(p)
    BY DEF FreshHeld, Swapping
  <2>2. conn \notin open
    BY DEF ConnectionInv, CloserInv
  <2> QED
    BY <2>1, <2>2 DEF ConnectionInv, OpenInv
<1>2. ConnectionInv => OneConnection
  <2> SUFFICES ASSUME ConnectionInv, Cardinality(open) > 1
               PROVE  \E p \in Callers : pc[p] \in {"dialed", "lockSwap", "lockConn", "swap"}
                                         /\ readMu = p /\ open = {conn, fresh[p]}
    BY DEF OneConnection
  <2>1. ASSUME NEW x, open \subseteq {x} PROVE FALSE
    <3>1. IsFiniteSet({x}) /\ Cardinality({x}) = 1
      BY FS_Singleton
    <3>2. IsFiniteSet(open) /\ Cardinality(open) <= 1
      BY <2>1, <3>1, FS_Subset
    <3>3. Cardinality(open) \in Nat
      BY <3>2, FS_CardinalityType
    <3> QED
      BY <3>2, <3>3
  <2>2. PICK p \in Callers : FreshHeld(p)
    BY <2>1 DEF ConnectionInv, OpenInv
  <2>3. \A q \in Callers : FreshHeld(q) => q = p
    BY <2>2, OneFresh DEF ConnectionInv
  <2>4. open \subseteq {conn, fresh[p]}
    BY <2>3 DEF ConnectionInv, OpenInv
  <2>5. open = {conn, fresh[p]}
    BY <2>1, <2>4
  <2>6. readMu = p
    BY <2>2 DEF ConnectionInv, LockInv, FreshHeld, ReadHeld, ReconnectPcs
  <2> QED
    BY <2>2, <2>5, <2>6 DEF FreshHeld, Swapping
<1>3. ConnectionInv => NoLeak
  BY <1>1, <1>2 DEF ConnectionInv, NoLeak
<1> QED
  BY <1>3, ConnectionInvHolds, PTL

\* No read or write of another operation comes between the swap of t.conn and the
\* INIT that reconnectLocked sends on the new connection.
THEOREM InitComesFirst == Spec => []InitFirst
<1>1. ConnectionInv => InitFirst
  <2> SUFFICES ASSUME ConnectionInv, NEW p \in Callers, pc[p] \in {"read", "write"}, conn \in open PROVE conn \in inited
    BY DEF InitFirst
  <2>1. ASSUME NEW q \in Callers, pc[q] = "initSend" PROVE FALSE
    <3>1. readMu = q /\ writeMu = q
      BY <2>1 DEF ConnectionInv, LockInv, ReadHeld, WriteHeld, ReconnectPcs
    <3>2. readMu = p \/ writeMu = p
      BY DEF ConnectionInv, LockInv, ReadHeld, WriteHeld, ReconnectPcs
    <3> QED
      BY <2>1, <3>1, <3>2
  <2> QED
    BY <2>1 DEF ConnectionInv, ReadyInv
<1> QED
  BY <1>1, ConnectionInvHolds, PTL
=============================================================================
