--------------------------- MODULE ProtocolProofs ---------------------------
(***************************************************************************)
(* Machine-checked proofs about BusSend, for any retry budgets: how often  *)
(* a request goes on the bus, and what becomes of a collision recovery;    *)
(* about TelegramFsm, for any lengths and contents: that the machine       *)
(* follows every telegram of the bus; about SourceSelection, for any       *)
(* number of concurrent calls: how often the bus is inquired; and about    *)
(* BusTransaction, for any telegrams and any bytes on the bus: that what   *)
(* is sent and read is a legal exchange, confirmed by its own echoes.      *)
(***************************************************************************)
EXTENDS BusSend, BusTransaction, SourceSelection, TelegramFsm, FiniteSetTheorems, TLAPS

-----------------------------------------------------------------------------
(* The inductive invariants.                                               *)

\* What one session, from a reconnect to the next, may charge.
SessionBudget == TimeoutRetries + NACKRetries + 1

\* The sessions that are over: a reconnect that is under way has not yet begun one.
Sessions == IF pc \in {"reconnectDelay", "reconnect"} THEN reconnectAttempts - 1 ELSE reconnectAttempts

\* Attempts are paid for by earlier sessions or by the budgets of this one.
BudgetInv ==
  /\ pc \in {"reconnectDelay", "reconnect"} => reconnectAttempts >= 1
  /\ attempts <= Sessions * SessionBudget + timeoutAttempts + nackAttempts + 1

\* The arbitration that slipped past the context check was the last.
LateInv ==
  /\ lateStarts <= 1
  /\ lateStarts > 0 => ContextError /\ pc # "arbitrate"

\* The wait for SYN counts no more than the wire carried, for a recovery that is
\* not settled yet; only a collision leads to it.
WaitInv ==
  /\ pc \in {"backoff", "waitForSyn"} => seen <= wireSyns /\ recovery \in {"none", "live"}
  /\ pc \in {"resetDelay", "reconnectDelay", "reconnect"} => lastErr # "collision"

SendInv == TypeOK /\ BudgetInv /\ LateInv /\ WaitInv /\ RecoveryInv

-----------------------------------------------------------------------------
(* Arithmetic of the budgets.                                              *)

LEMMA ProductStep ==
  ASSUME NEW r \in Int, NEW k \in Int
  PROVE  r * k \in Int /\ (r - 1) * k = r * k - k
  OBVIOUS

LEMMA ProductMonotone ==
  ASSUME NEW r \in Nat, NEW s \in Nat, NEW k \in Nat, r <= s
  PROVE  r * k <= s * k /\ (s + 1) * k = s * k + k
  OBVIOUS

-----------------------------------------------------------------------------
(* An attempt that fails.                                                  *)

\* Where a failed attempt goes: a retry is charged to its budget, or is free, or
\* there is a reconnect to try, or the request returns.
LEMMA FailCases ==
  ASSUME TypeOK, NEW err \in Errors, Fail(err)
  PROVE  /\ lastErr' = err
         /\ \/ /\ pc' \in {"backoff", "resetDelay", "top"}
               /\ timeoutAttempts < TimeoutRetries
               /\ timeoutAttempts' = timeoutAttempts + 1 /\ attempts' = attempts + 1
               /\ UNCHANGED <<nackAttempts, reconnectAttempts>>
            \/ /\ pc' = "top"
               /\ nackAttempts < NACKRetries
               /\ nackAttempts' = nackAttempts + 1 /\ attempts' = attempts + 1
               /\ UNCHANGED <<timeoutAttempts, reconnectAttempts>>
            \/ /\ pc' = "backoff"
               /\ UNCHANGED budgets
            \/ /\ pc' = "reconnectDelay"
               /\ reconnectAttempts < ReconnectRetries
               /\ reconnectAttempts' = reconnectAttempts + 1
               /\ UNCHANGED <<timeoutAttempts, nackAttempts, attempts>>
            \/ /\ pc' = "idle"
               /\ UNCHANGED budgets
<1>1. lastErr' = err
  BY DEF Fail
<1>2. CASE err = "collision"
  <2>1. PICK live \in BOOLEAN : Collide(live)
    BY <1>2 DEF Fail
  <2> QED
    BY <1>1, <1>2, <2>1 DEF Collide, ShouldRetry, Charge, Return, TypeOK, budgets
<1>3. CASE err # "collision"
  BY <1>1, <1>3 DEF Fail, ShouldRetry, Charge, TryTransportReconnect, Return, TypeOK, budgets
<1> QED
  BY <1>2, <1>3

\* What it leaves of the recovery and of the wait for SYN.
LEMMA FailRecovery ==
  ASSUME NEW err \in Errors, Fail(err)
  PROVE  \/ /\ err = "collision"
            /\ seen' = 0 /\ wireSyns' = 0 /\ prevWasEscape' \in BOOLEAN /\ held' \in BOOLEAN
            /\ pc' \in {"backoff", "idle"}
            /\ recovery' \in {"none", IF pc' = "idle" THEN "abandon" ELSE "live"}
            /\ recovery' = "live" => held'
         \/ /\ err # "collision"
            /\ UNCHANGED <<seen, prevWasEscape, wireSyns, held, recovery>>
            /\ pc' \in {"top", "resetDelay", "reconnectDelay", "idle"}
<1>1. CASE err = "collision"
  <2>1. PICK live \in BOOLEAN : Collide(live)
    BY <1>1 DEF Fail
  <2> QED
    BY <1>1, <2>1 DEF Collide, Return
<1>2. CASE err # "collision"
  BY <1>2 DEF Fail, Return, synVars, lifecycle
<1> QED
  BY <1>1, <1>2

-----------------------------------------------------------------------------
(* The steps.                                                              *)

\* Every step keeps the types and overdraws no budget.
LEMMA TypeStep ==
  ASSUME TypeOK, [Next]_vars
  PROVE  TypeOK'
<1> USE RetryAssumption
<1> USE DEF TypeOK, Pcs, CollisionRetryResyncSYNCount, config, contexts, budgets, synVars, lifecycle
<1>0. CASE UNCHANGED vars
  BY <1>0 DEF vars
<1>1. CASE Begin
  <2>1. /\ timeoutAttempts' \in 0 .. TimeoutRetries /\ nackAttempts' \in 0 .. NACKRetries
        /\ reconnectAttempts' \in 0 .. ReconnectRetries /\ attempts' \in Nat /\ lateStarts' \in Nat
    BY <1>1 DEF Begin
  <2> QED
    BY <1>1, <2>1 DEF Begin
<1>2. CASE RequestDone
  BY <1>2 DEF RequestDone
<1>3. CASE RunDone
  BY <1>3 DEF RunDone
<1>4. CASE Invalidate
  BY <1>4 DEF Invalidate
<1>5. CASE Top
  BY <1>5 DEF Top, Return
<1>6. CASE StartArbitration
  <2>1. CASE pc' \in {"transact", "idle"} /\ UNCHANGED <<budgets, lastErr, synVars, lifecycle>>
    BY <1>6, <2>1 DEF StartArbitration, Return
  <2>2. CASE \E err \in Errors : Fail(err)
    <3>1. PICK err \in Errors : Fail(err)
      BY <2>2
    <3>2. /\ timeoutAttempts' \in 0 .. TimeoutRetries /\ nackAttempts' \in 0 .. NACKRetries
          /\ reconnectAttempts' \in 0 .. ReconnectRetries /\ attempts' \in Nat /\ lastErr' \in Errors \cup {"none"}
      BY <3>1, FailCases DEF budgets
    <3>3. /\ held' \in BOOLEAN /\ recovery' \in {"none", "live", "retry", "abandon"} /\ pc' \in Pcs
          /\ seen' \in 0 .. CollisionRetryResyncSYNCount /\ wireSyns' \in 0 .. CollisionRetryResyncSYNCount
          /\ prevWasEscape' \in BOOLEAN
      <4>1. CASE err = "collision"
        BY <3>1, <4>1, FailRecovery
      <4>2. CASE err # "collision"
        BY <3>1, <4>2, FailRecovery
      <4> QED
        BY <4>1, <4>2
    <3>4. UNCHANGED <<config, contexts>> /\ lateStarts' \in Nat
      BY <1>6 DEF StartArbitration
    <3> QED
      BY <3>2, <3>3, <3>4
  <2> QED
    BY <1>6, <2>1, <2>2 DEF StartArbitration, Return
<1>7. CASE SendTransaction
  <2>1. CASE pc' \in {"transact", "idle"} /\ UNCHANGED <<budgets, lastErr, synVars, lifecycle>>
    BY <1>7, <2>1 DEF SendTransaction, Return
  <2>2. CASE \E err \in Errors : Fail(err)
    <3>1. PICK err \in Errors : Fail(err)
      BY <2>2
    <3>2. /\ timeoutAttempts' \in 0 .. TimeoutRetries /\ nackAttempts' \in 0 .. NACKRetries
          /\ reconnectAttempts' \in 0 .. ReconnectRetries /\ attempts' \in Nat /\ lastErr' \in Errors \cup {"none"}
      BY <3>1, FailCases DEF budgets
    <3>3. /\ held' \in BOOLEAN /\ recovery' \in {"none", "live", "retry", "abandon"} /\ pc' \in Pcs
          /\ seen' \in 0 .. CollisionRetryResyncSYNCount /\ wireSyns' \in 0 .. CollisionRetryResyncSYNCount
          /\ prevWasEscape' \in BOOLEAN
      <4>1. CASE err = "collision"
        BY <3>1, <4>1, FailRecovery
      <4>2. CASE err # "collision"
        BY <3>1, <4>2, FailRecovery
      <4> QED
        BY <4>1, <4>2
    <3>4. UNCHANGED <<config, contexts>> /\ lateStarts' \in Nat
      BY <1>7 DEF SendTransaction
    <3> QED
      BY <3>2, <3>3, <3>4
  <2> QED
    BY <1>7, <2>1, <2>2 DEF SendTransaction, Return
<1>8. CASE Backoff
  BY <1>8 DEF Backoff
<1>9. CASE BackoffDone
  BY <1>9 DEF BackoffDone, CompleteCollisionRecovery, Return
<1>10. CASE ResetDelay
  BY <1>10 DEF ResetDelay, Return
<1>11. CASE ReconnectDelay
  BY <1>11 DEF ReconnectDelay, Return
<1>12. CASE Reconnect
  BY <1>12 DEF Reconnect
<1>13. CASE WaitForSynError
  BY <1>13 DEF WaitForSynError, CompleteCollisionRecovery, Return
<1>14. CASE WaitForSynIgnored
  BY <1>14 DEF WaitForSynIgnored
<1>15. CASE WaitForSynRead
  <2>1. seen' \in 0 .. CollisionRetryResyncSYNCount /\ wireSyns' \in 0 .. CollisionRetryResyncSYNCount
    BY <1>15 DEF WaitForSynRead
  <2>2. prevWasEscape' \in BOOLEAN
    BY <1>15 DEF WaitForSynRead
  <2>3. held' \in BOOLEAN /\ recovery' \in {"none", "live", "retry", "abandon"} /\ pc' \in Pcs
    BY <1>15 DEF WaitForSynRead, CompleteCollisionRecovery
  <2>4. UNCHANGED <<config, contexts, budgets, lastErr, lateStarts>>
    BY <1>15 DEF WaitForSynRead
  <2> QED
    BY <2>1, <2>2, <2>3, <2>4
<1> QED
  BY <1>0, <1>1, <1>2, <1>3, <1>4, <1>5, <1>6, <1>7, <1>8, <1>9, <1>10, <1>11, <1>12, <1>13, <1>14, <1>15 DEF Next, Step

\* A step that leaves the budgets alone, and leads into no reconnect, keeps BudgetInv.
LEMMA SessionsKept ==
  ASSUME TypeOK, BudgetInv, UNCHANGED budgets, \/ pc' \notin {"reconnectDelay", "reconnect"}
                                               \/ pc \in {"reconnectDelay", "reconnect"}
  PROVE  BudgetInv'
<1>1. SessionBudget \in Nat /\ reconnectAttempts \in Nat
  BY RetryAssumption DEF TypeOK, SessionBudget
<1>2. Sessions \in Int /\ Sessions' \in Int /\ (Sessions' = Sessions \/ Sessions' = Sessions + 1)
  BY <1>1 DEF Sessions, budgets
<1>3. Sessions * SessionBudget <= Sessions' * SessionBudget /\ Sessions * SessionBudget \in Int /\ Sessions' * SessionBudget \in Int
  <2>1. CASE Sessions' = Sessions
    BY <1>1, <1>2, <2>1
  <2>2. CASE Sessions' = Sessions + 1
    <3>1. (Sessions + 1) - 1 = Sessions /\ Sessions + 1 \in Int
      BY <1>2
    <3>2. Sessions * SessionBudget = (Sessions + 1) * SessionBudget - SessionBudget
      BY <1>1, <3>1, ProductStep
    <3> QED
      BY <1>1, <1>2, <2>2, <3>1, <3>2, ProductStep
  <2> QED
    BY <1>2, <2>1, <2>2
<1>4. SessionBudget' = SessionBudget
  BY DEF SessionBudget
<1>5. attempts' <= Sessions' * SessionBudget' + timeoutAttempts' + nackAttempts' + 1
  BY <1>1, <1>3, <1>4 DEF BudgetInv, TypeOK, budgets
<1> QED
  BY <1>5 DEF BudgetInv, TypeOK, budgets

\* A failed attempt is paid for.
LEMMA FailBudget ==
  ASSUME TypeOK, BudgetInv, pc \in {"arbitrate", "transact"}, NEW err \in Errors, Fail(err)
  PROVE  BudgetInv'
<1> DEFINE k == SessionBudget
<1>1. k \in Nat /\ k' = k /\ Sessions = reconnectAttempts /\ reconnectAttempts * k \in Int /\ reconnectAttempts \in Nat
  BY RetryAssumption DEF TypeOK, SessionBudget, Sessions
<1>2. attempts <= reconnectAttempts * k + timeoutAttempts + nackAttempts + 1
  BY <1>1 DEF BudgetInv
<1>3. CASE reconnectAttempts' = reconnectAttempts /\ pc' \notin {"reconnectDelay", "reconnect"}
  <2>1. Sessions' = reconnectAttempts
    BY <1>3 DEF Sessions
  <2>2. attempts' <= reconnectAttempts * k + timeoutAttempts' + nackAttempts' + 1
    <3> HIDE DEF k
    <3> QED
      BY <1>1, <1>2, <1>3, FailCases DEF TypeOK, budgets
  <2> QED
    BY <1>1, <1>3, <2>1, <2>2 DEF BudgetInv
<1>4. CASE pc' = "reconnectDelay" /\ reconnectAttempts' = reconnectAttempts + 1
           /\ UNCHANGED <<timeoutAttempts, nackAttempts, attempts>>
  <2>1. Sessions' = reconnectAttempts /\ reconnectAttempts' >= 1
    BY <1>1, <1>4 DEF Sessions
  <2> QED
    BY <1>1, <1>2, <1>4, <2>1 DEF BudgetInv
<1> QED
  BY <1>3, <1>4, FailCases DEF budgets

\* Every step keeps the attempts paid for.
LEMMA BudgetStep ==
  ASSUME TypeOK, BudgetInv, [Next]_vars
  PROVE  BudgetInv'
<1>0. CASE UNCHANGED vars
  BY <1>0, SessionsKept DEF vars
<1>1. CASE Begin
  <2>1. Sessions' = 0 /\ SessionBudget' \in Nat
    BY <1>1, RetryAssumption DEF Begin, Sessions, SessionBudget
  <2>2. 0 * SessionBudget' = 0
    BY <2>1
  <2> QED
    BY <1>1, <2>1, <2>2 DEF Begin, BudgetInv
<1>2. CASE RequestDone
  BY <1>2, SessionsKept DEF RequestDone
<1>3. CASE RunDone
  BY <1>3, SessionsKept DEF RunDone
<1>4. CASE Invalidate
  BY <1>4, SessionsKept DEF Invalidate
<1>5. CASE Top
  BY <1>5, SessionsKept DEF Top, Return
<1>6. CASE StartArbitration
  <2>1. CASE UNCHANGED budgets /\ pc' \in {"transact", "idle"}
    BY <1>6, <2>1, SessionsKept DEF StartArbitration
  <2>2. CASE \E err \in Errors : Fail(err)
    BY <1>6, <2>2, FailBudget DEF StartArbitration
  <2> QED
    BY <1>6, <2>1, <2>2 DEF StartArbitration, Return
<1>7. CASE SendTransaction
  <2>1. CASE UNCHANGED budgets /\ pc' \in {"transact", "idle"}
    BY <1>7, <2>1, SessionsKept DEF SendTransaction
  <2>2. CASE \E err \in Errors : Fail(err)
    BY <1>7, <2>2, FailBudget DEF SendTransaction
  <2> QED
    BY <1>7, <2>1, <2>2 DEF SendTransaction, Return
<1>8. CASE Backoff
  BY <1>8, SessionsKept DEF Backoff
<1>9. CASE BackoffDone
  BY <1>9, SessionsKept DEF BackoffDone, Return
<1>10. CASE ResetDelay
  BY <1>10, SessionsKept DEF ResetDelay, Return
<1>11. CASE ReconnectDelay
  BY <1>11, SessionsKept DEF ReconnectDelay, Return
<1>12. CASE Reconnect
  <2> DEFINE k == SessionBudget
             r == reconnectAttempts
  <2>1. k \in Nat /\ k' = k /\ r \in Nat /\ Sessions = r - 1 /\ Sessions' = r /\ timeoutAttempts + nackAttempts + 1 <= k /\ k >= 1
    BY <1>12, RetryAssumption DEF Reconnect, SessionBudget, Sessions, TypeOK
  <2>2. r * k \in Int /\ (r - 1) * k = r * k - k
    BY <2>1, ProductStep
  <2>3. attempts <= (r - 1) * k + timeoutAttempts + nackAttempts + 1
    BY <2>1 DEF BudgetInv
  <2> HIDE DEF k, r
  <2>4. attempts' <= r * k + timeoutAttempts' + nackAttempts' + 1
    BY <1>12, <2>1, <2>2, <2>3 DEF Reconnect, TypeOK
  <2>5. pc' = "top"
    BY <1>12 DEF Reconnect
  <2> QED
    BY <2>1, <2>4, <2>5 DEF BudgetInv, k
<1>13. CASE WaitForSynError
  BY <1>13, SessionsKept DEF WaitForSynError, Return
<1>14. CASE WaitForSynIgnored
  BY <1>14, SessionsKept DEF WaitForSynIgnored
<1>15. CASE WaitForSynRead
  BY <1>15, SessionsKept DEF WaitForSynRead
<1> QED
  BY <1>0, <1>1, <1>2, <1>3, <1>4, <1>5, <1>6, <1>7, <1>8, <1>9, <1>10, <1>11, <1>12, <1>13, <1>14, <1>15 DEF Next, Step

\* Every step keeps the late arbitration the only one.
LEMMA LateStep ==
  ASSUME TypeOK, LateInv, [Next]_vars
  PROVE  LateInv'
<1> USE DEF TypeOK, LateInv, ContextError, contexts
<1>0. CASE UNCHANGED vars
  BY <1>0 DEF vars
<1>1. CASE Begin
  BY <1>1 DEF Begin
<1>2. CASE RequestDone
  BY <1>2 DEF RequestDone
<1>3. CASE RunDone
  BY <1>3 DEF RunDone
<1>4. CASE Invalidate
  BY <1>4 DEF Invalidate
<1>5. CASE Top
  BY <1>5 DEF Top, Return
<1>6. CASE StartArbitration
  <2>1. pc' # "arbitrate" /\ UNCHANGED contexts
    <3>1. ASSUME NEW err \in Errors, Fail(err) PROVE pc' # "arbitrate"
      BY <3>1, FailRecovery
    <3> QED
      BY <1>6, <3>1 DEF StartArbitration, Return
  <2> QED
    BY <1>6, <2>1 DEF StartArbitration
<1>7. CASE SendTransaction
  <2>1. pc' # "arbitrate" /\ UNCHANGED contexts
    <3>1. ASSUME NEW err \in Errors, Fail(err) PROVE pc' # "arbitrate"
      BY <3>1, FailRecovery
    <3> QED
      BY <1>7, <3>1 DEF SendTransaction, Return
  <2> QED
    BY <1>7, <2>1 DEF SendTransaction
<1>8. CASE Backoff
  BY <1>8 DEF Backoff
<1>9. CASE BackoffDone
  BY <1>9 DEF BackoffDone, CompleteCollisionRecovery, Return
<1>10. CASE ResetDelay
  BY <1>10 DEF ResetDelay, Return
<1>11. CASE ReconnectDelay
  BY <1>11 DEF ReconnectDelay, Return
<1>12. CASE Reconnect
  BY <1>12 DEF Reconnect
<1>13. CASE WaitForSynError
  BY <1>13 DEF WaitForSynError, CompleteCollisionRecovery, Return
<1>14. CASE WaitForSynIgnored
  BY <1>14 DEF WaitForSynIgnored
<1>15. CASE WaitForSynRead
  BY <1>15 DEF WaitForSynRead, Counts, Symbols, CompleteCollisionRecovery
<1> QED
  BY <1>0, <1>1, <1>2, <1>3, <1>4, <1>5, <1>6, <1>7, <1>8, <1>9, <1>10, <1>11, <1>12, <1>13, <1>14, <1>15 DEF Next, Step

\* Every step keeps what the wait for SYN knows.
LEMMA WaitStep ==
  ASSUME TypeOK, WaitInv, RecoveryInv, [Next]_vars
  PROVE  WaitInv'
<1> USE DEF TypeOK, WaitInv, CollisionRetryResyncSYNCount, synVars, lifecycle
<1>0. CASE UNCHANGED vars
  BY <1>0 DEF vars
<1>1. CASE Begin
  BY <1>1 DEF Begin
<1>2. CASE RequestDone
  BY <1>2 DEF RequestDone
<1>3. CASE RunDone
  BY <1>3 DEF RunDone
<1>4. CASE Invalidate
  BY <1>4 DEF Invalidate
<1>5. CASE Top
  BY <1>5 DEF Top, Return
<1>6. CASE StartArbitration
  <2>1. CASE pc' \in {"transact", "idle"} /\ UNCHANGED <<lastErr, synVars, lifecycle>>
    BY <1>6, <2>1 DEF StartArbitration
  <2>2. CASE \E err \in Errors : Fail(err)
    <3>1. PICK err \in Errors : Fail(err) /\ lastErr' = err
      BY <2>2, FailCases
    <3>2. CASE err = "collision"
      BY <1>6, <3>1, <3>2, FailRecovery
    <3>3. CASE err # "collision"
      BY <1>6, <3>1, <3>3, FailRecovery DEF StartArbitration
    <3> QED
      BY <3>2, <3>3
  <2> QED
    BY <1>6, <2>1, <2>2 DEF StartArbitration, Return
<1>7. CASE SendTransaction
  <2>1. CASE pc' \in {"transact", "idle"} /\ UNCHANGED <<lastErr, synVars, lifecycle>>
    BY <1>7, <2>1 DEF SendTransaction
  <2>2. CASE \E err \in Errors : Fail(err)
    <3>1. PICK err \in Errors : Fail(err) /\ lastErr' = err
      BY <2>2, FailCases
    <3>2. CASE err = "collision"
      BY <1>7, <3>1, <3>2, FailRecovery
    <3>3. CASE err # "collision"
      BY <1>7, <3>1, <3>3, FailRecovery DEF SendTransaction
    <3> QED
      BY <3>2, <3>3
  <2> QED
    BY <1>7, <2>1, <2>2 DEF SendTransaction, Return
<1>8. CASE Backoff
  BY <1>8 DEF Backoff
<1>9. CASE BackoffDone
  BY <1>9 DEF BackoffDone, CompleteCollisionRecovery, Return
<1>10. CASE ResetDelay
  BY <1>10 DEF ResetDelay, Return
<1>11. CASE ReconnectDelay
  BY <1>11 DEF ReconnectDelay, Return
<1>12. CASE Reconnect
  BY <1>12 DEF Reconnect
<1>13. CASE WaitForSynError
  BY <1>13 DEF WaitForSynError, CompleteCollisionRecovery, Return
<1>14. CASE WaitForSynIgnored
  BY <1>14 DEF WaitForSynIgnored
<1>15. CASE WaitForSynRead
  BY <1>15 DEF WaitForSynRead, Counts, Symbols, CompleteCollisionRecovery
<1> QED
  BY <1>0, <1>1, <1>2, <1>3, <1>4, <1>5, <1>6, <1>7, <1>8, <1>9, <1>10, <1>11, <1>12, <1>13, <1>14, <1>15 DEF Next, Step

\* Every step keeps the recovery settled and the new bid on an idle bus.
LEMMA RecoveryStep ==
  ASSUME TypeOK, WaitInv, RecoveryInv, [Next]_vars
  PROVE  RecoveryInv'
<1> USE DEF TypeOK, WaitInv, RecoveryInv, RecoverySettled, RebidOnIdleBus, CollisionRetryResyncSYNCount, synVars, lifecycle
<1>0. CASE UNCHANGED vars
  BY <1>0 DEF vars
<1>1. CASE Begin
  BY <1>1 DEF Begin
<1>2. CASE RequestDone
  BY <1>2 DEF RequestDone
<1>3. CASE RunDone
  BY <1>3 DEF RunDone
<1>4. CASE Invalidate
  BY <1>4 DEF Invalidate
<1>5. CASE Top
  BY <1>5 DEF Top, Return
<1>6. CASE StartArbitration
  <2>1. CASE pc' \in {"transact", "idle"} /\ UNCHANGED <<lastErr, synVars, lifecycle>>
    BY <1>6, <2>1 DEF StartArbitration
  <2>2. CASE \E err \in Errors : Fail(err)
    <3>1. PICK err \in Errors : Fail(err) /\ lastErr' = err
      BY <2>2, FailCases
    <3>2. CASE err = "collision"
      BY <1>6, <3>1, <3>2, FailRecovery
    <3>3. CASE err # "collision"
      BY <1>6, <3>1, <3>3, FailRecovery DEF StartArbitration
    <3> QED
      BY <3>2, <3>3
  <2> QED
    BY <1>6, <2>1, <2>2 DEF StartArbitration, Return
<1>7. CASE SendTransaction
  <2>1. CASE pc' \in {"transact", "idle"} /\ UNCHANGED <<lastErr, synVars, lifecycle>>
    BY <1>7, <2>1 DEF SendTransaction
  <2>2. CASE \E err \in Errors : Fail(err)
    <3>1. PICK err \in Errors : Fail(err) /\ lastErr' = err
      BY <2>2, FailCases
    <3>2. CASE err = "collision"
      BY <1>7, <3>1, <3>2, FailRecovery
    <3>3. CASE err # "collision"
      BY <1>7, <3>1, <3>3, FailRecovery DEF SendTransaction
    <3> QED
      BY <3>2, <3>3
  <2> QED
    BY <1>7, <2>1, <2>2 DEF SendTransaction, Return
<1>8. CASE Backoff
  BY <1>8 DEF Backoff
<1>9. CASE BackoffDone
  BY <1>9 DEF BackoffDone, CompleteCollisionRecovery, Return
<1>10. CASE ResetDelay
  BY <1>10 DEF ResetDelay, Return
<1>11. CASE ReconnectDelay
  BY <1>11 DEF ReconnectDelay, Return
<1>12. CASE Reconnect
  BY <1>12 DEF Reconnect
<1>13. CASE WaitForSynError
  BY <1>13 DEF WaitForSynError, CompleteCollisionRecovery, Return
<1>14. CASE WaitForSynIgnored
  BY <1>14 DEF WaitForSynIgnored
<1>15. CASE WaitForSynRead
  BY <1>15 DEF WaitForSynRead, Counts, Symbols, CompleteCollisionRecovery
<1> QED
  BY <1>0, <1>1, <1>2, <1>3, <1>4, <1>5, <1>6, <1>7, <1>8, <1>9, <1>10, <1>11, <1>12, <1>13, <1>14, <1>15 DEF Next, Step

LEMMA SendInit == Init => SendInv
<1> SUFFICES ASSUME Init PROVE SendInv
  OBVIOUS
<1>1. TypeOK
  <2>1. /\ timeoutAttempts \in 0 .. TimeoutRetries /\ nackAttempts \in 0 .. NACKRetries
        /\ reconnectAttempts \in 0 .. ReconnectRetries /\ attempts \in Nat /\ lateStarts \in Nat
        /\ seen \in 0 .. 2 /\ wireSyns \in 0 .. 2
    BY RetryAssumption DEF Init
  <2> QED
    BY <2>1 DEF Init, TypeOK, Pcs, CollisionRetryResyncSYNCount
<1>2. LateInv /\ WaitInv /\ RecoveryInv
  BY DEF Init, LateInv, WaitInv, RecoveryInv, RecoverySettled, RebidOnIdleBus
<1>3. BudgetInv
  <2>1. Sessions = 0 /\ SessionBudget \in Nat
    BY RetryAssumption DEF Init, Sessions, SessionBudget
  <2>2. 0 * SessionBudget = 0
    BY <2>1
  <2> QED
    BY <2>1, <2>2 DEF Init, BudgetInv
<1> QED
  BY <1>1, <1>2, <1>3 DEF SendInv

LEMMA SendInvHolds == Spec => []SendInv
<1>1. SendInv /\ [Next]_vars => SendInv'
  BY TypeStep, BudgetStep, LateStep, WaitStep, RecoveryStep DEF SendInv
<1> QED
  BY <1>1, SendInit, PTL DEF Spec

-----------------------------------------------------------------------------
(* The theorems.                                                           *)

\* For any budgets, sendWithRetries puts a request on the bus at most as often as
\* they allow, renewed by reconnects or not, and once after its context ended.
THEOREM StartsAreBounded == Spec => []StartsBounded
<1>1. SendInv => AttemptsBounded
  <2> SUFFICES ASSUME SendInv PROVE AttemptsBounded
    OBVIOUS
  <2> DEFINE k == SessionBudget
  <2>1. k \in Nat /\ timeoutAttempts + nackAttempts + 1 <= k /\ timeoutAttempts \in Nat /\ nackAttempts \in Nat
    BY RetryAssumption DEF SendInv, TypeOK, SessionBudget
  <2>2. Sessions \in Nat /\ Sessions <= ReconnectRetries /\ ReconnectRetries \in Nat
    BY RetryAssumption DEF SendInv, TypeOK, BudgetInv, Sessions
  <2>3. attempts \in Nat /\ attempts <= Sessions * k + timeoutAttempts + nackAttempts + 1
    BY DEF SendInv, TypeOK, BudgetInv
  <2> HIDE DEF k
  <2>4. Sessions * k <= ReconnectRetries * k /\ (ReconnectRetries + 1) * k = ReconnectRetries * k + k
    BY <2>1, <2>2, ProductMonotone
  <2>5. Sessions * k \in Int /\ ReconnectRetries * k \in Int
    BY <2>1, <2>2
  <2>6. attempts <= (ReconnectRetries + 1) * k
    BY <2>1, <2>3, <2>4, <2>5
  <2> QED
    BY <2>6 DEF AttemptsBounded, k, SessionBudget
<1>2. SendInv => StartsBounded
  BY <1>1 DEF SendInv, LateInv, StartsBounded, OneStartAfterDone
<1> QED
  BY <1>2, SendInvHolds, PTL

\* On every path out of the backoff and of waitForSyn a live collision recovery is
\* completed, and as a retry only when the wire has carried two SYN symbols.
THEOREM RecoveryIsSettled == Spec => []RecoveryInv
<1>1. SendInv => RecoveryInv
  BY DEF SendInv
<1> QED
  BY <1>1, SendInvHolds, PTL

-----------------------------------------------------------------------------
(* TelegramFsm.  The rest of an exchange, place by place, and the machine  *)
(* at each place.                                                          *)

EndStates == {"WAIT_TERMINATOR_SYN", "ABORTED"}
MasterStates == {"ARBITRATING", "MASTER_RETX", "MASTER_HEADER", "MASTER_DATA", "MASTER_CRC", "WAIT_MASTER_ACK"}
SlaveStates == {"SLAVE_LENGTH", "SLAVE_RETX", "SLAVE_DATA", "SLAVE_CRC", "WAIT_SLAVE_ACK"}
FsmStates == {"IDLE"} \cup MasterStates \cup SlaveStates \cup EndStates

WireSymbols == [byte : 0 .. 255, escaped : BOOLEAN]
Items == [symbol : WireSymbols, phase : FsmStates]

\* Sequences of symbols with their phases, and how they are joined.
Wire == Seq(Items)
Cat(x, y) == x \o y
Then(s, p, rest) == Cat(On(s, p), rest)
Run(n, s, p, rest) == Cat(Many(n, s, p), rest)

\* What follows a frame of the initiator that was repeated a times, and one of the target.
MasterAnswer(t, a) ==
  IF t.dest = BroadcastDestination THEN Completed
  ELSE IF a = 0 THEN Refused(MasterFrame(t, "MASTER_RETX"), t.masterNacks, "WAIT_MASTER_ACK", Response(t))
  ELSE IF t.masterNacks = 1 THEN Then(Plain(ACKByte), "WAIT_MASTER_ACK", Response(t))
  ELSE Then(Plain(NACKByte), "WAIT_MASTER_ACK", Abandoned)
SlaveAnswer(t, a) ==
  IF a = 0 THEN Refused(SlaveFrame(t, "SLAVE_RETX"), t.slaveNacks, "WAIT_SLAVE_ACK", Completed)
  ELSE IF t.slaveNacks = 1 THEN Then(Plain(ACKByte), "WAIT_SLAVE_ACK", Completed)
  ELSE Then(Plain(NACKByte), "WAIT_SLAVE_ACK", Abandoned)

\* A frame from its checksum, from its last n data bytes and from its n-th header byte
\* on, and what follows it.
MasterEnd(t, rest) == Then(t.fill, "MASTER_CRC", rest)
MasterData(t, n, rest) == Run(n, t.fill, "MASTER_DATA", MasterEnd(t, rest))
LengthOn(t, rest) == Then(Plain(t.nn), "MASTER_HEADER", MasterData(t, t.nn, rest))
CommandOn(t, n, rest) == Run(n, t.fill, "MASTER_HEADER", LengthOn(t, rest))
Header(t, rest) == Then(Plain(t.dest), "MASTER_HEADER", CommandOn(t, 2, rest))
SlaveEnd(t, rest) == Then(t.fill, "SLAVE_CRC", rest)
SlaveData(t, n, rest) == Run(n, t.fill, "SLAVE_DATA", SlaveEnd(t, rest))

\* What is due of the telegram t when the machine is m and c is the rest on the wire.
MasterDue(t, m, c) ==
  LET rest == MasterAnswer(t, m.masterRetx)
      at(state) == m.state = state
  IN  /\ at("ARBITRATING") => m.masterRetx = 0 /\ c = Then(Plain(Source), "ARBITRATING", Header(t, rest))
      /\ at("MASTER_RETX") => m.masterRetx = 1 /\ c = Then(Plain(Source), "MASTER_RETX", Header(t, rest))
      /\ at("MASTER_HEADER") =>
           /\ m.consumed \in 1 .. 4
           /\ m.consumed = 1 => c = Header(t, rest)
           /\ m.consumed > 1 => m.masterDest = t.dest /\ c = CommandOn(t, 4 - m.consumed, rest)
      /\ at("MASTER_DATA") =>
           /\ m.masterDest = t.dest /\ m.masterNN = t.nn /\ m.consumed < t.nn
           /\ c = MasterData(t, t.nn - m.consumed, rest)
      /\ at("MASTER_CRC") => m.masterDest = t.dest /\ c = MasterEnd(t, rest)
      /\ at("WAIT_MASTER_ACK") => t.dest # BroadcastDestination /\ c = rest
SlaveDue(t, m, c) ==
  LET rest == SlaveAnswer(t, m.slaveRetx)
      at(state) == m.state = state
  IN  /\ at("SLAVE_LENGTH") => m.slaveRetx = 0 /\ c = Then(Plain(t.rn), "SLAVE_LENGTH", SlaveData(t, t.rn, rest))
      /\ at("SLAVE_RETX") => m.slaveRetx = 1 /\ c = Then(Plain(t.rn), "SLAVE_RETX", SlaveData(t, t.rn, rest))
      /\ at("SLAVE_DATA") => m.slaveNN = t.rn /\ m.consumed < t.rn /\ c = SlaveData(t, t.rn - m.consumed, rest)
      /\ at("SLAVE_CRC") => c = SlaveEnd(t, rest)
      /\ at("WAIT_SLAVE_ACK") => c = rest

Due(t, m, c) ==
  /\ m.state \in MasterStates \cup SlaveStates \cup EndStates
  /\ m.state \in MasterStates => m.slaveRetx = 0
  /\ MasterDue(t, m, c) /\ SlaveDue(t, m, c)
  /\ m.state = "WAIT_TERMINATOR_SYN" => c = Completed
  /\ m.state = "ABORTED" => c = Abandoned

\* The machine counts within its limits, in the header at most four bytes.
Octet == 0 .. 255
Count == 0 .. MaxLengthByte - 1
Length == 0 .. MaxLengthByte
Again == 0 .. MaxRetxPerPhase
Machines == [state : FsmStates, masterNN : Octet, consumed : Count, masterDest : Octet, masterRetx : Again,
             slaveNN : Length, slaveRetx : Again, passive : BOOLEAN]
MachineOK(m) ==
  /\ m \in Machines
  /\ m.state \notin {"MASTER_HEADER", "ABORTED"} => m.masterNN <= MaxLengthByte
  /\ m.state = "MASTER_HEADER" => m.consumed <= 4

FollowInv ==
  /\ MachineOK(machine)
  /\ foreign \in BOOLEAN /\ inStep \in BOOLEAN /\ misjudged = FALSE
  /\ inStep /\ coming = <<>> => machine = Fresh
  /\ inStep /\ coming # <<>> => machine.passive = foreign /\ \E t \in Exchanged : Due(t, machine, coming)

-----------------------------------------------------------------------------
(* Sequences of symbols.                                                   *)

\* The names of the phases.
LEMMA PhaseNames ==
  /\ "ARBITRATING" \in FsmStates /\ "MASTER_RETX" \in FsmStates /\ "MASTER_HEADER" \in FsmStates
  /\ "MASTER_DATA" \in FsmStates /\ "MASTER_CRC" \in FsmStates /\ "WAIT_MASTER_ACK" \in FsmStates
  /\ "SLAVE_LENGTH" \in FsmStates /\ "SLAVE_RETX" \in FsmStates /\ "SLAVE_DATA" \in FsmStates
  /\ "SLAVE_CRC" \in FsmStates /\ "WAIT_SLAVE_ACK" \in FsmStates
  /\ "WAIT_TERMINATOR_SYN" \in FsmStates /\ "ABORTED" \in FsmStates /\ "IDLE" \in FsmStates
<1> QED
  BY DEF FsmStates, MasterStates, SlaveStates, EndStates

\* Joining is associative.
LEMMA CatAssociative ==
  ASSUME NEW x \in Wire, NEW y \in Wire, NEW z \in Wire
  PROVE  Cat(x, y) \in Wire /\ Cat(Cat(x, y), z) = Cat(x, Cat(y, z))
<1>1. x \o y \in Wire
  BY DEF Wire
<1>2. (x \o y) \o z = x \o (y \o z)
  BY DEF Wire
<1> QED
  BY <1>1, <1>2, Zenon DEF Cat

\* A symbol in front of what follows.
LEMMA OneFirst ==
  ASSUME NEW S, NEW x \in S, NEW r \in Seq(S)
  PROVE  <<x>> \o r \in Seq(S) /\ <<x>> \o r # <<>> /\ Head(<<x>> \o r) = x /\ Tail(<<x>> \o r) = r
<1>1. <<x>> \o r \in Seq(S)
  OBVIOUS
<1>2. <<x>> \o r # <<>>
  OBVIOUS
<1>3. Head(<<x>> \o r) = x
  OBVIOUS
<1>4. Tail(<<x>> \o r) = r
  OBVIOUS
<1> QED
  BY <1>1, <1>2, <1>3, <1>4

\* The same for a symbol with its phase.
LEMMA ThenFirst ==
  ASSUME NEW s \in WireSymbols, NEW p \in FsmStates, NEW r \in Wire
  PROVE  /\ On(s, p) \in Wire /\ Then(s, p, r) \in Wire /\ Then(s, p, r) # <<>>
         /\ Head(Then(s, p, r)).symbol = s /\ Head(Then(s, p, r)).phase = p /\ Tail(Then(s, p, r)) = r
<1> DEFINE x == [symbol |-> s, phase |-> p]
<1>1. x \in Items /\ x.symbol = s /\ x.phase = p
  BY DEF Items
<1>2. On(s, p) = <<x>> /\ Then(s, p, r) = <<x>> \o r
  BY DEF On, Then, Cat
<1> HIDE DEF x
<1>3. /\ <<x>> \o r \in Seq(Items) /\ <<x>> \o r # <<>> /\ Head(<<x>> \o r) = x /\ Tail(<<x>> \o r) = r
  BY <1>1, OneFirst, Zenon DEF Wire
<1>4. <<x>> \in Seq(Items)
  BY <1>1
<1> QED
  BY <1>1, <1>2, <1>3, <1>4, Zenon DEF Wire

\* A run of one value is that value in front of the rest of the run, or nothing.
LEMMA RepeatSplit ==
  ASSUME NEW S, NEW x \in S, NEW r \in Seq(S), NEW n \in Nat
  PROVE  /\ [i \in 1 .. n |-> x] \in Seq(S)
         /\ n = 0 => [i \in 1 .. n |-> x] \o r = r
         /\ n > 0 => [i \in 1 .. n |-> x] \o r = <<x>> \o ([i \in 1 .. n - 1 |-> x] \o r)
<1>1. [i \in 1 .. n |-> x] \in Seq(S)
  OBVIOUS
<1>2. ASSUME n = 0 PROVE [i \in 1 .. 0 |-> x] \o r = r
  OBVIOUS
<1>3. ASSUME n > 0 PROVE [i \in 1 .. n |-> x] \o r = <<x>> \o ([i \in 1 .. n - 1 |-> x] \o r)
  BY <1>3
<1> QED
  BY <1>1, <1>2, <1>3

\* The same for symbols with their phases.
LEMMA RunParts ==
  ASSUME NEW s \in WireSymbols, NEW p \in FsmStates, NEW r \in Wire, NEW n \in Nat
  PROVE  /\ Many(n, s, p) \in Wire /\ Run(n, s, p, r) \in Wire
         /\ n = 0 => Run(n, s, p, r) = r
         /\ n > 0 => Run(n, s, p, r) = Then(s, p, Run(n - 1, s, p, r))
<1> DEFINE x == [symbol |-> s, phase |-> p]
<1>1. x \in Items
  BY DEF Items
<1>2. /\ \A k : Many(k, s, p) = [i \in 1 .. k |-> x] /\ Run(k, s, p, r) = [i \in 1 .. k |-> x] \o r
      /\ \A z : Then(s, p, z) = <<x>> \o z
  BY DEF Many, Run, Then, On, Cat
<1> HIDE DEF x
<1>3. /\ [i \in 1 .. n |-> x] \in Seq(Items)
      /\ n = 0 => [i \in 1 .. n |-> x] \o r = r
      /\ n > 0 => [i \in 1 .. n |-> x] \o r = <<x>> \o ([i \in 1 .. n - 1 |-> x] \o r)
  BY <1>1, RepeatSplit DEF Wire
<1>4. Many(n, s, p) \in Wire
  BY <1>2, <1>3, Zenon DEF Wire
<1>5. Run(n, s, p, r) \in Wire
  BY <1>4, CatAssociative, Zenon DEF Run
<1> QED
  BY <1>2, <1>3, <1>4, <1>5, Zenon

-----------------------------------------------------------------------------
(* The exchanges, taken apart.                                             *)

\* A telegram of the bus: what the constants allow.
LEMMA ExchangedShape ==
  ASSUME NEW t \in Exchanged
  PROVE  /\ t.dest \in {BroadcastDestination, Target} /\ t.fill \in WireSymbols /\ t.fill # RawSyn
         /\ t.nn \in 0 .. MaxLengthByte /\ t.rn \in 0 .. MaxLengthByte
         /\ t.masterNacks \in 0 .. 2 /\ t.slaveNacks \in 0 .. 2
<1>1. /\ t.dest \in {BroadcastDestination, Target} /\ t.fill \in Fills /\ t.nn \in Lengths /\ t.rn \in Lengths
      /\ t.masterNacks \in 0 .. 2 /\ t.slaveNacks \in 0 .. 2
  BY DEF Exchanged, MaxRetxPerPhase
<1>2. t.fill # RawSyn /\ t.nn \in 0 .. MaxLengthByte /\ t.rn \in 0 .. MaxLengthByte
  BY <1>1, FsmAssumption
<1>3. t.fill \in WireSymbols
  <2>1. \A s \in Fills \cup Stray : s \in WireSymbols
    BY FsmAssumption, Zenon DEF WireSymbols
  <2> QED
    BY <1>1, <2>1
<1> QED
  BY <1>1, <1>2, <1>3

\* The symbols of the bus that are not filled in.
LEMMA PlainSymbols ==
  /\ RawSyn \in WireSymbols
  /\ \A b \in 0 .. 255 : Plain(b) \in WireSymbols /\ Plain(b).byte = b /\ (b # SynByte => Plain(b) # RawSyn)
<1>1. RawSyn \in WireSymbols
  BY DEF RawSyn, Symbol, WireSymbols, SynByte
<1>2. ASSUME NEW b \in 0 .. 255
      PROVE  Plain(b) \in WireSymbols /\ Plain(b).byte = b /\ (b # SynByte => Plain(b) # RawSyn)
  BY DEF RawSyn, Plain, Symbol, WireSymbols
<1> QED
  BY <1>1, <1>2, Zenon

\* The symbols of a telegram.
LEMMA TelegramSymbols ==
  ASSUME NEW t \in Exchanged
  PROVE  /\ t.fill \in WireSymbols /\ t.fill # RawSyn /\ t.nn \in 0 .. MaxLengthByte /\ t.rn \in 0 .. MaxLengthByte
         /\ Plain(Source) \in WireSymbols /\ Plain(Source) # RawSyn
         /\ Plain(t.dest) \in WireSymbols /\ Plain(t.dest) # RawSyn /\ Plain(t.dest).byte = t.dest
         /\ Plain(t.nn) \in WireSymbols /\ Plain(t.nn) # RawSyn /\ Plain(t.nn).byte = t.nn
         /\ Plain(t.rn) \in WireSymbols /\ Plain(t.rn) # RawSyn /\ Plain(t.rn).byte = t.rn
         /\ Plain(ACKByte) \in WireSymbols /\ Plain(ACKByte) # RawSyn /\ Plain(ACKByte).byte = ACKByte
         /\ Plain(NACKByte) \in WireSymbols /\ Plain(NACKByte) # RawSyn /\ Plain(NACKByte).byte = NACKByte
<1>1. /\ t.fill \in WireSymbols /\ t.fill # RawSyn /\ t.nn \in 0 .. MaxLengthByte /\ t.rn \in 0 .. MaxLengthByte
      /\ t.dest \in {BroadcastDestination, Target}
  BY ExchangedShape
<1>2. \A b \in {Source, t.dest, t.nn, t.rn, ACKByte, NACKByte} : b \in 0 .. 255 /\ b # SynByte
  BY <1>1 DEF BroadcastDestination, Target, Source, MaxLengthByte, ACKByte, NACKByte, SynByte
<1>3. \A b \in {Source, t.dest, t.nn, t.rn, ACKByte, NACKByte} :
        Plain(b) \in WireSymbols /\ Plain(b) # RawSyn /\ Plain(b).byte = b
  BY <1>2, PlainSymbols, ZenonT(40)
<1> QED
  BY <1>1, <1>3

\* Every part of a telegram is a sequence of symbols with their phases.
LEMMA PartsTyped ==
  ASSUME NEW t \in Exchanged, NEW rest \in Wire
  PROVE  /\ MasterEnd(t, rest) \in Wire /\ SlaveEnd(t, rest) \in Wire
         /\ \A n \in Nat : MasterData(t, n, rest) \in Wire /\ SlaveData(t, n, rest) \in Wire
         /\ LengthOn(t, rest) \in Wire /\ Header(t, rest) \in Wire
         /\ \A n \in Nat : CommandOn(t, n, rest) \in Wire
<1>0. t.fill \in WireSymbols /\ Plain(t.nn) \in WireSymbols /\ Plain(t.dest) \in WireSymbols /\ t.nn \in Nat
  BY TelegramSymbols DEF MaxLengthByte
<1>1. MasterEnd(t, rest) \in Wire /\ SlaveEnd(t, rest) \in Wire
  BY <1>0, PhaseNames, ThenFirst, PhaseNames DEF MasterEnd, SlaveEnd
<1>2. \A n \in Nat : MasterData(t, n, rest) \in Wire /\ SlaveData(t, n, rest) \in Wire
  BY <1>0, <1>1, RunParts, PhaseNames, Zenon DEF MasterData, SlaveData
<1>3. LengthOn(t, rest) \in Wire
  BY <1>0, <1>2, ThenFirst, PhaseNames DEF LengthOn
<1>4. \A n \in Nat : CommandOn(t, n, rest) \in Wire
  BY <1>0, <1>3, RunParts, PhaseNames, Zenon DEF CommandOn
<1>5. Header(t, rest) \in Wire
  BY <1>0, <1>4, ThenFirst, PhaseNames DEF Header
<1> QED
  BY <1>1, <1>2, <1>3, <1>4, <1>5

\* The initiator's frame: its source address, and the rest as it is taken apart.
LEMMA MasterFrameSplit ==
  ASSUME NEW t \in Exchanged, NEW rest \in Wire, NEW first \in FsmStates
  PROVE  /\ MasterFrame(t, first) \in Wire
         /\ Cat(MasterFrame(t, first), rest) = Then(Plain(Source), first, Header(t, rest))
<1> DEFINE a == On(Plain(Source), first)
           b == On(Plain(t.dest), "MASTER_HEADER")
           c == Many(2, t.fill, "MASTER_HEADER")
           d == On(Plain(t.nn), "MASTER_HEADER")
           e == Many(t.nn, t.fill, "MASTER_DATA")
           f == On(t.fill, "MASTER_CRC")
<1>1. t.fill \in WireSymbols /\ Plain(t.nn) \in WireSymbols /\ Plain(t.dest) \in WireSymbols /\ Plain(Source) \in WireSymbols
      /\ t.nn \in Nat
  BY TelegramSymbols DEF MaxLengthByte
<1>2. a \in Wire /\ b \in Wire /\ d \in Wire /\ f \in Wire
  BY <1>1, ThenFirst, PhaseNames
<1>3. c \in Wire /\ e \in Wire
  BY <1>1, RunParts, PhaseNames
<1>4. MasterFrame(t, first) = Cat(Cat(Cat(Cat(Cat(a, b), c), d), e), f)
  BY DEF MasterFrame, Cat
<1>5. Header(t, rest) = Cat(b, Cat(c, Cat(d, Cat(e, Cat(f, rest)))))
  BY Zenon DEF Header, CommandOn, LengthOn, MasterData, MasterEnd, Then, Run
<1>6. Then(Plain(Source), first, Header(t, rest)) = Cat(a, Header(t, rest))
  BY Zenon DEF Then
<1> HIDE DEF a, b, c, d, e, f
<1>7. /\ Cat(a, b) \in Wire /\ Cat(Cat(a, b), c) \in Wire /\ Cat(Cat(Cat(a, b), c), d) \in Wire
      /\ Cat(Cat(Cat(Cat(a, b), c), d), e) \in Wire /\ Cat(Cat(Cat(Cat(Cat(a, b), c), d), e), f) \in Wire
  BY <1>2, <1>3, CatAssociative
<1>8. /\ Cat(f, rest) \in Wire /\ Cat(e, Cat(f, rest)) \in Wire /\ Cat(d, Cat(e, Cat(f, rest))) \in Wire
      /\ Cat(c, Cat(d, Cat(e, Cat(f, rest)))) \in Wire
  BY <1>2, <1>3, CatAssociative
<1>9. Cat(Cat(Cat(Cat(Cat(Cat(a, b), c), d), e), f), rest) = Cat(a, Cat(b, Cat(c, Cat(d, Cat(e, Cat(f, rest))))))
  BY <1>2, <1>3, <1>7, <1>8, CatAssociative
<1> QED
  BY <1>4, <1>5, <1>6, <1>7, <1>9

\* The target's frame likewise.
LEMMA SlaveFrameSplit ==
  ASSUME NEW t \in Exchanged, NEW rest \in Wire, NEW first \in FsmStates
  PROVE  /\ SlaveFrame(t, first) \in Wire
         /\ Cat(SlaveFrame(t, first), rest) = Then(Plain(t.rn), first, SlaveData(t, t.rn, rest))
<1> DEFINE a == On(Plain(t.rn), first)
           b == Many(t.rn, t.fill, "SLAVE_DATA")
           c == On(t.fill, "SLAVE_CRC")
<1>1. t.fill \in WireSymbols /\ Plain(t.rn) \in WireSymbols /\ t.rn \in Nat
  BY TelegramSymbols DEF MaxLengthByte
<1>2. a \in Wire /\ b \in Wire /\ c \in Wire
  BY <1>1, ThenFirst, RunParts, PhaseNames
<1>3. SlaveFrame(t, first) = Cat(Cat(a, b), c)
  BY DEF SlaveFrame, Cat
<1>4. Then(Plain(t.rn), first, SlaveData(t, t.rn, rest)) = Cat(a, Cat(b, Cat(c, rest)))
  BY Zenon DEF SlaveData, SlaveEnd, Then, Run
<1> HIDE DEF a, b, c
<1>5. Cat(a, b) \in Wire /\ Cat(Cat(a, b), c) \in Wire /\ Cat(c, rest) \in Wire
  BY <1>2, CatAssociative
<1>6. Cat(Cat(Cat(a, b), c), rest) = Cat(a, Cat(b, Cat(c, rest)))
  BY <1>2, <1>5, CatAssociative
<1> QED
  BY <1>3, <1>4, <1>5, <1>6

\* How an exchange goes on when a frame is refused n times.
LEMMA RefusedSplit ==
  ASSUME NEW again \in Wire, NEW n \in 0 .. 2, NEW phase \in FsmStates, NEW accepted \in Wire
  PROVE  /\ Refused(again, n, phase, accepted) \in Wire
         /\ n = 0 => Refused(again, n, phase, accepted) = Then(Plain(ACKByte), phase, accepted)
         /\ n = 1 => Refused(again, n, phase, accepted)
                      = Then(Plain(NACKByte), phase, Cat(again, Then(Plain(ACKByte), phase, accepted)))
         /\ n = 2 => Refused(again, n, phase, accepted)
                      = Then(Plain(NACKByte), phase, Cat(again, Then(Plain(NACKByte), phase, Abandoned)))
<1> DEFINE yes == On(Plain(ACKByte), phase)
           no == On(Plain(NACKByte), phase)
<1>1. Plain(ACKByte) \in WireSymbols /\ Plain(NACKByte) \in WireSymbols
  BY PlainSymbols DEF ACKByte, NACKByte
<1>2. yes \in Wire /\ no \in Wire /\ Abandoned \in Wire
  BY <1>1, ThenFirst, PhaseNames, PlainSymbols DEF Abandoned
<1>3. /\ n = 0 => Refused(again, n, phase, accepted) = Cat(yes, accepted)
      /\ n = 1 => Refused(again, n, phase, accepted) = Cat(Cat(Cat(no, again), yes), accepted)
      /\ n = 2 => Refused(again, n, phase, accepted) = Cat(Cat(Cat(no, again), no), Abandoned)
  BY DEF Refused, Cat
<1>4. \A z : Then(Plain(ACKByte), phase, z) = Cat(yes, z) /\ Then(Plain(NACKByte), phase, z) = Cat(no, z)
  BY Zenon DEF Then
<1> HIDE DEF yes, no
<1>5. \A x \in Wire, y \in Wire :
        Cat(Cat(Cat(no, again), x), y) \in Wire /\ Cat(Cat(Cat(no, again), x), y) = Cat(no, Cat(again, Cat(x, y)))
  <2> TAKE x \in Wire, y \in Wire
  <2>1. Cat(no, again) \in Wire /\ Cat(Cat(no, again), x) \in Wire /\ Cat(x, y) \in Wire
    BY <1>2, CatAssociative
  <2> QED
    BY <1>2, <2>1, CatAssociative
<1>6. Cat(yes, accepted) \in Wire
  BY <1>2, CatAssociative
<1>7. n \in {0, 1, 2}
  OBVIOUS
<1> QED
  BY <1>2, <1>3, <1>4, <1>5, <1>6, <1>7

\* The SYN that ends an exchange is its last symbol.
LEMMA EndsTyped ==
  /\ Completed \in Wire /\ Completed # <<>> /\ Tail(Completed) = <<>>
  /\ Head(Completed) = [symbol |-> RawSyn, phase |-> "WAIT_TERMINATOR_SYN"]
  /\ Abandoned \in Wire /\ Abandoned # <<>> /\ Head(Abandoned) = [symbol |-> RawSyn, phase |-> "ABORTED"]
<1>1. \A p \in FsmStates : On(RawSyn, p) \in Wire
  <2>1. <<>> \in Wire
    BY DEF Wire
  <2> QED
    BY <2>1, PlainSymbols, ThenFirst
<1>2. \A x : <<x>> # <<>> /\ Tail(<<x>>) = <<>> /\ Head(<<x>>) = x
  OBVIOUS
<1> QED
  BY <1>1, <1>2, PhaseNames, Zenon DEF Completed, Abandoned, On

\* What follows a frame of the target.
LEMMA SlaveAnswerSplit ==
  ASSUME NEW t \in Exchanged
  PROVE  /\ \A a \in 0 .. 1 : SlaveAnswer(t, a) \in Wire
         /\ t.slaveNacks = 0 => SlaveAnswer(t, 0) = Then(Plain(ACKByte), "WAIT_SLAVE_ACK", Completed)
         /\ t.slaveNacks # 0 =>
              SlaveAnswer(t, 0) = Then(Plain(NACKByte), "WAIT_SLAVE_ACK",
                                       Then(Plain(t.rn), "SLAVE_RETX", SlaveData(t, t.rn, SlaveAnswer(t, 1))))
         /\ t.slaveNacks = 1 => SlaveAnswer(t, 1) = Then(Plain(ACKByte), "WAIT_SLAVE_ACK", Completed)
         /\ t.slaveNacks # 1 => SlaveAnswer(t, 1) = Then(Plain(NACKByte), "WAIT_SLAVE_ACK", Abandoned)
<1> DEFINE again == SlaveFrame(t, "SLAVE_RETX")
           yes == Then(Plain(ACKByte), "WAIT_SLAVE_ACK", Completed)
           no == Then(Plain(NACKByte), "WAIT_SLAVE_ACK", Abandoned)
<1>1. Plain(ACKByte) \in WireSymbols /\ Plain(NACKByte) \in WireSymbols
  BY PlainSymbols DEF ACKByte, NACKByte
<1>2. yes \in Wire /\ no \in Wire
  BY <1>1, ThenFirst, PhaseNames, EndsTyped
<1>3. SlaveAnswer(t, 1) = IF t.slaveNacks = 1 THEN yes ELSE no
  BY DEF SlaveAnswer
<1>4. SlaveAnswer(t, 0) = Refused(again, t.slaveNacks, "WAIT_SLAVE_ACK", Completed)
  BY DEF SlaveAnswer
<1>5. again \in Wire
      /\ \A x \in Wire : Cat(again, x) = Then(Plain(t.rn), "SLAVE_RETX", SlaveData(t, t.rn, x))
  BY SlaveFrameSplit, PhaseNames, EndsTyped
<1>6. t.slaveNacks \in 0 .. 2
  BY ExchangedShape
<1> HIDE DEF again
<1>7. /\ SlaveAnswer(t, 0) \in Wire
      /\ t.slaveNacks = 0 => SlaveAnswer(t, 0) = yes
      /\ t.slaveNacks = 1 => SlaveAnswer(t, 0) = Then(Plain(NACKByte), "WAIT_SLAVE_ACK", Cat(again, yes))
      /\ t.slaveNacks = 2 => SlaveAnswer(t, 0) = Then(Plain(NACKByte), "WAIT_SLAVE_ACK", Cat(again, no))
  BY <1>4, <1>5, <1>6, EndsTyped, RefusedSplit, PhaseNames
<1>8. t.slaveNacks # 0 => SlaveAnswer(t, 0) = Then(Plain(NACKByte), "WAIT_SLAVE_ACK", Cat(again, SlaveAnswer(t, 1)))
  <2>1. t.slaveNacks \in {0, 1, 2}
    BY <1>6
  <2> QED
    BY <2>1, <1>3, <1>7
<1>9. SlaveAnswer(t, 1) \in Wire
  BY <1>2, <1>3
<1>10. \A a \in 0 .. 1 : a = 0 \/ a = 1
  OBVIOUS
<1> QED
  BY <1>3, <1>5, <1>7, <1>8, <1>9, <1>10

\* What the target answers, as it is taken apart.
LEMMA ResponseSplit ==
  ASSUME NEW t \in Exchanged
  PROVE  /\ Response(t) \in Wire
         /\ Response(t) = Then(Plain(t.rn), "SLAVE_LENGTH", SlaveData(t, t.rn, SlaveAnswer(t, 0)))
<1>1. Response(t) = Cat(SlaveFrame(t, "SLAVE_LENGTH"), SlaveAnswer(t, 0))
  BY DEF Response, SlaveAnswer, Cat
<1>2. SlaveAnswer(t, 0) \in Wire /\ SlaveFrame(t, "SLAVE_LENGTH") \in Wire
  BY SlaveAnswerSplit, SlaveFrameSplit, PhaseNames, EndsTyped
<1> QED
  BY <1>1, <1>2, SlaveFrameSplit, PhaseNames, CatAssociative

\* What follows a frame of the initiator.
LEMMA MasterAnswerSplit ==
  ASSUME NEW t \in Exchanged
  PROVE  /\ \A a \in 0 .. 1 : MasterAnswer(t, a) \in Wire
         /\ t.dest = BroadcastDestination => \A a \in 0 .. 1 : MasterAnswer(t, a) = Completed
         /\ t.dest # BroadcastDestination =>
              /\ t.masterNacks = 0 => MasterAnswer(t, 0) = Then(Plain(ACKByte), "WAIT_MASTER_ACK", Response(t))
              /\ t.masterNacks # 0 =>
                   MasterAnswer(t, 0) = Then(Plain(NACKByte), "WAIT_MASTER_ACK",
                                             Then(Plain(Source), "MASTER_RETX", Header(t, MasterAnswer(t, 1))))
              /\ t.masterNacks = 1 => MasterAnswer(t, 1) = Then(Plain(ACKByte), "WAIT_MASTER_ACK", Response(t))
              /\ t.masterNacks # 1 => MasterAnswer(t, 1) = Then(Plain(NACKByte), "WAIT_MASTER_ACK", Abandoned)
<1> DEFINE again == MasterFrame(t, "MASTER_RETX")
           yes == Then(Plain(ACKByte), "WAIT_MASTER_ACK", Response(t))
           no == Then(Plain(NACKByte), "WAIT_MASTER_ACK", Abandoned)
<1>1. Plain(ACKByte) \in WireSymbols /\ Plain(NACKByte) \in WireSymbols
  BY PlainSymbols DEF ACKByte, NACKByte
<1>2. yes \in Wire /\ no \in Wire
  BY <1>1, ThenFirst, PhaseNames, EndsTyped, ResponseSplit
<1>3. CASE t.dest = BroadcastDestination
  BY <1>3, EndsTyped DEF MasterAnswer
<1>4. CASE t.dest # BroadcastDestination
  <2>3. MasterAnswer(t, 1) = IF t.masterNacks = 1 THEN yes ELSE no
    BY <1>4 DEF MasterAnswer
  <2>4. MasterAnswer(t, 0) = Refused(again, t.masterNacks, "WAIT_MASTER_ACK", Response(t))
    BY <1>4 DEF MasterAnswer
  <2>5. again \in Wire
        /\ \A x \in Wire : Cat(again, x) = Then(Plain(Source), "MASTER_RETX", Header(t, x))
    BY MasterFrameSplit, PhaseNames, EndsTyped
  <2>6. t.masterNacks \in 0 .. 2
    BY ExchangedShape
  <2> HIDE DEF again
  <2>7. /\ MasterAnswer(t, 0) \in Wire
        /\ t.masterNacks = 0 => MasterAnswer(t, 0) = yes
        /\ t.masterNacks = 1 => MasterAnswer(t, 0) = Then(Plain(NACKByte), "WAIT_MASTER_ACK", Cat(again, yes))
        /\ t.masterNacks = 2 => MasterAnswer(t, 0) = Then(Plain(NACKByte), "WAIT_MASTER_ACK", Cat(again, no))
    BY <2>4, <2>5, <2>6, ResponseSplit, RefusedSplit, PhaseNames
  <2>8. t.masterNacks # 0 => MasterAnswer(t, 0) = Then(Plain(NACKByte), "WAIT_MASTER_ACK", Cat(again, MasterAnswer(t, 1)))
    <3>1. t.masterNacks \in {0, 1, 2}
      BY <2>6
    <3> QED
      BY <3>1, <2>3, <2>7
  <2>9. MasterAnswer(t, 1) \in Wire
    BY <1>2, <2>3
  <2>10. \A a \in 0 .. 1 : a = 0 \/ a = 1
    OBVIOUS
  <2> QED
    BY <1>4, <2>3, <2>5, <2>7, <2>8, <2>9, <2>10
<1> QED
  BY <1>3, <1>4

\* A whole exchange, as it is taken apart.
LEMMA ExchangeSplit ==
  ASSUME NEW t \in Exchanged
  PROVE  Exchange(t) = Then(Plain(Source), "ARBITRATING", Header(t, MasterAnswer(t, 0)))
<1>1. Exchange(t) = Cat(MasterFrame(t, "ARBITRATING"), MasterAnswer(t, 0))
  BY DEF Exchange, MasterAnswer, Cat
<1>2. MasterAnswer(t, 0) \in Wire
  BY MasterAnswerSplit
<1> QED
  BY <1>1, <1>2, MasterFrameSplit, PhaseNames

-----------------------------------------------------------------------------
(* Feed.                                                                   *)

\* The limits in numbers.
LEMMA Limits ==
  /\ Octet = 0 .. 255 /\ Count = 0 .. 15 /\ Length = 0 .. 16 /\ Again = 0 .. 1
  /\ MaxLengthByte = 16 /\ MaxRetxPerPhase = 1
<1> QED
  BY DEF Octet, Count, Length, Again, MaxLengthByte, MaxRetxPerPhase

\* What is counted to.
LEMMA Smalls == 0 \in Count /\ 1 \in Count /\ 4 \in Count /\ 0 \in Octet /\ 0 \in Again /\ 1 \in Again /\ 0 \in Length
<1> QED
  BY Limits

\* The machine after each kind of update.
LEMMA MachineUpdates ==
  ASSUME NEW m \in Machines
  PROVE  /\ \A st \in FsmStates : [m EXCEPT !.state = st] \in Machines
         /\ \A n \in Count : [m EXCEPT !.consumed = n] \in Machines
         /\ \A a \in Again : [m EXCEPT !.masterRetx = a] \in Machines /\ [m EXCEPT !.slaveRetx = a] \in Machines
         /\ \A l \in Length : [m EXCEPT !.slaveNN = l] \in Machines
         /\ \A st \in FsmStates, n \in Count : [m EXCEPT !.state = st, !.consumed = n] \in Machines
         /\ \A d \in Octet, b \in Octet, n \in Count :
              [m EXCEPT !.masterDest = d, !.masterNN = b, !.consumed = n] \in Machines
         /\ \A st \in FsmStates, n \in Count, b \in Octet, d \in Octet :
              [m EXCEPT !.state = st, !.consumed = n, !.masterNN = b, !.masterDest = d] \in Machines
<1>1. ASSUME NEW st \in FsmStates, NEW n \in Count
      PROVE  /\ [m EXCEPT !.state = st] \in Machines /\ [m EXCEPT !.consumed = n] \in Machines
             /\ [m EXCEPT !.state = st, !.consumed = n] \in Machines
  BY DEF Machines
<1>2. ASSUME NEW a \in Again
      PROVE  [m EXCEPT !.masterRetx = a] \in Machines /\ [m EXCEPT !.slaveRetx = a] \in Machines
  BY DEF Machines
<1>3. ASSUME NEW l \in Length PROVE [m EXCEPT !.slaveNN = l] \in Machines
  BY DEF Machines
<1>4. ASSUME NEW d \in Octet, NEW b \in Octet, NEW n \in Count
      PROVE  [m EXCEPT !.masterDest = d, !.masterNN = b, !.consumed = n] \in Machines
  BY DEF Machines
<1>5. ASSUME NEW st \in FsmStates, NEW n \in Count, NEW b \in Octet, NEW d \in Octet
      PROVE  [m EXCEPT !.state = st, !.consumed = n, !.masterNN = b, !.masterDest = d] \in Machines
  BY DEF Machines
<1>6. \A st \in FsmStates : [m EXCEPT !.state = st] \in Machines
  BY <1>1, Smalls, Zenon
<1>7. \A n \in Count : [m EXCEPT !.consumed = n] \in Machines
  BY <1>1, PhaseNames
<1>8. \A st \in FsmStates, n \in Count : [m EXCEPT !.state = st, !.consumed = n] \in Machines
  BY <1>1
<1> QED
  BY <1>2, <1>3, <1>4, <1>5, <1>6, <1>7, <1>8, Zenon

\* Its fields.
LEMMA MachineFields ==
  ASSUME NEW m \in Machines
  PROVE  /\ m.state \in FsmStates /\ m.masterNN \in Octet /\ m.consumed \in Count /\ m.masterDest \in Octet
         /\ m.masterRetx \in Again /\ m.slaveNN \in Length /\ m.slaveRetx \in Again /\ m.passive \in BOOLEAN
<1> QED
  BY DEF Machines

\* A machine as it is made.
LEMMA FreshOK == MachineOK(Fresh)
<1>1. /\ "IDLE" \in FsmStates /\ 0 \in Octet /\ 0 \in Count /\ 0 \in Again /\ 0 \in Length /\ FALSE \in BOOLEAN
  BY PhaseNames, Limits
<1>2. Fresh \in Machines
  BY <1>1, Zenon DEF Fresh, Machines
<1> QED
  BY <1>2, Limits DEF Fresh, MachineOK

\* Whatever is fed, the machine stays within its limits.
LEMMA FeedTyped ==
  ASSUME NEW m, MachineOK(m), NEW s \in WireSymbols
  PROVE  MachineOK(Feed(m, s).m)
<1> DEFINE b == s.byte
           k == Feed(m, s).m
<1>0. b \in 0 .. 255
  BY DEF WireSymbols
<1>1. /\ m \in Machines
      /\ m.state \notin {"MASTER_HEADER", "ABORTED"} => m.masterNN <= 16
      /\ m.state = "MASTER_HEADER" => m.consumed <= 4
  BY Limits DEF MachineOK
<1>2. /\ m.masterNN \in 0 .. 255 /\ m.consumed \in 0 .. 15 /\ m.masterDest \in 0 .. 255
      /\ m.masterRetx \in 0 .. 1 /\ m.slaveNN \in 0 .. 16 /\ m.slaveRetx \in 0 .. 1
  BY <1>1, MachineFields, Limits
<1> SUFFICES MachineOK(k)
  OBVIOUS
<1> HIDE DEF k
<1>3. ASSUME NEW st \in FsmStates, k = [m EXCEPT !.state = st],
             st \notin {"MASTER_HEADER", "ABORTED"} => m.masterNN <= 16, st # "MASTER_HEADER"
      PROVE  MachineOK(k)
  <2>1. k \in Machines
    BY <1>1, <1>3, MachineUpdates
  <2>2. k.state = st /\ k.masterNN = m.masterNN
    BY <1>1, <1>3 DEF Machines
  <2> QED
    BY <1>3, <2>1, <2>2, Limits DEF MachineOK
<1>4. ASSUME NEW st \in FsmStates, NEW n \in Count, k = [m EXCEPT !.state = st, !.consumed = n],
             m.masterNN <= 16, n <= 4
      PROVE  MachineOK(k)
  <2>1. k \in Machines
    BY <1>1, <1>4, MachineUpdates, Zenon
  <2>2. k.state = st /\ k.masterNN = m.masterNN /\ k.consumed = n
    BY <1>1, <1>4 DEF Machines
  <2> QED
    BY <1>4, <2>1, <2>2, Limits DEF MachineOK
<1>5. ASSUME NEW n \in Count, k = [m EXCEPT !.consumed = n], m.state # "MASTER_HEADER"
      PROVE  MachineOK(k)
  <2>1. k \in Machines
    BY <1>1, <1>5, MachineUpdates, Zenon
  <2>2. k.state = m.state /\ k.masterNN = m.masterNN
    BY <1>1, <1>5 DEF Machines
  <2> QED
    BY <1>1, <1>5, <2>1, <2>2, Limits DEF MachineOK
<1> USE DEF Forward, Fault, Goto, NextPhase
<1>6. CASE IsInjection(m, s)
  BY <1>6 DEF Feed, Drop, k
<1>7. CASE ~IsInjection(m, s)
  <2> HIDE DEF b
  <2>1. CASE m.state = "IDLE"
    <3>1. k = m
      BY <1>7, <2>1 DEF Feed, k
    <3> QED
      BY <3>1
  <2>2. CASE m.state = "ARBITRATING"
    <3>1. k = [m EXCEPT !.state = "MASTER_HEADER", !.consumed = 1]
      BY <1>7, <2>2 DEF Feed, feedArbitrating, k
    <3> QED
      <4>1. m.masterNN <= 16 /\ 1 <= 4
        BY <1>1, <2>2
      <4> QED
        BY <1>4, <3>1, <4>1, PhaseNames, Smalls, Zenon
  <2>3. CASE m.state = "MASTER_HEADER"
    <3> DEFINE d == IF m.consumed = 1 THEN b ELSE m.masterDest
               e == IF m.consumed = 4 THEN b ELSE m.masterNN
               n == [m EXCEPT !.masterDest = d, !.masterNN = e, !.consumed = m.consumed + 1]
    <3>1. Feed(m, s) = feedMasterHeader(m, b)
      BY <1>7, <2>3 DEF Feed, b
    <3>2. d \in 0 .. 255 /\ e \in 0 .. 255 /\ m.consumed \in 0 .. 4
      BY <1>0, <1>1, <1>2, <2>3
    <3>3. k = IF m.consumed = 4 /\ b > 16 THEN [[n EXCEPT !.consumed = 4] EXCEPT !.state = "ABORTED"]
              ELSE IF n.consumed < 5 THEN n
              ELSE [n EXCEPT !.state = IF n.masterNN = 0 THEN "MASTER_CRC" ELSE "MASTER_DATA", !.consumed = 0]
      BY <3>1, Limits DEF feedMasterHeader, k
    <3> HIDE DEF d, e
    <3>4. n \in Machines
      <4>1. d \in Octet /\ e \in Octet /\ m.consumed + 1 \in Count
        BY <3>2, Limits
      <4> QED
        BY <1>1, <4>1, MachineUpdates, Zenon
    <3>5. n.state = "MASTER_HEADER" /\ n.masterNN = e /\ n.consumed = m.consumed + 1
      BY <1>1, <2>3 DEF Machines
    <3> HIDE DEF n
    <3>6. CASE m.consumed = 4 /\ b > 16
      <4> DEFINE z == [n EXCEPT !.consumed = 4]
      <4>1. z \in Machines
        BY <3>4, MachineUpdates, Smalls, Zenon
      <4>2. k = [z EXCEPT !.state = "ABORTED"]
        BY <3>3, <3>6
      <4> HIDE DEF z
      <4>3. k \in Machines /\ k.state = "ABORTED"
        BY <4>1, <4>2, MachineUpdates, PhaseNames DEF Machines
      <4> QED
        BY <4>3 DEF MachineOK
    <3>7. CASE ~(m.consumed = 4 /\ b > 16) /\ n.consumed < 5
      <4>1. k = n
        BY <3>3, <3>7
      <4> QED
        BY <3>4, <3>5, <3>7, <4>1, <3>2 DEF MachineOK
    <3>8. CASE ~(m.consumed = 4 /\ b > 16) /\ n.consumed >= 5
      <4>1. m.consumed = 4 /\ e <= 16
        BY <1>0, <3>2, <3>5, <3>8 DEF e
      <4>2. PICK st \in {"MASTER_CRC", "MASTER_DATA"} : k = [n EXCEPT !.state = st, !.consumed = 0]
        <5>1. k = [n EXCEPT !.state = IF n.masterNN = 0 THEN "MASTER_CRC" ELSE "MASTER_DATA", !.consumed = 0]
          BY <3>3, <3>5, <3>8, <4>1
        <5> QED
          BY <5>1, Zenon
      <4>3. k \in Machines
        BY <3>4, <4>2, MachineUpdates, PhaseNames, Smalls, Zenon
      <4>4. k.state = st /\ k.masterNN = e
        BY <3>4, <3>5, <4>2 DEF Machines
      <4> QED
        BY <4>1, <4>3, <4>4, Limits DEF MachineOK
    <3> QED
      BY <3>2, <3>5, <3>6, <3>7, <3>8
  <2>4. CASE m.state = "MASTER_DATA"
    <3>1. k = IF m.consumed + 1 >= m.masterNN THEN [m EXCEPT !.state = "MASTER_CRC", !.consumed = 0]
              ELSE [m EXCEPT !.consumed = m.consumed + 1]
      BY <1>7, <2>4 DEF Feed, feedMasterData, k
    <3>2. CASE m.consumed + 1 >= m.masterNN
      <4>1. m.masterNN <= 16 /\ 0 <= 4
        BY <1>1, <2>4
      <4> QED
        BY <1>4, <3>1, <3>2, <4>1, PhaseNames, Smalls, Zenon
    <3>3. CASE ~(m.consumed + 1 >= m.masterNN)
      <4>1. m.consumed + 1 \in Count
        BY <1>1, <1>2, <2>4, <3>3, Limits
      <4> QED
        BY <1>5, <2>4, <3>1, <3>3, <4>1
    <3> QED
      BY <3>2, <3>3
  <2>5. CASE m.state = "MASTER_CRC"
    <3>1. \E st \in {"WAIT_TERMINATOR_SYN", "WAIT_MASTER_ACK"} : k = [m EXCEPT !.state = st]
      BY <1>7, <2>5 DEF Feed, feedMasterCRC, k
    <3> QED
      BY <1>1, <1>3, <2>5, <3>1, PhaseNames
  <2>6. CASE m.state = "WAIT_MASTER_ACK"
    <3>1. Feed(m, s) = feedWaitMasterAck(m, b)
      BY <1>7, <2>6 DEF Feed, b
    <3>2. CASE b = 0
      <4>1. k = [m EXCEPT !.state = "SLAVE_LENGTH", !.consumed = 0]
        BY <3>1, <3>2 DEF feedWaitMasterAck, ACKByte, NACKByte, k
      <4> QED
        <5>1. m.masterNN <= 16 /\ 0 <= 4
          BY <1>1, <2>6
        <5> QED
          BY <1>4, <4>1, <5>1, PhaseNames, Smalls, Zenon
    <3>3. CASE b = 255 /\ m.masterRetx = 0
      <4> DEFINE z == [m EXCEPT !.masterRetx = 1]
      <4>1. k = [z EXCEPT !.state = "MASTER_RETX"]
        BY <3>1, <3>3, Limits DEF feedWaitMasterAck, ACKByte, NACKByte, k
      <4>2. z \in Machines
        BY <1>1, MachineUpdates, Smalls, Zenon
      <4>3. z.masterNN = m.masterNN
        BY <1>1 DEF Machines
      <4> HIDE DEF z
      <4>4. k \in Machines /\ k.state = "MASTER_RETX" /\ k.masterNN = z.masterNN
        BY <4>1, <4>2, MachineUpdates, PhaseNames DEF Machines
      <4> QED
        BY <1>1, <2>6, <4>3, <4>4, Limits DEF MachineOK
    <3>4. CASE b # 0 /\ ~(b = 255 /\ m.masterRetx = 0)
      <4>1. k = [m EXCEPT !.state = "ABORTED"]
        BY <1>2, <3>1, <3>4, Limits DEF feedWaitMasterAck, ACKByte, NACKByte, k
      <4> QED
        BY <1>3, <4>1, PhaseNames
    <3> QED
      BY <3>2, <3>3, <3>4
  <2>7. CASE m.state = "MASTER_RETX"
    <3>1. k = [m EXCEPT !.state = "MASTER_HEADER", !.consumed = 1, !.masterNN = 0, !.masterDest = 0]
      BY <1>7, <2>7 DEF Feed, feedMasterRetx, k
    <3>2. k \in Machines
      BY <1>1, <3>1, MachineUpdates, PhaseNames, Smalls, Zenon
    <3>3. k.state = "MASTER_HEADER" /\ k.consumed = 1
      BY <1>1, <3>1 DEF Machines
    <3> QED
      BY <3>2, <3>3 DEF MachineOK
  <2>8. CASE m.state \in {"SLAVE_LENGTH", "SLAVE_RETX"}
    <3>1. Feed(m, s) = feedSlaveLength(m, b)
      BY <1>7, <2>8 DEF Feed, feedSlaveRetx, b
    <3>2. CASE b > 16
      <4>1. k = [m EXCEPT !.state = "ABORTED"]
        BY <3>1, <3>2, Limits DEF feedSlaveLength, k
      <4> QED
        BY <1>3, <4>1, PhaseNames
    <3>3. CASE b <= 16
      <4> DEFINE z == [m EXCEPT !.slaveNN = b]
      <4>1. PICK st \in {"SLAVE_CRC", "SLAVE_DATA"} : k = [z EXCEPT !.state = st, !.consumed = 0]
        <5>1. k = [z EXCEPT !.state = IF b = 0 THEN "SLAVE_CRC" ELSE "SLAVE_DATA", !.consumed = 0]
          BY <1>0, <3>1, <3>3, Limits DEF feedSlaveLength, k
        <5> QED
          BY <5>1, Zenon
      <4>2. z \in Machines
        <5>1. b \in Length
          BY <1>0, <3>3, Limits
        <5> QED
          BY <1>1, <5>1, MachineUpdates, Zenon
      <4>3. z.masterNN = m.masterNN
        BY <1>1 DEF Machines
      <4> HIDE DEF z
      <4>4. k \in Machines
        BY <4>1, <4>2, MachineUpdates, PhaseNames, Smalls, Zenon
      <4>5. k.state = st /\ k.masterNN = z.masterNN
        BY <4>1, <4>2 DEF Machines
      <4> QED
        BY <1>1, <2>8, <4>3, <4>4, <4>5, Limits DEF MachineOK
    <3> QED
      BY <1>0, <3>2, <3>3
  <2>9. CASE m.state = "SLAVE_DATA"
    <3>1. k = IF m.consumed + 1 >= m.slaveNN THEN [m EXCEPT !.state = "SLAVE_CRC", !.consumed = 0]
              ELSE [m EXCEPT !.consumed = m.consumed + 1]
      BY <1>7, <2>9 DEF Feed, feedSlaveData, k
    <3>2. CASE m.consumed + 1 >= m.slaveNN
      <4>1. m.masterNN <= 16 /\ 0 <= 4
        BY <1>1, <2>9
      <4> QED
        BY <1>4, <3>1, <3>2, <4>1, PhaseNames, Smalls, Zenon
    <3>3. CASE ~(m.consumed + 1 >= m.slaveNN)
      <4>1. m.consumed + 1 \in Count
        BY <1>1, <1>2, <2>9, <3>3, Limits
      <4> QED
        BY <1>5, <2>9, <3>1, <3>3, <4>1
    <3> QED
      BY <3>2, <3>3
  <2>10. CASE m.state = "SLAVE_CRC"
    <3>1. k = [m EXCEPT !.state = "WAIT_SLAVE_ACK"]
      BY <1>7, <2>10 DEF Feed, feedSlaveCRC, k
    <3> QED
      BY <1>1, <1>3, <2>10, <3>1, PhaseNames
  <2>11. CASE m.state = "WAIT_SLAVE_ACK"
    <3>1. Feed(m, s) = feedWaitSlaveAck(m, b)
      BY <1>7, <2>11 DEF Feed, b
    <3>2. CASE b = 0
      <4>1. k = [m EXCEPT !.state = "WAIT_TERMINATOR_SYN"]
        BY <3>1, <3>2 DEF feedWaitSlaveAck, ACKByte, NACKByte, k
      <4> QED
        BY <1>1, <1>3, <2>11, <4>1, PhaseNames
    <3>3. CASE b = 255 /\ m.slaveRetx = 0
      <4> DEFINE z == [m EXCEPT !.slaveRetx = 1]
      <4>1. k = [z EXCEPT !.state = "SLAVE_RETX"]
        BY <3>1, <3>3, Limits DEF feedWaitSlaveAck, ACKByte, NACKByte, k
      <4>2. z \in Machines
        BY <1>1, MachineUpdates, Smalls, Zenon
      <4>3. z.masterNN = m.masterNN
        BY <1>1 DEF Machines
      <4> HIDE DEF z
      <4>4. k \in Machines /\ k.state = "SLAVE_RETX" /\ k.masterNN = z.masterNN
        BY <4>1, <4>2, MachineUpdates, PhaseNames DEF Machines
      <4> QED
        BY <1>1, <2>11, <4>3, <4>4, Limits DEF MachineOK
    <3>4. CASE b # 0 /\ ~(b = 255 /\ m.slaveRetx = 0)
      <4>1. k = [m EXCEPT !.state = "ABORTED"]
        BY <1>2, <3>1, <3>4, Limits DEF feedWaitSlaveAck, ACKByte, NACKByte, k
      <4> QED
        BY <1>3, <4>1, PhaseNames
    <3> QED
      BY <3>2, <3>3, <3>4
  <2>12. CASE m.state = "WAIT_TERMINATOR_SYN"
    <3>1. k = Fresh \/ k = [m EXCEPT !.state = "ABORTED"]
      BY <1>7, <2>12 DEF Feed, feedWaitTerminatorSyn, ResetToIdle, k
    <3> QED
      BY <1>3, <3>1, FreshOK, PhaseNames
  <2>13. CASE m.state = "ABORTED"
    <3>1. k = [m EXCEPT !.state = "ABORTED"]
      BY <1>7, <2>13 DEF Feed, k
    <3> QED
      BY <1>3, <3>1, PhaseNames
  <2>14. m.state \in FsmStates
    BY <1>1, MachineFields
  <2> QED
    BY <2>1, <2>2, <2>3, <2>4, <2>5, <2>6, <2>7, <2>8, <2>9, <2>10, <2>11, <2>12, <2>13, <2>14
       DEF FsmStates, MasterStates, SlaveStates, EndStates
<1> QED
  BY <1>6, <1>7

\* Runs of data and of header bytes are taken apart byte by byte.
LEMMA RunSplit ==
  ASSUME NEW t \in Exchanged, NEW rest \in Wire
  PROVE  /\ CommandOn(t, 0, rest) = LengthOn(t, rest)
         /\ \A n \in Nat : n > 0 => CommandOn(t, n, rest) = Then(t.fill, "MASTER_HEADER", CommandOn(t, n - 1, rest))
         /\ MasterData(t, 0, rest) = MasterEnd(t, rest) /\ SlaveData(t, 0, rest) = SlaveEnd(t, rest)
         /\ \A n \in Nat : n > 0 =>
              /\ MasterData(t, n, rest) = Then(t.fill, "MASTER_DATA", MasterData(t, n - 1, rest))
              /\ SlaveData(t, n, rest) = Then(t.fill, "SLAVE_DATA", SlaveData(t, n - 1, rest))
<1>1. t.fill \in WireSymbols /\ 0 \in Nat
  BY ExchangedShape
<1>2. LengthOn(t, rest) \in Wire /\ MasterEnd(t, rest) \in Wire /\ SlaveEnd(t, rest) \in Wire
  BY PartsTyped
<1>3. CommandOn(t, 0, rest) = LengthOn(t, rest)
  BY <1>1, <1>2, RunParts, PhaseNames DEF CommandOn
<1>4. MasterData(t, 0, rest) = MasterEnd(t, rest)
  BY <1>1, <1>2, RunParts, PhaseNames DEF MasterData
<1>5. SlaveData(t, 0, rest) = SlaveEnd(t, rest)
  BY <1>1, <1>2, RunParts, PhaseNames DEF SlaveData
<1>6. ASSUME NEW n \in Nat, n > 0
      PROVE  CommandOn(t, n, rest) = Then(t.fill, "MASTER_HEADER", CommandOn(t, n - 1, rest))
  BY <1>1, <1>2, <1>6, RunParts, PhaseNames DEF CommandOn
<1>7. ASSUME NEW n \in Nat, n > 0
      PROVE  MasterData(t, n, rest) = Then(t.fill, "MASTER_DATA", MasterData(t, n - 1, rest))
  BY <1>1, <1>2, <1>7, RunParts, PhaseNames DEF MasterData
<1>8. ASSUME NEW n \in Nat, n > 0
      PROVE  SlaveData(t, n, rest) = Then(t.fill, "SLAVE_DATA", SlaveData(t, n - 1, rest))
  BY <1>1, <1>2, <1>8, RunParts, PhaseNames DEF SlaveData
<1> QED
  BY <1>3, <1>4, <1>5, <1>6, <1>7, <1>8, Zenon

\* A symbol of the exchange that is not a raw 0xAA goes to the operator of its state.
LEMMA NotInjected ==
  ASSUME NEW m, NEW s, s # RawSyn
  PROVE  ~IsInjection(m, s)
<1> QED
  BY DEF IsInjection

\* The symbol due and what comes after it, in each state of the machine.
NextDue(t, m, c) ==
  LET x == MasterAnswer(t, m.masterRetx)
      y == SlaveAnswer(t, m.slaveRetx)
      at(state, s, rest) == m.state = state => c = Then(s, state, rest) /\ rest \in Wire
  IN  /\ at("ARBITRATING", Plain(Source), Header(t, x))
      /\ at("MASTER_RETX", Plain(Source), Header(t, x))
      /\ m.consumed = 1 => at("MASTER_HEADER", Plain(t.dest), CommandOn(t, 2, x))
      /\ m.consumed = 2 => at("MASTER_HEADER", t.fill, CommandOn(t, 1, x))
      /\ m.consumed = 3 => at("MASTER_HEADER", t.fill, CommandOn(t, 0, x))
      /\ m.consumed = 4 => at("MASTER_HEADER", Plain(t.nn), MasterData(t, t.nn, x))
      /\ at("MASTER_DATA", t.fill, MasterData(t, t.nn - m.consumed - 1, x))
      /\ at("MASTER_CRC", t.fill, x)
      /\ at("SLAVE_LENGTH", Plain(t.rn), SlaveData(t, t.rn, y))
      /\ at("SLAVE_RETX", Plain(t.rn), SlaveData(t, t.rn, y))
      /\ at("SLAVE_DATA", t.fill, SlaveData(t, t.rn - m.consumed - 1, y))
      /\ at("SLAVE_CRC", t.fill, y)

\* A telegram that is due is so symbol by symbol.
LEMMA DueParts ==
  ASSUME NEW t \in Exchanged, NEW m, MachineOK(m), NEW c, Due(t, m, c)
  PROVE  NextDue(t, m, c)
<1> DEFINE x == MasterAnswer(t, m.masterRetx)
           y == SlaveAnswer(t, m.slaveRetx)
<1>1. m.masterRetx \in 0 .. 1 /\ m.slaveRetx \in 0 .. 1 /\ m.consumed \in Nat
  BY MachineFields, Limits DEF MachineOK
<1>2. x \in Wire /\ y \in Wire
  BY <1>1, MasterAnswerSplit, SlaveAnswerSplit, Zenon
<1>3. /\ t.nn \in Nat /\ t.rn \in Nat
  BY TelegramSymbols, Limits
<1> HIDE DEF x, y
<1>4. /\ \A n \in Nat : MasterData(t, n, x) \in Wire /\ CommandOn(t, n, x) \in Wire /\ SlaveData(t, n, y) \in Wire
      /\ Header(t, x) \in Wire
  BY <1>2, PartsTyped, Zenon
<1>5. m.state = "ARBITRATING" => c = Then(Plain(Source), "ARBITRATING", Header(t, x))
  BY Zenon DEF Due, MasterDue, x
<1>6. m.state = "MASTER_RETX" => c = Then(Plain(Source), "MASTER_RETX", Header(t, x))
  BY Zenon DEF Due, MasterDue, x
<1>7. ASSUME m.state = "MASTER_HEADER" PROVE
        /\ m.consumed = 1 => c = Then(Plain(t.dest), "MASTER_HEADER", CommandOn(t, 2, x))
        /\ m.consumed = 2 => c = Then(t.fill, "MASTER_HEADER", CommandOn(t, 1, x))
        /\ m.consumed = 3 => c = Then(t.fill, "MASTER_HEADER", CommandOn(t, 0, x))
        /\ m.consumed = 4 => c = Then(Plain(t.nn), "MASTER_HEADER", MasterData(t, t.nn, x))
  <2>1. /\ m.consumed = 1 => c = Header(t, x)
        /\ m.consumed > 1 => c = CommandOn(t, 4 - m.consumed, x)
    BY <1>7, Zenon DEF Due, MasterDue, x
  <2>2. /\ m.consumed = 2 => c = CommandOn(t, 2, x)
        /\ m.consumed = 3 => c = CommandOn(t, 1, x)
        /\ m.consumed = 4 => c = CommandOn(t, 0, x)
    BY <2>1
  <2>3. /\ CommandOn(t, 2, x) = Then(t.fill, "MASTER_HEADER", CommandOn(t, 1, x))
        /\ CommandOn(t, 1, x) = Then(t.fill, "MASTER_HEADER", CommandOn(t, 0, x))
        /\ CommandOn(t, 0, x) = LengthOn(t, x)
    BY <1>2, RunSplit
  <2>4. /\ Header(t, x) = Then(Plain(t.dest), "MASTER_HEADER", CommandOn(t, 2, x))
        /\ LengthOn(t, x) = Then(Plain(t.nn), "MASTER_HEADER", MasterData(t, t.nn, x))
    BY Zenon DEF Header, LengthOn
  <2> QED
    BY <2>1, <2>2, <2>3, <2>4, Zenon
<1>8. ASSUME m.state = "MASTER_DATA" PROVE
        c = Then(t.fill, "MASTER_DATA", MasterData(t, t.nn - m.consumed - 1, x)) /\ t.nn - m.consumed - 1 \in Nat
  <2>1. c = MasterData(t, t.nn - m.consumed, x) /\ m.consumed < t.nn
    BY <1>8, Zenon DEF Due, MasterDue, x
  <2>2. t.nn - m.consumed \in Nat /\ t.nn - m.consumed > 0 /\ t.nn - m.consumed - 1 \in Nat
    BY <1>1, <1>3, <2>1
  <2> QED
    BY <1>2, <2>1, <2>2, RunSplit, Zenon
<1>9. m.state = "MASTER_CRC" => c = Then(t.fill, "MASTER_CRC", x)
  BY Zenon DEF Due, MasterDue, x, MasterEnd
<1>10. m.state = "SLAVE_LENGTH" => c = Then(Plain(t.rn), "SLAVE_LENGTH", SlaveData(t, t.rn, y))
  BY Zenon DEF Due, SlaveDue, y
<1>11. m.state = "SLAVE_RETX" => c = Then(Plain(t.rn), "SLAVE_RETX", SlaveData(t, t.rn, y))
  BY Zenon DEF Due, SlaveDue, y
<1>12. ASSUME m.state = "SLAVE_DATA" PROVE
        c = Then(t.fill, "SLAVE_DATA", SlaveData(t, t.rn - m.consumed - 1, y)) /\ t.rn - m.consumed - 1 \in Nat
  <2>1. c = SlaveData(t, t.rn - m.consumed, y) /\ m.consumed < t.rn
    BY <1>12, Zenon DEF Due, SlaveDue, y
  <2>2. t.rn - m.consumed \in Nat /\ t.rn - m.consumed > 0 /\ t.rn - m.consumed - 1 \in Nat
    BY <1>1, <1>3, <2>1
  <2> QED
    BY <1>2, <2>1, <2>2, RunSplit, Zenon
<1>13. m.state = "SLAVE_CRC" => c = Then(t.fill, "SLAVE_CRC", y)
  BY Zenon DEF Due, SlaveDue, y, SlaveEnd
<1>14. 0 \in Nat /\ 1 \in Nat /\ 2 \in Nat
  OBVIOUS
<1> QED
  BY <1>2, <1>3, <1>4, <1>5, <1>6, <1>7, <1>8, <1>9, <1>10, <1>11, <1>12, <1>13, <1>14, ZenonT(60) DEF NextDue, x, y

\* The symbol due has the phase the machine is in, and is a raw 0xAA only at the end.
LEMMA DueFirst ==
  ASSUME NEW t \in Exchanged, NEW m, MachineOK(m), NEW c, Due(t, m, c)
  PROVE  /\ c \in Wire /\ c # <<>> /\ Head(c).phase = m.state /\ Head(c).symbol \in WireSymbols
         /\ m.state \notin EndStates => Head(c).symbol # RawSyn
<1> DEFINE x == MasterAnswer(t, m.masterRetx)
           y == SlaveAnswer(t, m.slaveRetx)
           Goal == /\ c \in Wire /\ c # <<>> /\ Head(c).phase = m.state /\ Head(c).symbol \in WireSymbols
                   /\ m.state \notin EndStates => Head(c).symbol # RawSyn
<1>0. NextDue(t, m, c)
  BY DueParts, Zenon
<1>1. m.masterRetx \in 0 .. 1 /\ m.slaveRetx \in 0 .. 1 /\ m.state \in FsmStates
  BY MachineFields, Limits DEF MachineOK
<1>2. /\ t.fill \in WireSymbols /\ t.fill # RawSyn
      /\ Plain(Source) \in WireSymbols /\ Plain(Source) # RawSyn /\ Plain(t.dest) \in WireSymbols /\ Plain(t.dest) # RawSyn
      /\ Plain(t.nn) \in WireSymbols /\ Plain(t.nn) # RawSyn /\ Plain(t.rn) \in WireSymbols /\ Plain(t.rn) # RawSyn
      /\ Plain(ACKByte) \in WireSymbols /\ Plain(ACKByte) # RawSyn /\ Plain(NACKByte) \in WireSymbols /\ Plain(NACKByte) # RawSyn
  BY TelegramSymbols, Zenon
<1>3. ASSUME NEW s \in WireSymbols, s # RawSyn, NEW rest \in Wire, c = Then(s, m.state, rest)
      PROVE  Goal
  <2> HIDE DEF Goal
  <2>1. /\ Then(s, m.state, rest) \in Wire /\ Then(s, m.state, rest) # <<>>
        /\ Head(Then(s, m.state, rest)).symbol = s /\ Head(Then(s, m.state, rest)).phase = m.state
    BY <1>1, ThenFirst
  <2> QED
    BY <1>3, <2>1, Zenon DEF Goal
<1> SUFFICES Goal
  OBVIOUS
<1> HIDE DEF x, y, Goal
<1>4. CASE m.state = "WAIT_TERMINATOR_SYN"
  <2>1. c = Completed
    BY <1>4, Zenon DEF Due
  <2>2. Head(Completed).symbol = RawSyn /\ Head(Completed).phase = "WAIT_TERMINATOR_SYN"
    BY EndsTyped
  <2> QED
    BY <1>4, <2>1, <2>2, EndsTyped, PlainSymbols, Zenon DEF Goal, EndStates
<1>5. CASE m.state = "ABORTED"
  <2>1. c = Abandoned
    BY <1>5, Zenon DEF Due
  <2>2. Head(Abandoned).symbol = RawSyn /\ Head(Abandoned).phase = "ABORTED"
    BY EndsTyped
  <2> QED
    BY <1>5, <2>1, <2>2, EndsTyped, PlainSymbols, Zenon DEF Goal, EndStates
<1>6. CASE m.state = "ARBITRATING"
  <2>1. c = Then(Plain(Source), m.state, Header(t, x)) /\ Header(t, x) \in Wire
    BY <1>6, <1>0, Zenon DEF NextDue, x, y
  <2> QED
    BY <1>2, <1>3, <2>1, Zenon
<1>7. CASE m.state = "MASTER_RETX"
  <2>1. c = Then(Plain(Source), m.state, Header(t, x)) /\ Header(t, x) \in Wire
    BY <1>7, <1>0, Zenon DEF NextDue, x, y
  <2> QED
    BY <1>2, <1>3, <2>1, Zenon
<1>8. CASE m.state = "MASTER_DATA"
  <2>1. c = Then(t.fill, m.state, MasterData(t, t.nn - m.consumed - 1, x)) /\ MasterData(t, t.nn - m.consumed - 1, x) \in Wire
    BY <1>8, <1>0, Zenon DEF NextDue, x, y
  <2> QED
    BY <1>2, <1>3, <2>1, Zenon
<1>9. CASE m.state = "MASTER_CRC"
  <2>1. c = Then(t.fill, m.state, x) /\ x \in Wire
    BY <1>9, <1>0, Zenon DEF NextDue, x, y
  <2> QED
    BY <1>2, <1>3, <2>1, Zenon
<1>10. CASE m.state = "SLAVE_LENGTH"
  <2>1. c = Then(Plain(t.rn), m.state, SlaveData(t, t.rn, y)) /\ SlaveData(t, t.rn, y) \in Wire
    BY <1>10, <1>0, Zenon DEF NextDue, x, y
  <2> QED
    BY <1>2, <1>3, <2>1, Zenon
<1>11. CASE m.state = "SLAVE_RETX"
  <2>1. c = Then(Plain(t.rn), m.state, SlaveData(t, t.rn, y)) /\ SlaveData(t, t.rn, y) \in Wire
    BY <1>11, <1>0, Zenon DEF NextDue, x, y
  <2> QED
    BY <1>2, <1>3, <2>1, Zenon
<1>12. CASE m.state = "SLAVE_DATA"
  <2>1. c = Then(t.fill, m.state, SlaveData(t, t.rn - m.consumed - 1, y)) /\ SlaveData(t, t.rn - m.consumed - 1, y) \in Wire
    BY <1>12, <1>0, Zenon DEF NextDue, x, y
  <2> QED
    BY <1>2, <1>3, <2>1, Zenon
<1>13. CASE m.state = "SLAVE_CRC"
  <2>1. c = Then(t.fill, m.state, y) /\ y \in Wire
    BY <1>13, <1>0, Zenon DEF NextDue, x, y
  <2> QED
    BY <1>2, <1>3, <2>1, Zenon
<1>14. CASE m.state = "MASTER_HEADER"
  <2>1. m.consumed = 1 \/ m.consumed = 2 \/ m.consumed = 3 \/ m.consumed = 4
    <3>1. m.consumed \in 1 .. 4
      BY <1>14, Zenon DEF Due, MasterDue
    <3> QED
      BY <3>1
  <2>2. CASE m.consumed = 1
    <3>1. c = Then(Plain(t.dest), m.state, CommandOn(t, 2, x)) /\ CommandOn(t, 2, x) \in Wire
      BY <1>14, <2>2, <1>0, Zenon DEF NextDue, x
    <3> QED
      BY <1>2, <1>3, <3>1, Zenon
  <2>3. CASE m.consumed = 2
    <3>1. c = Then(t.fill, m.state, CommandOn(t, 1, x)) /\ CommandOn(t, 1, x) \in Wire
      BY <1>14, <2>3, <1>0, Zenon DEF NextDue, x
    <3> QED
      BY <1>2, <1>3, <3>1, Zenon
  <2>4. CASE m.consumed = 3
    <3>1. c = Then(t.fill, m.state, CommandOn(t, 0, x)) /\ CommandOn(t, 0, x) \in Wire
      BY <1>14, <2>4, <1>0, Zenon DEF NextDue, x
    <3> QED
      BY <1>2, <1>3, <3>1, Zenon
  <2>5. CASE m.consumed = 4
    <3>1. c = Then(Plain(t.nn), m.state, MasterData(t, t.nn, x)) /\ MasterData(t, t.nn, x) \in Wire
      BY <1>14, <2>5, <1>0, Zenon DEF NextDue, x
    <3> QED
      BY <1>2, <1>3, <3>1, Zenon
  <2> QED
    BY <2>1, <2>2, <2>3, <2>4, <2>5
<1>15. CASE m.state = "WAIT_MASTER_ACK"
  <2>1. c = MasterAnswer(t, m.masterRetx) /\ t.dest # BroadcastDestination
    BY <1>15, Zenon DEF Due, MasterDue
  <2>2. /\ Response(t) \in Wire /\ Abandoned \in Wire
        /\ Then(Plain(Source), "MASTER_RETX", Header(t, MasterAnswer(t, 1))) \in Wire
    <3>1. MasterAnswer(t, 1) \in Wire
      BY MasterAnswerSplit
    <3>2. Header(t, MasterAnswer(t, 1)) \in Wire
      BY <3>1, PartsTyped
    <3> QED
      BY <1>2, <3>2, ResponseSplit, EndsTyped, ThenFirst, PhaseNames
  <2>3. m.masterRetx = 0 \/ m.masterRetx = 1
    BY <1>1
  <2>4. PICK rest \in Wire : \/ c = Then(Plain(ACKByte), "WAIT_MASTER_ACK", rest)
                             \/ c = Then(Plain(NACKByte), "WAIT_MASTER_ACK", rest)
    BY <2>1, <2>2, <2>3, MasterAnswerSplit, ZenonT(30)
  <2>5. c = Then(Plain(ACKByte), m.state, rest) \/ c = Then(Plain(NACKByte), m.state, rest)
    BY <1>15, <2>4
  <2> QED
    BY <1>2, <1>3, <2>5, Zenon
<1>16. CASE m.state = "WAIT_SLAVE_ACK"
  <2>1. c = SlaveAnswer(t, m.slaveRetx)
    BY <1>16, Zenon DEF Due, SlaveDue
  <2>2. /\ Completed \in Wire /\ Abandoned \in Wire
        /\ Then(Plain(t.rn), "SLAVE_RETX", SlaveData(t, t.rn, SlaveAnswer(t, 1))) \in Wire
    <3>1. SlaveAnswer(t, 1) \in Wire /\ t.rn \in Nat
      BY SlaveAnswerSplit, TelegramSymbols, Limits
    <3>2. SlaveData(t, t.rn, SlaveAnswer(t, 1)) \in Wire
      BY <3>1, PartsTyped
    <3> QED
      BY <1>2, <3>2, EndsTyped, ThenFirst, PhaseNames
  <2>3. m.slaveRetx = 0 \/ m.slaveRetx = 1
    BY <1>1
  <2>4. PICK rest \in Wire : \/ c = Then(Plain(ACKByte), "WAIT_SLAVE_ACK", rest)
                             \/ c = Then(Plain(NACKByte), "WAIT_SLAVE_ACK", rest)
    BY <2>1, <2>2, <2>3, SlaveAnswerSplit, ZenonT(30)
  <2>5. c = Then(Plain(ACKByte), m.state, rest) \/ c = Then(Plain(NACKByte), m.state, rest)
    BY <1>16, <2>4
  <2> QED
    BY <1>2, <1>3, <2>5, Zenon
<1>17. m.state \in MasterStates \cup SlaveStates \cup EndStates
  BY DEF Due
<1> QED
  BY <1>4, <1>5, <1>6, <1>7, <1>8, <1>9, <1>10, <1>11, <1>12, <1>13, <1>14, <1>15, <1>16, <1>17
     DEF MasterStates, SlaveStates, EndStates

\* Fed the symbol that is due, the machine forwards it and is where the rest is due; the
\* terminator leaves it as new.
LEMMA FeedDue ==
  ASSUME NEW t \in Exchanged, NEW m, MachineOK(m), NEW c, Due(t, m, c), m.state # "ABORTED"
  PROVE  LET f == Feed(m, Head(c).symbol)
         IN  /\ f.decision = "forward"
             /\ m.state = "WAIT_TERMINATOR_SYN" => f.m = Fresh /\ Tail(c) = <<>>
             /\ m.state # "WAIT_TERMINATOR_SYN" => Due(t, f.m, Tail(c)) /\ f.m.passive = m.passive
<1> DEFINE x == MasterAnswer(t, m.masterRetx)
           y == SlaveAnswer(t, m.slaveRetx)
           s == Head(c).symbol
           b == s.byte
           f == Feed(m, s)
           k == f.m
           Goal == /\ f.decision = "forward"
                   /\ m.state = "WAIT_TERMINATOR_SYN" => k = Fresh /\ Tail(c) = <<>>
                   /\ m.state # "WAIT_TERMINATOR_SYN" => Due(t, k, Tail(c)) /\ k.passive = m.passive
<1>0. NextDue(t, m, c)
  BY DueParts, Zenon
<1>1. m \in Machines /\ m.masterRetx \in 0 .. 1 /\ m.slaveRetx \in 0 .. 1 /\ m.consumed \in 0 .. 15
  BY MachineFields, Limits DEF MachineOK
<1>2. x \in Wire /\ y \in Wire
  BY <1>1, MasterAnswerSplit, SlaveAnswerSplit, Zenon
<1>3. /\ t.fill \in WireSymbols /\ t.nn \in 0 .. 16 /\ t.rn \in 0 .. 16
      /\ Plain(Source) \in WireSymbols /\ Plain(t.dest) \in WireSymbols /\ Plain(t.dest).byte = t.dest
      /\ Plain(t.nn) \in WireSymbols /\ Plain(t.nn).byte = t.nn /\ Plain(t.rn) \in WireSymbols /\ Plain(t.rn).byte = t.rn
      /\ Plain(ACKByte) \in WireSymbols /\ Plain(ACKByte).byte = 0 /\ Plain(NACKByte) \in WireSymbols /\ Plain(NACKByte).byte = 255
  BY TelegramSymbols, Limits DEF ACKByte, NACKByte
<1>4. ASSUME NEW u \in WireSymbols, NEW p \in FsmStates, NEW r \in Wire, c = Then(u, p, r)
      PROVE  s = u /\ Tail(c) = r
  BY <1>4, ThenFirst
<1>5. m.state \notin EndStates => ~IsInjection(m, s)
  BY DueFirst, NotInjected
<1>6. m.state \in MasterStates => m.slaveRetx = 0
  BY Zenon DEF Due
<1> SUFFICES Goal
  OBVIOUS
<1>7. ASSUME f.decision = "forward", m.state # "WAIT_TERMINATOR_SYN", Due(t, k, Tail(c)), k.passive = m.passive
      PROVE  Goal
  BY <1>7, Zenon
<1> HIDE DEF x, y, s, b, f, k, Goal
<1>8. CASE m.state = "ARBITRATING"
  <2>1. c = Then(Plain(Source), "ARBITRATING", Header(t, x)) /\ Header(t, x) \in Wire
    BY <1>0, <1>8, Zenon DEF NextDue, x
  <2>2. Tail(c) = Header(t, x)
    BY <1>3, <1>4, <2>1, PhaseNames
  <2>3. f.decision = "forward" /\ k = [m EXCEPT !.state = "MASTER_HEADER", !.consumed = 1]
    BY <1>5, <1>8 DEF Feed, feedArbitrating, Forward, f, k, EndStates
  <2>4. /\ k.state = "MASTER_HEADER" /\ k.consumed = 1 /\ k.masterRetx = m.masterRetx
        /\ k.slaveRetx = m.slaveRetx /\ k.passive = m.passive
    BY <1>1, <2>3 DEF Machines
  <2>5. Due(t, k, Tail(c))
    BY <1>6, <1>8, <2>2, <2>4 DEF Due, MasterDue, SlaveDue, x, MasterStates, SlaveStates, EndStates
  <2> QED
    BY <1>7, <1>8, <2>3, <2>4, <2>5
<1>9. CASE m.state = "MASTER_RETX"
  <2>1. c = Then(Plain(Source), "MASTER_RETX", Header(t, x)) /\ Header(t, x) \in Wire
    BY <1>0, <1>9, Zenon DEF NextDue, x
  <2>2. Tail(c) = Header(t, x)
    BY <1>3, <1>4, <2>1, PhaseNames
  <2>3. f.decision = "forward" /\ k = [m EXCEPT !.state = "MASTER_HEADER", !.consumed = 1, !.masterNN = 0, !.masterDest = 0]
    BY <1>5, <1>9 DEF Feed, feedMasterRetx, Forward, f, k, EndStates
  <2>4. /\ k.state = "MASTER_HEADER" /\ k.consumed = 1 /\ k.masterRetx = m.masterRetx
        /\ k.slaveRetx = m.slaveRetx /\ k.passive = m.passive
    BY <1>1, <2>3 DEF Machines
  <2>5. Due(t, k, Tail(c))
    BY <1>6, <1>9, <2>2, <2>4 DEF Due, MasterDue, SlaveDue, x, MasterStates, SlaveStates, EndStates
  <2> QED
    BY <1>7, <1>9, <2>3, <2>4, <2>5
<1>10. CASE m.state = "MASTER_HEADER"
  <2> DEFINE d == IF m.consumed = 1 THEN b ELSE m.masterDest
             e == IF m.consumed = 4 THEN b ELSE m.masterNN
             n == [m EXCEPT !.masterDest = d, !.masterNN = e, !.consumed = m.consumed + 1]
  <2>1. m.slaveRetx = 0 /\ m.consumed \in 1 .. 4 /\ (m.consumed > 1 => m.masterDest = t.dest)
    BY <1>6, <1>10, Zenon DEF Due, MasterDue, MasterStates
  <2>2. f = IF m.consumed = 4 /\ b > 16 THEN Fault([n EXCEPT !.consumed = 4])
            ELSE IF n.consumed < 5 THEN Forward(n)
            ELSE NextPhase(n, IF n.masterNN = 0 THEN "MASTER_CRC" ELSE "MASTER_DATA")
    <3>1. f = feedMasterHeader(m, b)
      BY <1>5, <1>10 DEF Feed, f, b, EndStates
    <3> QED
      BY <3>1, Limits DEF feedMasterHeader
  <2> HIDE DEF d, e
  <2>3. /\ n.state = "MASTER_HEADER" /\ n.masterNN = e /\ n.consumed = m.consumed + 1 /\ n.masterDest = d
        /\ n.masterRetx = m.masterRetx /\ n.slaveRetx = m.slaveRetx /\ n.passive = m.passive
    BY <1>1, <1>10 DEF Machines
  <2>4. DOMAIN n = DOMAIN m
    OBVIOUS
  <2>5. DOMAIN m = {"state", "masterNN", "consumed", "masterDest", "masterRetx", "slaveNN", "slaveRetx", "passive"}
    BY <1>1 DEF Machines
  <2> HIDE DEF n
  <2>6. m.consumed # 4 => f.decision = "forward" /\ k = n
    BY <2>1, <2>2, <2>3 DEF Forward, k
  <2>7. CASE m.consumed = 1
    <3>1. c = Then(Plain(t.dest), "MASTER_HEADER", CommandOn(t, 2, x)) /\ CommandOn(t, 2, x) \in Wire
      BY <1>0, <1>10, <2>7, Zenon DEF NextDue, x
    <3>2. Tail(c) = CommandOn(t, 2, x) /\ s = Plain(t.dest)
      BY <1>3, <1>4, <3>1, PhaseNames
    <3>3. d = t.dest /\ n.consumed = 2 /\ f.decision = "forward" /\ k = n
      BY <1>3, <2>1, <2>3, <2>6, <2>7, <3>2 DEF d, b
    <3>4. Due(t, k, Tail(c))
      BY <2>1, <2>3, <3>2, <3>3 DEF Due, MasterDue, SlaveDue, x, MasterStates, SlaveStates, EndStates
    <3> QED
      BY <1>7, <1>10, <2>3, <3>3, <3>4
  <2>8. CASE m.consumed = 2
    <3>1. c = Then(t.fill, "MASTER_HEADER", CommandOn(t, 1, x)) /\ CommandOn(t, 1, x) \in Wire
      BY <1>0, <1>10, <2>8, Zenon DEF NextDue, x
    <3>2. Tail(c) = CommandOn(t, 1, x) /\ s = t.fill
      BY <1>3, <1>4, <3>1, PhaseNames
    <3>3. d = t.dest /\ n.consumed = 3 /\ f.decision = "forward" /\ k = n
      BY <1>3, <2>1, <2>3, <2>6, <2>8, <3>2 DEF d, b
    <3>4. Due(t, k, Tail(c))
      BY <2>1, <2>3, <3>2, <3>3 DEF Due, MasterDue, SlaveDue, x, MasterStates, SlaveStates, EndStates
    <3> QED
      BY <1>7, <1>10, <2>3, <3>3, <3>4
  <2>9. CASE m.consumed = 3
    <3>1. c = Then(t.fill, "MASTER_HEADER", CommandOn(t, 0, x)) /\ CommandOn(t, 0, x) \in Wire
      BY <1>0, <1>10, <2>9, Zenon DEF NextDue, x
    <3>2. Tail(c) = CommandOn(t, 0, x) /\ s = t.fill
      BY <1>3, <1>4, <3>1, PhaseNames
    <3>3. d = t.dest /\ n.consumed = 4 /\ f.decision = "forward" /\ k = n
      BY <1>3, <2>1, <2>3, <2>6, <2>9, <3>2 DEF d, b
    <3>4. Due(t, k, Tail(c))
      BY <2>1, <2>3, <3>2, <3>3 DEF Due, MasterDue, SlaveDue, x, MasterStates, SlaveStates, EndStates
    <3> QED
      BY <1>7, <1>10, <2>3, <3>3, <3>4
  <2>10. CASE m.consumed = 4
    <3>1. c = Then(Plain(t.nn), "MASTER_HEADER", MasterData(t, t.nn, x)) /\ MasterData(t, t.nn, x) \in Wire
      BY <1>0, <1>10, <2>10, Zenon DEF NextDue, x
    <3>2. Tail(c) = MasterData(t, t.nn, x) /\ s = Plain(t.nn)
      BY <1>3, <1>4, <3>1, PhaseNames
    <3>3. e = t.nn /\ d = t.dest /\ ~(b > 16)
      BY <1>3, <2>1, <2>10, <3>2 DEF d, e, b
    <3>4. f = NextPhase(n, IF t.nn = 0 THEN "MASTER_CRC" ELSE "MASTER_DATA")
      BY <2>2, <2>3, <2>10, <3>3
    <3>5. f.decision = "forward" /\ k = [n EXCEPT !.state = IF t.nn = 0 THEN "MASTER_CRC" ELSE "MASTER_DATA", !.consumed = 0]
      BY <3>4 DEF NextPhase, Forward, k
    <3>6. /\ k.state = IF t.nn = 0 THEN "MASTER_CRC" ELSE "MASTER_DATA"
          /\ k.consumed = 0 /\ k.masterNN = t.nn /\ k.masterDest = t.dest /\ k.masterRetx = m.masterRetx
          /\ k.slaveRetx = 0 /\ k.passive = m.passive
      BY <2>1, <2>3, <2>4, <2>5, <3>3, <3>5
    <3>7. t.nn = 0 => Tail(c) = MasterEnd(t, x)
      BY <1>2, <3>2, RunSplit
    <3>8. CASE t.nn = 0
      <4>1. Due(t, k, Tail(c))
        BY <3>6, <3>7, <3>8 DEF Due, MasterDue, SlaveDue, x, MasterStates, SlaveStates, EndStates
      <4> QED
        BY <1>7, <1>10, <3>5, <3>6, <4>1
    <3>9. CASE t.nn # 0
      <4>1. t.nn - k.consumed = t.nn /\ k.consumed < t.nn
        BY <1>3, <3>6, <3>9
      <4>2. Due(t, k, Tail(c))
        BY <3>2, <3>6, <3>9, <4>1 DEF Due, MasterDue, SlaveDue, x, MasterStates, SlaveStates, EndStates
      <4> QED
        BY <1>7, <1>10, <3>5, <3>6, <4>2
    <3> QED
      BY <3>8, <3>9
  <2> QED
    BY <2>1, <2>7, <2>8, <2>9, <2>10
<1>11. CASE m.state = "MASTER_DATA"
  <2>1. m.masterNN = t.nn /\ m.consumed < t.nn /\ m.masterDest = t.dest 
    BY <1>11, Zenon DEF Due, MasterDue
  <2>2. /\ c = Then(t.fill, "MASTER_DATA", MasterData(t, t.nn - m.consumed - 1, x))
        /\ MasterData(t, t.nn - m.consumed - 1, x) \in Wire
    BY <1>0, <1>11, Zenon DEF NextDue, x
  <2>3. Tail(c) = MasterData(t, t.nn - m.consumed - 1, x)
    BY <1>3, <1>4, <2>2, PhaseNames
  <2>4. f = feedMasterData(m)
    BY <1>5, <1>11 DEF Feed, f, EndStates
  <2>5. CASE m.consumed + 1 = t.nn
    <3>1. f.decision = "forward" /\ k = [m EXCEPT !.state = "MASTER_CRC", !.consumed = 0]
      BY <1>1, <1>3, <2>1, <2>4, <2>5 DEF feedMasterData, NextPhase, Forward, k
    <3>2. k.state = "MASTER_CRC" /\ k.masterDest = t.dest /\ k.masterRetx = m.masterRetx /\ k.slaveRetx = m.slaveRetx /\ k.passive = m.passive
      BY <1>1, <2>1, <3>1 DEF Machines
    <3>3. t.nn - m.consumed - 1 = 0
      BY <1>1, <1>3, <2>5
    <3>4. Tail(c) = MasterEnd(t, x)
      BY <1>2, <2>3, <3>3, RunSplit
    <3>5. Due(t, k, Tail(c))
      BY <1>6, <1>11, <3>2, <3>4 DEF Due, MasterDue, SlaveDue, x, MasterStates, SlaveStates, EndStates
    <3> QED
      BY <1>7, <1>11, <3>1, <3>2, <3>5
  <2>6. CASE m.consumed + 1 # t.nn
    <3>1. f.decision = "forward" /\ k = [m EXCEPT !.consumed = m.consumed + 1]
      BY <1>1, <1>3, <2>1, <2>4, <2>6 DEF feedMasterData, Forward, k
    <3>2. /\ k.state = "MASTER_DATA" /\ k.consumed = m.consumed + 1 /\ k.masterNN = t.nn /\ k.slaveRetx = m.slaveRetx
          /\ k.passive = m.passive /\ k.masterDest = t.dest /\ k.masterRetx = m.masterRetx
      BY <1>1, <1>11, <2>1, <3>1 DEF Machines
    <3>3. t.nn - k.consumed = t.nn - m.consumed - 1 /\ k.consumed < t.nn
      BY <1>1, <1>3, <2>1, <2>6, <3>2
    <3>4. Due(t, k, Tail(c))
      BY <1>6, <1>11, <2>3, <3>2, <3>3 DEF Due, MasterDue, SlaveDue, x, MasterStates, SlaveStates, EndStates
    <3> QED
      BY <1>7, <1>11, <3>1, <3>2, <3>4
  <2> QED
    BY <2>5, <2>6
<1>12. CASE m.state = "MASTER_CRC"
  <2>1. m.masterDest = t.dest /\ c = Then(t.fill, "MASTER_CRC", x)
    BY <1>12, Zenon DEF Due, MasterDue, x, MasterEnd
  <2>2. Tail(c) = x
    BY <1>2, <1>3, <1>4, <2>1, PhaseNames
  <2>3. f.decision = "forward"
        /\ k = [m EXCEPT !.state = IF t.dest = BroadcastDestination THEN "WAIT_TERMINATOR_SYN" ELSE "WAIT_MASTER_ACK"]
    BY <1>5, <1>12, <2>1 DEF Feed, feedMasterCRC, Goto, Forward, f, k, EndStates
  <2>4. /\ k.masterRetx = m.masterRetx /\ k.slaveRetx = m.slaveRetx /\ k.passive = m.passive
        /\ k.state = IF t.dest = BroadcastDestination THEN "WAIT_TERMINATOR_SYN" ELSE "WAIT_MASTER_ACK"
    BY <1>1, <2>3 DEF Machines
  <2>5. t.dest = BroadcastDestination => x = Completed
    BY <1>1, MasterAnswerSplit, Zenon DEF x
  <2>6. Due(t, k, Tail(c))
    BY <1>6, <1>12, <2>2, <2>4, <2>5 DEF Due, MasterDue, SlaveDue, x, MasterStates, SlaveStates, EndStates
  <2> QED
    BY <1>7, <1>12, <2>3, <2>4, <2>6
<1>13. CASE m.state = "WAIT_MASTER_ACK"
  <2>1. c = x /\ t.dest # BroadcastDestination /\ m.slaveRetx = 0
    BY <1>6, <1>13, Zenon DEF Due, MasterDue, x, MasterStates
  <2>2. f = feedWaitMasterAck(m, b)
    BY <1>5, <1>13 DEF Feed, f, b, EndStates
  <2>3. Response(t) \in Wire /\ Abandoned \in Wire /\ Then(Plain(Source), "MASTER_RETX", Header(t, MasterAnswer(t, 1))) \in Wire
    <3>1. MasterAnswer(t, 1) \in Wire
      BY MasterAnswerSplit
    <3>2. Header(t, MasterAnswer(t, 1)) \in Wire
      BY <3>1, PartsTyped
    <3> QED
      BY <1>3, <3>2, ResponseSplit, EndsTyped, ThenFirst, PhaseNames
  <2>4. CASE x = Then(Plain(ACKByte), "WAIT_MASTER_ACK", Response(t))
    <3>1. Tail(c) = Response(t) /\ s = Plain(ACKByte)
      BY <1>3, <1>4, <2>1, <2>3, <2>4, PhaseNames
    <3>2. b = 0
      BY <1>3, <3>1 DEF b
    <3>3. f.decision = "forward" /\ k = [m EXCEPT !.state = "SLAVE_LENGTH", !.consumed = 0]
      BY <2>2, <3>2 DEF feedWaitMasterAck, NextPhase, Goto, Forward, ACKByte, NACKByte, k
    <3>4. k.state = "SLAVE_LENGTH" /\ k.slaveRetx = 0 /\ k.passive = m.passive
      BY <1>1, <2>1, <3>3 DEF Machines
    <3>5. Due(t, k, Tail(c))
      BY <3>1, <3>4, ResponseSplit DEF Due, MasterDue, SlaveDue, MasterStates, SlaveStates, EndStates
    <3> QED
      BY <1>7, <1>13, <3>3, <3>4, <3>5
  <2>5. CASE m.masterRetx = 0 /\ x = Then(Plain(NACKByte), "WAIT_MASTER_ACK", Then(Plain(Source), "MASTER_RETX", Header(t, MasterAnswer(t, 1))))
    <3> DEFINE z == [m EXCEPT !.masterRetx = 1]
    <3>1. Tail(c) = Then(Plain(Source), "MASTER_RETX", Header(t, MasterAnswer(t, 1))) /\ s = Plain(NACKByte)
      BY <1>3, <1>4, <2>1, <2>3, <2>5, PhaseNames
    <3>2. b = 255
      BY <1>3, <3>1 DEF b
    <3>3. f.decision = "forward" /\ k = [z EXCEPT !.state = "MASTER_RETX"]
      BY <2>2, <2>5, <3>2, Limits DEF feedWaitMasterAck, Goto, Forward, ACKByte, NACKByte, k
    <3>4. z \in Machines
      BY <1>1, MachineUpdates, Smalls, Zenon
    <3>5. z.masterRetx = 1 /\ z.passive = m.passive /\ z.slaveRetx = m.slaveRetx
      BY <1>1 DEF Machines
    <3> HIDE DEF z
    <3>6. k.state = "MASTER_RETX" /\ k.masterRetx = 1 /\ k.slaveRetx = 0 /\ k.passive = m.passive
      BY <2>1, <3>3, <3>4, <3>5 DEF Machines
    <3>7. Due(t, k, Tail(c))
      BY <3>1, <3>6 DEF Due, MasterDue, SlaveDue, MasterStates, SlaveStates, EndStates
    <3> QED
      BY <1>7, <1>13, <3>3, <3>6, <3>7
  <2>6. CASE m.masterRetx = 1 /\ x = Then(Plain(NACKByte), "WAIT_MASTER_ACK", Abandoned)
    <3>1. Tail(c) = Abandoned /\ s = Plain(NACKByte)
      BY <1>3, <1>4, <2>1, <2>3, <2>6, PhaseNames
    <3>2. b = 255
      BY <1>3, <3>1 DEF b
    <3>3. f.decision = "forward" /\ k = [m EXCEPT !.state = "ABORTED"]
      BY <2>2, <2>6, <3>2, Limits DEF feedWaitMasterAck, Goto, Forward, ACKByte, NACKByte, k
    <3>4. k.state = "ABORTED" /\ k.passive = m.passive
      BY <1>1, <3>3 DEF Machines
    <3>5. Due(t, k, Tail(c))
      BY <3>1, <3>4 DEF Due, MasterDue, SlaveDue, MasterStates, SlaveStates, EndStates
    <3> QED
      BY <1>7, <1>13, <3>3, <3>4, <3>5
  <2>7. m.masterRetx = 0 \/ m.masterRetx = 1
    BY <1>1
  <2>8. /\ m.masterRetx = 0 => x = MasterAnswer(t, 0)
        /\ m.masterRetx = 1 => x = MasterAnswer(t, 1)
    BY Zenon DEF x
  <2> QED
    BY <2>1, <2>4, <2>5, <2>6, <2>7, <2>8, MasterAnswerSplit, Zenon
<1>14. CASE m.state = "SLAVE_LENGTH"
  <2> DEFINE z == [m EXCEPT !.slaveNN = t.rn]
             st == IF t.rn = 0 THEN "SLAVE_CRC" ELSE "SLAVE_DATA"
  <2>1. c = Then(Plain(t.rn), "SLAVE_LENGTH", SlaveData(t, t.rn, y)) /\ SlaveData(t, t.rn, y) \in Wire
    BY <1>0, <1>14, Zenon DEF NextDue, y
  <2>2. Tail(c) = SlaveData(t, t.rn, y) /\ s = Plain(t.rn)
    BY <1>3, <1>4, <2>1, PhaseNames
  <2>3. b = t.rn
    BY <1>3, <2>2 DEF b
  <2>4. f = feedSlaveLength(m, t.rn)
    BY <1>5, <1>14, <2>3 DEF Feed, f, b, EndStates
  <2>5. f.decision = "forward" /\ k = [z EXCEPT !.state = st, !.consumed = 0]
    BY <1>3, <2>4, Limits DEF feedSlaveLength, NextPhase, Forward, k
  <2>6. z \in Machines
    <3>1. t.rn \in Length
      BY <1>3, Limits
    <3> QED
      BY <1>1, <3>1, MachineUpdates, Zenon
  <2>7. z.slaveNN = t.rn /\ z.slaveRetx = m.slaveRetx /\ z.passive = m.passive
    BY <1>1 DEF Machines
  <2> HIDE DEF z, st
  <2>8. k.state = st /\ k.consumed = 0 /\ k.slaveNN = t.rn /\ k.slaveRetx = m.slaveRetx /\ k.passive = m.passive
    BY <2>5, <2>6, <2>7 DEF Machines
  <2>9. CASE t.rn = 0
    <3>1. k.state = "SLAVE_CRC" /\ Tail(c) = SlaveEnd(t, y)
      BY <1>2, <2>2, <2>8, <2>9, RunSplit DEF st
    <3>2. Due(t, k, Tail(c))
      BY <2>8, <3>1 DEF Due, MasterDue, SlaveDue, y, MasterStates, SlaveStates, EndStates
    <3> QED
      BY <1>7, <1>14, <2>5, <2>8, <3>2
  <2>10. CASE t.rn # 0
    <3>1. k.state = "SLAVE_DATA" /\ t.rn - k.consumed = t.rn /\ k.consumed < t.rn
      BY <1>3, <2>8, <2>10 DEF st
    <3>2. Due(t, k, Tail(c))
      BY <2>2, <2>8, <3>1 DEF Due, MasterDue, SlaveDue, y, MasterStates, SlaveStates, EndStates
    <3> QED
      BY <1>7, <1>14, <2>5, <2>8, <3>2
  <2> QED
    BY <2>9, <2>10
<1>15. CASE m.state = "SLAVE_RETX"
  <2> DEFINE z == [m EXCEPT !.slaveNN = t.rn]
             st == IF t.rn = 0 THEN "SLAVE_CRC" ELSE "SLAVE_DATA"
  <2>1. c = Then(Plain(t.rn), "SLAVE_RETX", SlaveData(t, t.rn, y)) /\ SlaveData(t, t.rn, y) \in Wire
    BY <1>0, <1>15, Zenon DEF NextDue, y
  <2>2. Tail(c) = SlaveData(t, t.rn, y) /\ s = Plain(t.rn)
    BY <1>3, <1>4, <2>1, PhaseNames
  <2>3. b = t.rn
    BY <1>3, <2>2 DEF b
  <2>4. f = feedSlaveLength(m, t.rn)
    BY <1>5, <1>15, <2>3 DEF Feed, f, b, EndStates, feedSlaveRetx
  <2>5. f.decision = "forward" /\ k = [z EXCEPT !.state = st, !.consumed = 0]
    BY <1>3, <2>4, Limits DEF feedSlaveLength, NextPhase, Forward, k
  <2>6. z \in Machines
    <3>1. t.rn \in Length
      BY <1>3, Limits
    <3> QED
      BY <1>1, <3>1, MachineUpdates, Zenon
  <2>7. z.slaveNN = t.rn /\ z.slaveRetx = m.slaveRetx /\ z.passive = m.passive
    BY <1>1 DEF Machines
  <2> HIDE DEF z, st
  <2>8. k.state = st /\ k.consumed = 0 /\ k.slaveNN = t.rn /\ k.slaveRetx = m.slaveRetx /\ k.passive = m.passive
    BY <2>5, <2>6, <2>7 DEF Machines
  <2>9. CASE t.rn = 0
    <3>1. k.state = "SLAVE_CRC" /\ Tail(c) = SlaveEnd(t, y)
      BY <1>2, <2>2, <2>8, <2>9, RunSplit DEF st
    <3>2. Due(t, k, Tail(c))
      BY <2>8, <3>1 DEF Due, MasterDue, SlaveDue, y, MasterStates, SlaveStates, EndStates
    <3> QED
      BY <1>7, <1>15, <2>5, <2>8, <3>2
  <2>10. CASE t.rn # 0
    <3>1. k.state = "SLAVE_DATA" /\ t.rn - k.consumed = t.rn /\ k.consumed < t.rn
      BY <1>3, <2>8, <2>10 DEF st
    <3>2. Due(t, k, Tail(c))
      BY <2>2, <2>8, <3>1 DEF Due, MasterDue, SlaveDue, y, MasterStates, SlaveStates, EndStates
    <3> QED
      BY <1>7, <1>15, <2>5, <2>8, <3>2
  <2> QED
    BY <2>9, <2>10
<1>16. CASE m.state = "SLAVE_DATA"
  <2>1. m.slaveNN = t.rn /\ m.consumed < t.rn 
    BY <1>16, Zenon DEF Due, SlaveDue
  <2>2. /\ c = Then(t.fill, "SLAVE_DATA", SlaveData(t, t.rn - m.consumed - 1, y))
        /\ SlaveData(t, t.rn - m.consumed - 1, y) \in Wire
    BY <1>0, <1>16, Zenon DEF NextDue, y
  <2>3. Tail(c) = SlaveData(t, t.rn - m.consumed - 1, y)
    BY <1>3, <1>4, <2>2, PhaseNames
  <2>4. f = feedSlaveData(m)
    BY <1>5, <1>16 DEF Feed, f, EndStates
  <2>5. CASE m.consumed + 1 = t.rn
    <3>1. f.decision = "forward" /\ k = [m EXCEPT !.state = "SLAVE_CRC", !.consumed = 0]
      BY <1>1, <1>3, <2>1, <2>4, <2>5 DEF feedSlaveData, NextPhase, Forward, k
    <3>2. k.state = "SLAVE_CRC" /\ k.slaveRetx = m.slaveRetx /\ k.passive = m.passive
      BY <1>1, <2>1, <3>1 DEF Machines
    <3>3. t.rn - m.consumed - 1 = 0
      BY <1>1, <1>3, <2>5
    <3>4. Tail(c) = SlaveEnd(t, y)
      BY <1>2, <2>3, <3>3, RunSplit
    <3>5. Due(t, k, Tail(c))
      BY <1>16, <3>2, <3>4 DEF Due, MasterDue, SlaveDue, y, MasterStates, SlaveStates, EndStates
    <3> QED
      BY <1>7, <1>16, <3>1, <3>2, <3>5
  <2>6. CASE m.consumed + 1 # t.rn
    <3>1. f.decision = "forward" /\ k = [m EXCEPT !.consumed = m.consumed + 1]
      BY <1>1, <1>3, <2>1, <2>4, <2>6 DEF feedSlaveData, Forward, k
    <3>2. /\ k.state = "SLAVE_DATA" /\ k.consumed = m.consumed + 1 /\ k.slaveNN = t.rn /\ k.slaveRetx = m.slaveRetx
          /\ k.passive = m.passive
      BY <1>1, <1>16, <2>1, <3>1 DEF Machines
    <3>3. t.rn - k.consumed = t.rn - m.consumed - 1 /\ k.consumed < t.rn
      BY <1>1, <1>3, <2>1, <2>6, <3>2
    <3>4. Due(t, k, Tail(c))
      BY <1>16, <2>3, <3>2, <3>3 DEF Due, MasterDue, SlaveDue, y, MasterStates, SlaveStates, EndStates
    <3> QED
      BY <1>7, <1>16, <3>1, <3>2, <3>4
  <2> QED
    BY <2>5, <2>6
<1>17. CASE m.state = "SLAVE_CRC"
  <2>1. c = Then(t.fill, "SLAVE_CRC", y)
    BY <1>17, Zenon DEF Due, SlaveDue, y, SlaveEnd
  <2>2. Tail(c) = y
    BY <1>2, <1>3, <1>4, <2>1, PhaseNames
  <2>3. f.decision = "forward" /\ k = [m EXCEPT !.state = "WAIT_SLAVE_ACK"]
    BY <1>5, <1>17 DEF Feed, feedSlaveCRC, Goto, Forward, f, k, EndStates
  <2>4. k.state = "WAIT_SLAVE_ACK" /\ k.slaveRetx = m.slaveRetx /\ k.passive = m.passive
    BY <1>1, <2>3 DEF Machines
  <2>5. Due(t, k, Tail(c))
    BY <2>2, <2>4 DEF Due, MasterDue, SlaveDue, y, MasterStates, SlaveStates, EndStates
  <2> QED
    BY <1>7, <1>17, <2>3, <2>4, <2>5
<1>18. CASE m.state = "WAIT_SLAVE_ACK"
  <2>1. c = y
    BY <1>18, Zenon DEF Due, SlaveDue, y, MasterStates
  <2>2. f = feedWaitSlaveAck(m, b)
    BY <1>5, <1>18 DEF Feed, f, b, EndStates
  <2>3. Completed \in Wire /\ Abandoned \in Wire /\ Then(Plain(t.rn), "SLAVE_RETX", SlaveData(t, t.rn, SlaveAnswer(t, 1))) \in Wire
    <3>1. SlaveAnswer(t, 1) \in Wire /\ t.rn \in Nat
      BY <1>3, SlaveAnswerSplit
    <3>2. SlaveData(t, t.rn, SlaveAnswer(t, 1)) \in Wire
      BY <3>1, PartsTyped
    <3> QED
      BY <1>3, <3>2, EndsTyped, ThenFirst, PhaseNames
  <2>4. CASE y = Then(Plain(ACKByte), "WAIT_SLAVE_ACK", Completed)
    <3>1. Tail(c) = Completed /\ s = Plain(ACKByte)
      BY <1>3, <1>4, <2>1, <2>3, <2>4, PhaseNames
    <3>2. b = 0
      BY <1>3, <3>1 DEF b
    <3>3. f.decision = "forward" /\ k = [m EXCEPT !.state = "WAIT_TERMINATOR_SYN"]
      BY <2>2, <3>2 DEF feedWaitSlaveAck, NextPhase, Goto, Forward, ACKByte, NACKByte, k
    <3>4. k.state = "WAIT_TERMINATOR_SYN" /\ k.passive = m.passive
      BY <1>1, <3>3 DEF Machines
    <3>5. Due(t, k, Tail(c))
      BY <3>1, <3>4, ResponseSplit DEF Due, MasterDue, SlaveDue, MasterStates, SlaveStates, EndStates
    <3> QED
      BY <1>7, <1>18, <3>3, <3>4, <3>5
  <2>5. CASE m.slaveRetx = 0 /\ y = Then(Plain(NACKByte), "WAIT_SLAVE_ACK", Then(Plain(t.rn), "SLAVE_RETX", SlaveData(t, t.rn, SlaveAnswer(t, 1))))
    <3> DEFINE z == [m EXCEPT !.slaveRetx = 1]
    <3>1. Tail(c) = Then(Plain(t.rn), "SLAVE_RETX", SlaveData(t, t.rn, SlaveAnswer(t, 1))) /\ s = Plain(NACKByte)
      BY <1>3, <1>4, <2>1, <2>3, <2>5, PhaseNames
    <3>2. b = 255
      BY <1>3, <3>1 DEF b
    <3>3. f.decision = "forward" /\ k = [z EXCEPT !.state = "SLAVE_RETX"]
      BY <2>2, <2>5, <3>2, Limits DEF feedWaitSlaveAck, Goto, Forward, ACKByte, NACKByte, k
    <3>4. z \in Machines
      BY <1>1, MachineUpdates, Smalls, Zenon
    <3>5. z.slaveRetx = 1 /\ z.passive = m.passive
      BY <1>1 DEF Machines
    <3> HIDE DEF z
    <3>6. k.state = "SLAVE_RETX" /\ k.slaveRetx = 1 /\ k.passive = m.passive
      BY <2>1, <3>3, <3>4, <3>5 DEF Machines
    <3>7. Due(t, k, Tail(c))
      BY <3>1, <3>6 DEF Due, MasterDue, SlaveDue, MasterStates, SlaveStates, EndStates
    <3> QED
      BY <1>7, <1>18, <3>3, <3>6, <3>7
  <2>6. CASE m.slaveRetx = 1 /\ y = Then(Plain(NACKByte), "WAIT_SLAVE_ACK", Abandoned)
    <3>1. Tail(c) = Abandoned /\ s = Plain(NACKByte)
      BY <1>3, <1>4, <2>1, <2>3, <2>6, PhaseNames
    <3>2. b = 255
      BY <1>3, <3>1 DEF b
    <3>3. f.decision = "forward" /\ k = [m EXCEPT !.state = "ABORTED"]
      BY <2>2, <2>6, <3>2, Limits DEF feedWaitSlaveAck, Goto, Forward, ACKByte, NACKByte, k
    <3>4. k.state = "ABORTED" /\ k.passive = m.passive
      BY <1>1, <3>3 DEF Machines
    <3>5. Due(t, k, Tail(c))
      BY <3>1, <3>4 DEF Due, MasterDue, SlaveDue, MasterStates, SlaveStates, EndStates
    <3> QED
      BY <1>7, <1>18, <3>3, <3>4, <3>5
  <2>7. m.slaveRetx = 0 \/ m.slaveRetx = 1
    BY <1>1
  <2>8. /\ m.slaveRetx = 0 => y = SlaveAnswer(t, 0)
        /\ m.slaveRetx = 1 => y = SlaveAnswer(t, 1)
    BY Zenon DEF y
  <2> QED
    BY <2>1, <2>4, <2>5, <2>6, <2>7, <2>8, SlaveAnswerSplit, Zenon
<1>19. CASE m.state = "WAIT_TERMINATOR_SYN"
  <2>1. c = Completed
    BY <1>19, Zenon DEF Due
  <2>2. s = RawSyn /\ Tail(c) = <<>>
    BY <2>1, EndsTyped DEF s
  <2>3. f.decision = "forward" /\ k = Fresh
    BY <1>19, <2>2 DEF Feed, f, k, IsInjection, feedWaitTerminatorSyn, ResetToIdle, Forward
  <2> QED
    BY <1>19, <2>2, <2>3 DEF Goal
<1>20. m.state \in MasterStates \cup SlaveStates \cup EndStates
  BY DEF Due
<1> QED
  BY <1>8, <1>9, <1>10, <1>11, <1>12, <1>13, <1>14, <1>15, <1>16, <1>17, <1>18, <1>19, <1>20
     DEF MasterStates, SlaveStates, EndStates

-----------------------------------------------------------------------------
(* The machine on the bus.                                                 *)

\* Before the first exchange.
LEMMA FollowInit == FsmInit => FollowInv
<1> QED
  BY FreshOK DEF FsmInit, FollowInv

\* An exchange that begins is due from its first byte on, or, when that byte came
\* without STARTED, from its second.
LEMMA StartsFollow ==
  ASSUME FollowInv, NEW t \in Exchanged, Starts(t)
  PROVE  FollowInv'
<1> DEFINE x == MasterAnswer(t, 0)
<1>1. machine = Fresh /\ inStep = TRUE /\ inStep' = TRUE /\ misjudged' = FALSE
  BY DEF Starts, FollowInv
<1>2. Plain(Source) \in WireSymbols /\ Header(t, x) \in Wire
  <2>1. x \in Wire
    BY MasterAnswerSplit
  <2> QED
    BY <2>1, PartsTyped, TelegramSymbols
<1>3. Exchange(t) = Then(Plain(Source), "ARBITRATING", Header(t, x)) /\ Tail(Exchange(t)) = Header(t, x)
  BY <1>2, ExchangeSplit, ThenFirst, PhaseNames, SMTT(30)
<1> HIDE DEF x
<1>4. CASE machine' = EnterArbitrating(machine) /\ coming' = Exchange(t) /\ foreign' = FALSE
  <2>1. machine' = [Fresh EXCEPT !.state = "ARBITRATING", !.passive = FALSE]
    BY <1>1, <1>4 DEF EnterArbitrating
  <2>2. /\ machine'.state = "ARBITRATING" /\ machine'.masterNN = 0 /\ machine'.masterRetx = 0
        /\ machine'.slaveRetx = 0 /\ machine'.passive = FALSE
    BY <2>1 DEF Fresh
  <2>3. MachineOK(machine')
    <3>1. "ARBITRATING" \in FsmStates /\ 0 \in Octet /\ 0 \in Count /\ 0 \in Again /\ 0 \in Length /\ FALSE \in BOOLEAN
      BY PhaseNames, Limits
    <3>2. machine' = [state |-> "ARBITRATING", masterNN |-> 0, consumed |-> 0, masterDest |-> 0, masterRetx |-> 0,
                      slaveNN |-> 0, slaveRetx |-> 0, passive |-> FALSE]
      BY <2>1 DEF Fresh
    <3>3. machine' \in Machines
      BY <3>1, <3>2, Zenon DEF Machines
    <3> QED
      BY <2>2, <3>3, Limits DEF MachineOK
  <2>4. Due(t, machine', coming')
    BY <1>3, <1>4, <2>2 DEF Due, MasterDue, SlaveDue, x, MasterStates, SlaveStates, EndStates
  <2>5. coming' # <<>>
    BY <2>3, <2>4, DueFirst
  <2> QED
    BY <1>1, <1>4, <2>2, <2>3, <2>4, <2>5 DEF FollowInv
<1>5. CASE machine' = EnterPassiveTracking(machine) /\ coming' = Tail(Exchange(t)) /\ foreign' = TRUE
  <2>1. machine' = [Fresh EXCEPT !.state = "MASTER_HEADER", !.consumed = 1, !.passive = TRUE]
    BY <1>5 DEF EnterPassiveTracking
  <2>2. /\ machine'.state = "MASTER_HEADER" /\ machine'.masterNN = 0 /\ machine'.masterRetx = 0
        /\ machine'.slaveRetx = 0 /\ machine'.passive = TRUE /\ machine'.consumed = 1
    BY <2>1 DEF Fresh
  <2>3. MachineOK(machine')
    <3>1. "MASTER_HEADER" \in FsmStates /\ 0 \in Octet /\ 1 \in Count /\ 0 \in Again /\ 0 \in Length /\ TRUE \in BOOLEAN
      BY PhaseNames, Limits
    <3>2. machine' = [state |-> "MASTER_HEADER", masterNN |-> 0, consumed |-> 1, masterDest |-> 0, masterRetx |-> 0,
                      slaveNN |-> 0, slaveRetx |-> 0, passive |-> TRUE]
      BY <2>1 DEF Fresh
    <3>3. machine' \in Machines
      BY <3>1, <3>2, Zenon DEF Machines
    <3> QED
      BY <2>2, <3>3, Limits DEF MachineOK
  <2>4. Due(t, machine', coming')
    BY <1>3, <1>5, <2>2 DEF Due, MasterDue, SlaveDue, x, MasterStates, SlaveStates, EndStates
  <2>5. coming' # <<>>
    BY <2>3, <2>4, DueFirst
  <2> QED
    BY <1>1, <1>5, <2>2, <2>3, <2>4, <2>5 DEF FollowInv
<1> QED
  BY <1>4, <1>5 DEF Starts

\* A symbol of the exchange.
LEMMA DeliversFollow ==
  ASSUME FollowInv, Delivers
  PROVE  FollowInv'
<1>1. PICK t \in Exchanged : Due(t, machine, coming)
  BY DEF Delivers, FollowInv
<1> DEFINE f == Feed(machine, Head(coming).symbol)
<1>2. MachineOK(machine) /\ machine.state # "ABORTED" /\ machine.passive = foreign /\ inStep = TRUE
  BY DEF Delivers, FollowInv
<1>3. Head(coming).symbol \in WireSymbols
  BY <1>1, <1>2, DueFirst
<1>4. MachineOK(f.m)
  BY <1>2, <1>3, FeedTyped
<1>5. /\ f.decision = "forward"
      /\ machine.state = "WAIT_TERMINATOR_SYN" => f.m = Fresh /\ Tail(coming) = <<>>
      /\ machine.state # "WAIT_TERMINATOR_SYN" => Due(t, f.m, Tail(coming)) /\ f.m.passive = machine.passive
  BY <1>1, <1>2, FeedDue, Zenon
<1>6. /\ machine' = f.m /\ misjudged' = (misjudged \/ f.decision # "forward") /\ coming' = Tail(coming)
      /\ foreign' = foreign /\ inStep' = inStep
  BY Zenon DEF Delivers
<1> HIDE DEF f
<1>7. misjudged' = FALSE
  BY <1>5, <1>6 DEF FollowInv
<1>8. CASE machine.state = "WAIT_TERMINATOR_SYN"
  BY <1>4, <1>5, <1>6, <1>7, <1>8 DEF FollowInv
<1>9. CASE machine.state # "WAIT_TERMINATOR_SYN"
  <2>1. Due(t, machine', coming') /\ machine'.passive = foreign' /\ MachineOK(machine')
    BY <1>2, <1>4, <1>5, <1>6, <1>9
  <2>2. coming' # <<>>
    BY <2>1, DueFirst
  <2> QED
    BY <1>6, <1>7, <2>1, <2>2 DEF FollowInv
<1> QED
  BY <1>8, <1>9

\* An injected symbol, wherever it is not taken for the terminator, is dropped.
LEMMA InjectsFollow ==
  ASSUME FollowInv, Injects
  PROVE  FollowInv'
<1>1. PICK t \in Exchanged : Due(t, machine, coming)
  BY DEF Injects, FollowInv
<1>2. Head(coming).phase = machine.state /\ machine.state # "IDLE"
  <2>1. machine.state \in MasterStates \cup SlaveStates \cup EndStates
    BY <1>1, Zenon DEF Due
  <2> QED
    BY <1>1, <2>1, DueFirst DEF FollowInv, MasterStates, SlaveStates, EndStates
<1> DEFINE f == Feed(machine, RawSyn)
<1>3. f.m = machine /\ f.decision = "drop"
  BY <1>2 DEF Injects, Feed, IsInjection, Drop
<1>4. /\ machine' = f.m /\ misjudged' = (misjudged \/ f.decision # "drop")
      /\ coming' = coming /\ foreign' = foreign /\ inStep' = inStep
  BY Zenon DEF Injects
<1> HIDE DEF f
<1>5. machine' = machine /\ misjudged' = FALSE
  BY <1>3, <1>4 DEF FollowInv
<1> QED
  BY <1>4, <1>5 DEF FollowInv

\* WireSymbols of a garbled stream.
LEMMA StraysFollow ==
  ASSUME FollowInv, NEW s \in Stray, Strays(s)
  PROVE  FollowInv'
<1>1. s \in WireSymbols
  BY FsmAssumption, Zenon DEF WireSymbols
<1>2. MachineOK(machine')
  BY <1>1, FeedTyped DEF Strays, FollowInv
<1> QED
  BY <1>2 DEF Strays, FollowInv

\* Garbling gives the exchange up, a reset begins anew.
LEMMA ResetsFollow ==
  ASSUME FollowInv, Garbles \/ Resets
  PROVE  FollowInv'
<1>1. CASE Garbles
  BY <1>1 DEF Garbles, FollowInv
<1>2. CASE Resets
  BY <1>2, FreshOK DEF Resets, ResetToIdle, FollowInv
<1> QED
  BY <1>1, <1>2

\* The invariant of the machine holds of every behaviour.
LEMMA FollowInvHolds == FsmSpec => []FollowInv
<1>1. FollowInv /\ [FsmNext]_fsmVars => FollowInv'
  <2> SUFFICES ASSUME FollowInv, [FsmNext]_fsmVars PROVE FollowInv'
    OBVIOUS
  <2>1. CASE UNCHANGED fsmVars
    BY <2>1 DEF fsmVars, FollowInv
  <2>2. CASE FsmNext
    BY <2>2, StartsFollow, DeliversFollow, InjectsFollow, StraysFollow, ResetsFollow DEF FsmNext
  <2> QED
    BY <2>1, <2>2
<1> QED
  BY <1>1, FollowInit, PTL DEF FsmSpec

\* TelegramFollowed for any lengths and fillings: whatever is injected, garbled or reset,
\* the telegram machine of fsm.go is in the phase of the symbol that comes next, forwards
\* the telegram's symbols and no injected ones, and counts within its limits.
THEOREM TelegramIsFollowed == FsmSpec => []TelegramFollowed
<1>1. FollowInv => TelegramFollowed
  <2> SUFFICES ASSUME FollowInv PROVE TelegramFollowed
    OBVIOUS
  <2>1. FsmTypeOK
    <3>1. machine \in Machines /\ (machine.state \notin {"MASTER_HEADER", "ABORTED"} => machine.masterNN <= MaxLengthByte)
      BY DEF FollowInv, MachineOK
    <3>2. FsmStates = {"IDLE", "ARBITRATING", "MASTER_HEADER", "MASTER_DATA", "MASTER_CRC",
                       "WAIT_MASTER_ACK", "MASTER_RETX", "SLAVE_LENGTH", "SLAVE_DATA", "SLAVE_CRC",
                       "WAIT_SLAVE_ACK", "SLAVE_RETX", "WAIT_TERMINATOR_SYN", "ABORTED"}
      BY DEF FsmStates, MasterStates, SlaveStates, EndStates
    <3>3. foreign \in BOOLEAN /\ inStep \in BOOLEAN /\ misjudged \in BOOLEAN
      BY DEF FollowInv
    <3>4. {foreign, inStep, misjudged} \subseteq BOOLEAN
      BY <3>3, Zenon
    <3> QED
      BY <3>1, <3>2, <3>4, Zenon DEF FsmTypeOK, Machines, Octet, Count, Length, Again
  <2>2. OnlyInjectionsDropped
    BY DEF FollowInv, OnlyInjectionsDropped
  <2>3. InStep
    <3> SUFFICES ASSUME inStep, coming # <<>>
                 PROVE  /\ machine.state = Head(coming).phase
                        /\ State(machine) = IF foreign /\ Head(coming).phase # "ABORTED" THEN "PASSIVE_TRACKING"
                                            ELSE Head(coming).phase
      BY DEF InStep, FollowInv
    <3>1. PICK t \in Exchanged : Due(t, machine, coming)
      BY DEF FollowInv
    <3>2. Head(coming).phase = machine.state /\ machine.state # "IDLE"
      <4>1. machine.state \in MasterStates \cup SlaveStates \cup EndStates
        BY <3>1, Zenon DEF Due
      <4> QED
        BY <3>1, <4>1, DueFirst DEF FollowInv, MasterStates, SlaveStates, EndStates
    <3>3. machine.passive = foreign /\ foreign \in BOOLEAN
      BY DEF FollowInv
    <3> QED
      BY <3>2, <3>3 DEF State
  <2> QED
    BY <2>1, <2>2, <2>3 DEF TelegramFollowed
<1> QED
  BY <1>1, FollowInvHolds, PTL DEF FsmSpec

-----------------------------------------------------------------------------
(* The selector's inquiry budget.                                          *)

\* The calls that are at one of some places.
At(places) == {c \in Callers : stage[c] \in places}

\* Between shouldRunInquiry and markInquiryAttempt a call is allowed to inquire and
\* is not counted yet; until markInquiryResult it is counted and has no result.
Allowance == At({"mark"})
Unanswered == At({"inquire", "followup"})

Places == {"idle", "warmup", "ask", "mark", "inquire", "followup", "choose", "done"}

\* The types of the shared state and of the places.
SharedTypeOK ==
  /\ inquiryAttempts \in Nat /\ noNew \in Nat /\ disabled \in BOOLEAN /\ cooling \in BOOLEAN
  /\ stage \in [Callers -> Places]

\* What is allowed and not counted fits beside the count.
AllowanceInv == inquiryAttempts + Cardinality(Allowance) <= InquiryMaxAttempts + Cardinality(Callers) - 1

\* Every inquiry that found nothing was counted, and so were those without a result.
CountInv == noNew + Cardinality(Unanswered) <= inquiryAttempts

SelectorInv == SharedTypeOK /\ AllowanceInv /\ CountInv /\ DisabledAfterBudget

-----------------------------------------------------------------------------
(* Counting callers.                                                       *)

\* The callers at some places are finitely many, and not more than there are.
LEMMA AtFinite ==
  ASSUME NEW places
  PROVE  /\ IsFiniteSet(At(places)) /\ Cardinality(At(places)) \in Nat
         /\ Cardinality(Callers) \in Nat /\ Cardinality(At(places)) <= Cardinality(Callers)
<1>1. At(places) \in SUBSET Callers
  BY DEF At
<1> QED
  BY <1>1, CallersAssumption, FS_Subset, FS_CardinalityType

\* A caller that goes from one place to another changes the count by its own part.
LEMMA AtMoves ==
  ASSUME SharedTypeOK, NEW c \in Callers, NEW to \in Places, stage' = [stage EXCEPT ![c] = to],
         NEW places
  PROVE  /\ (stage[c] \in places <=> to \in places) => Cardinality(At(places)') = Cardinality(At(places))
         /\ stage[c] \in places /\ to \notin places => Cardinality(At(places)') = Cardinality(At(places)) - 1
         /\ stage[c] \notin places /\ to \in places => Cardinality(At(places)') = Cardinality(At(places)) + 1
<1>1. \A d \in Callers : stage'[d] = IF d = c THEN to ELSE stage[d]
  BY DEF SharedTypeOK
<1>2. ASSUME stage[c] \in places <=> to \in places
      PROVE  At(places)' = At(places)
  BY <1>1, <1>2 DEF At
<1>3. ASSUME stage[c] \in places, to \notin places
      PROVE  At(places)' = At(places) \ {c} /\ c \in At(places)
  BY <1>1, <1>3 DEF At
<1>4. ASSUME stage[c] \notin places, to \in places
      PROVE  At(places)' = At(places) \cup {c} /\ c \notin At(places)
  BY <1>1, <1>4 DEF At
<1> QED
  BY <1>2, <1>3, <1>4, AtFinite, FS_AddElement, FS_RemoveElement

-----------------------------------------------------------------------------
(* The steps.                                                              *)

\* The places that count for the budget.
Counting == {"mark", "inquire", "followup"}

\* A call that neither comes from nor goes to a counting place, with the selector
\* left alone, changes nothing.
LEMMA Elsewhere ==
  ASSUME SelectorInv, NEW c \in Callers, NEW to \in Places, stage' = [stage EXCEPT ![c] = to],
         stage[c] \notin Counting, to \notin Counting, UNCHANGED selector
  PROVE  SelectorInv'
<1>1. Cardinality(Allowance') = Cardinality(Allowance) /\ Cardinality(Unanswered') = Cardinality(Unanswered)
  BY AtMoves DEF SelectorInv, Allowance, Unanswered, Counting
<1>2. SharedTypeOK'
  BY DEF SelectorInv, SharedTypeOK, selector
<1> QED
  BY <1>1, <1>2 DEF SelectorInv, AllowanceInv, CountInv, DisabledAfterBudget, selector

\* An inquiry that is over, with its result or without one.
LEMMA Answered ==
  ASSUME SelectorInv, NEW c \in Callers, NEW to \in {"choose", "done"}, stage' = [stage EXCEPT ![c] = to],
         stage[c] \in {"inquire", "followup"},
         \/ UNCHANGED selector
         \/ \E foundNew \in BOOLEAN : InquiryResult(foundNew)
  PROVE  SelectorInv'
<1>1. to \in Places
  BY DEF Places
<1>2. Cardinality(Allowance') = Cardinality(Allowance) /\ Cardinality(Unanswered') = Cardinality(Unanswered) - 1
  BY <1>1, AtMoves DEF SelectorInv, Allowance, Unanswered
<1>3. Cardinality(Unanswered') \in Nat /\ Cardinality(Unanswered) \in Nat /\ Cardinality(Unanswered) >= 1
  <2>1. Cardinality(Unanswered) \in Nat /\ IsFiniteSet(Unanswered)
    BY AtFinite DEF Unanswered
  <2>2. c \in Unanswered
    BY DEF Unanswered, At
  <2>3. Cardinality(Unanswered) # 0
    BY <2>1, <2>2, FS_EmptySet
  <2> QED
    BY <1>2, <2>1, <2>3
<1>4. stage' \in [Callers -> Places]
  BY <1>1 DEF SelectorInv, SharedTypeOK
<1>5. CASE UNCHANGED selector
  BY <1>2, <1>3, <1>4, <1>5 DEF SelectorInv, SharedTypeOK, AllowanceInv, CountInv, DisabledAfterBudget, selector
<1>6. ASSUME NEW foundNew \in BOOLEAN, InquiryResult(foundNew) PROVE SelectorInv'
  <2>1. /\ inquiryAttempts' = inquiryAttempts /\ cooling' \in BOOLEAN
        /\ noNew' \in Nat /\ noNew' <= noNew + 1
        /\ disabled' \in BOOLEAN
        /\ disabled' => disabled \/ noNew + 1 >= InquiryMaxAttempts
    BY <1>6 DEF InquiryResult, SelectorInv, SharedTypeOK
  <2>2. SharedTypeOK'
    <3>1. inquiryAttempts' \in Nat
      BY <2>1 DEF SelectorInv, SharedTypeOK
    <3> QED
      BY <1>4, <2>1, <3>1, Zenon DEF SharedTypeOK
  <2>3. AllowanceInv'
    BY <1>2, <2>1 DEF SelectorInv, AllowanceInv
  <2>4. CountInv' /\ noNew + 1 <= inquiryAttempts
    BY <1>2, <1>3, <2>1 DEF SelectorInv, SharedTypeOK, CountInv
  <2>5. DisabledAfterBudget'
    BY <2>1, <2>4, AttemptsAssumption DEF SelectorInv, SharedTypeOK, DisabledAfterBudget
  <2> QED
    BY <2>2, <2>3, <2>4, <2>5 DEF SelectorInv
<1> QED
  BY <1>5, <1>6

\* Every step of a call keeps the budget.
LEMMA CallStep ==
  ASSUME SelectorInv, NEW c \in Callers, SelectStep(c)
  PROVE  SelectorInv'
<1> USE DEF Pass, Leave
<1>1. CASE Select(c)
  BY <1>1, Elsewhere DEF Select, Places, Counting
<1>2. CASE WarmupEnds(c)
  BY <1>2, Elsewhere DEF WarmupEnds, Places, Counting
<1>3. CASE ShouldRunInquiry(c)
  <2>1. CASE ~Allowed
    BY <1>3, <2>1, Elsewhere DEF ShouldRunInquiry, Places, Counting
  <2>2. CASE Allowed
    <3>1. stage[c] = "ask" /\ stage' = [stage EXCEPT ![c] = "mark"] /\ "mark" \in Places /\ UNCHANGED selector
      BY <1>3, <2>2 DEF ShouldRunInquiry, Places
    <3>2. Cardinality(Unanswered') = Cardinality(Unanswered)
      BY <3>1, AtMoves DEF SelectorInv, Unanswered
    <3>3. Cardinality(Allowance') <= Cardinality(Callers) /\ Cardinality(Allowance') \in Nat
          /\ Cardinality(Callers) \in Nat
      <4>1. Allowance' \in SUBSET Callers
        BY DEF Allowance, At
      <4> QED
        BY <4>1, CallersAssumption, FS_Subset, FS_CardinalityType
    <3>4. SharedTypeOK'
      BY <3>1 DEF SelectorInv, SharedTypeOK, selector
    <3>5. AllowanceInv'
      BY <2>2, <3>1, <3>3, AttemptsAssumption DEF Allowed, SelectorInv, SharedTypeOK, AllowanceInv, selector
    <3> QED
      BY <3>1, <3>2, <3>4, <3>5 DEF SelectorInv, CountInv, DisabledAfterBudget, selector
  <2> QED
    BY <2>1, <2>2
<1>4. CASE MarkInquiryAttempt(c)
  <2>1. /\ stage[c] = "mark" /\ stage' = [stage EXCEPT ![c] = "inquire"] /\ "inquire" \in Places
        /\ inquiryAttempts' = inquiryAttempts + 1 /\ cooling' = TRUE /\ UNCHANGED <<noNew, disabled>>
    BY <1>4 DEF MarkInquiryAttempt, Places
  <2>2. /\ Cardinality(Allowance') = Cardinality(Allowance) - 1
        /\ Cardinality(Unanswered') = Cardinality(Unanswered) + 1
    BY <2>1, AtMoves DEF SelectorInv, Allowance, Unanswered
  <2>3. Cardinality(Allowance) \in Nat /\ Cardinality(Unanswered) \in Nat /\ Cardinality(Callers) \in Nat
    BY AtFinite DEF Allowance, Unanswered
  <2>4. SharedTypeOK'
    BY <2>1 DEF SelectorInv, SharedTypeOK
  <2>5. AllowanceInv' /\ CountInv' /\ DisabledAfterBudget'
    BY <2>1, <2>2, <2>3, AttemptsAssumption
       DEF SelectorInv, SharedTypeOK, AllowanceInv, CountInv, DisabledAfterBudget
  <2> QED
    BY <2>4, <2>5 DEF SelectorInv
<1>5. CASE InquiryExistence(c)
  <2>1. CASE Pass(c, "inquire", "followup") /\ UNCHANGED selector
    <3>1. "followup" \in Places
      BY DEF Places
    <3>2. Cardinality(Allowance') = Cardinality(Allowance) /\ Cardinality(Unanswered') = Cardinality(Unanswered)
      BY <2>1, <3>1, AtMoves DEF SelectorInv, Allowance, Unanswered
    <3>3. SharedTypeOK'
      BY <2>1, <3>1 DEF SelectorInv, SharedTypeOK, selector
    <3> QED
      BY <2>1, <3>2, <3>3 DEF SelectorInv, AllowanceInv, CountInv, DisabledAfterBudget, selector
  <2>2. CASE Leave(c, "inquire", "context ended") /\ UNCHANGED selector
    BY <2>2, Answered
  <2>3. CASE Pass(c, "inquire", "choose") /\ InquiryResult(FALSE)
    BY <2>3, Answered
  <2> QED
    BY <1>5, <2>1, <2>2, <2>3 DEF InquiryExistence
<1>6. CASE FollowupEnds(c)
  <2>1. CASE Leave(c, "followup", "bus error") /\ UNCHANGED selector
    BY <2>1, Answered
  <2>2. CASE Pass(c, "followup", "choose") /\ InquiryResult(Cardinality(ObservedSourceAddresses(c)) > before[c])
    <3>1. InquiryResult(TRUE) \/ InquiryResult(FALSE)
      <4>1. CASE Cardinality(ObservedSourceAddresses(c)) > before[c]
        BY <2>2, <4>1 DEF InquiryResult
      <4>2. CASE ~(Cardinality(ObservedSourceAddresses(c)) > before[c])
        BY <2>2, <4>2 DEF InquiryResult
      <4> QED
        BY <4>1, <4>2
    <3> QED
      BY <2>2, <3>1, Answered
  <2> QED
    BY <1>6, <2>1, <2>2 DEF FollowupEnds
<1>7. CASE Choose(c)
  BY <1>7, Elsewhere DEF Choose, Places, Counting
<1> QED
  BY <1>1, <1>2, <1>3, <1>4, <1>5, <1>6, <1>7 DEF SelectStep

\* The first state keeps it.
LEMMA InitSelector == SelectionInit => SelectorInv
<1> SUFFICES ASSUME SelectionInit PROVE SelectorInv
  OBVIOUS
<1>1. SharedTypeOK /\ DisabledAfterBudget
  BY DEF SelectionInit, SharedTypeOK, Places, DisabledAfterBudget
<1>2. Allowance = {} /\ Unanswered = {}
  BY DEF SelectionInit, Allowance, Unanswered, At
<1>3. Cardinality(Allowance) = 0 /\ Cardinality(Unanswered) = 0 /\ Cardinality(Callers) \in Nat
  BY <1>2, FS_EmptySet, CallersAssumption, FS_CardinalityType
<1> QED
  BY <1>1, <1>3, AttemptsAssumption DEF SelectionInit, SelectorInv, AllowanceInv, CountInv

\* Every step keeps it.
LEMMA NextSelector ==
  ASSUME SelectorInv, [SelectionNext]_selectionVars
  PROVE  SelectorInv'
<1>1. CASE UNCHANGED <<stage, inquiryAttempts, noNew, disabled>> /\ cooling' \in BOOLEAN
  <2>1. Allowance' = Allowance /\ Unanswered' = Unanswered
    BY <1>1 DEF Allowance, Unanswered, At
  <2> QED
    BY <1>1, <2>1 DEF SelectorInv, SharedTypeOK, AllowanceInv, CountInv, DisabledAfterBudget
<1>2. CASE \E c \in Callers : SelectStep(c)
  BY <1>2, CallStep
<1>3. cooling \in BOOLEAN
  BY DEF SelectorInv, SharedTypeOK
<1> QED
  BY <1>1, <1>2, <1>3 DEF SelectionNext, CooldownEnds, Cancel, Hear, selectionVars, selector

\* The budget follows: nothing is allowed that does not fit.
LEMMA SelectorGivesBudget == SelectorInv => BudgetKept
<1> SUFFICES ASSUME SelectorInv PROVE BudgetKept
  OBVIOUS
<1>1. Cardinality(Allowance) \in Nat /\ Cardinality(Callers) \in Nat
  BY AtFinite DEF Allowance
<1> QED
  BY <1>1, AttemptsAssumption
     DEF SelectorInv, SharedTypeOK, AllowanceInv, BudgetKept, InquiryBudget, DisabledAfterBudget

-----------------------------------------------------------------------------
(* The theorem.                                                            *)

\* However many calls of Select run at once, and whatever they hear: the selector
\* sends at most one inquiry per call more than InquiryMaxAttempts, less one, and it
\* gives inquiries up only when its budget is used.
THEOREM BudgetIsKept == SelectionSpec => []BudgetKept
<1>1. SelectionInit => SelectorInv
  BY InitSelector
<1>2. SelectorInv /\ [SelectionNext]_selectionVars => SelectorInv'
  BY NextSelector
<1>3. SelectorInv => BudgetKept
  BY SelectorGivesBudget
<1> QED
  BY <1>1, <1>2, <1>3, PTL DEF SelectionSpec

-----------------------------------------------------------------------------
(* The transaction: what is written, read and still to be written.         *)

\* What the log holds.
Told == {"ack", "nack", "good", "bad"}
Marks == ({"w"} \X Seq(0 .. 255) \X BOOLEAN) \cup ({"r"} \X Told)
Logs == Seq(Marks)

\* A symbol that is to be written, and its mark in the log when it is confirmed.
Queued == [symbol : 0 .. 255, esc : BOOLEAN, first : BOOLEAN]
Mark(item) ==
  <<"w", IF Whole(item) THEN <<item.symbol>> ELSE <<SymbolEscape, item.symbol - SymbolEscape>>,
    ~item.esc /\ item.symbol = SymbolSyn>>
Rest(items) == [i \in 1 .. Len(items) |-> Mark(items[i])]

\* The exchange after c repetitions of the command, with its acknowledgement, and after n
\* refusals of the response.
Asked(c) == IF c = 0 THEN FirstCommand ELSE Repeated
Agreed(c) == Cat(Asked(c), Received("ack"))
Refusals(c, n) == IF n = 0 THEN Agreed(c) ELSE Cat(Agreed(c), Refusal)
GivenUp(c) == Cat(Cat(Agreed(c), Refusal), Refusal)
Rejected == Cat(Repeated, Received("nack"))
Once == {0, 1}

\* What the log will be when all that is to be written is confirmed.
Planned(a, c, n, l) ==
  /\ a = "ack" => c \in Once /\ n = 0 /\ frameType # "M2BC" /\ l = Asked(c)
  /\ a = "ok" => l \in Exchanges("ok")
  /\ a = "nack" => l = Cat(Rejected, Terminator)
  /\ a = "length" => frameType = "M2S" /\ c \in Once /\ n = 1 /\ l = Refusals(c, 1)
  /\ a = "crcEnd" => c \in Once /\ l = GivenUp(c)
  /\ a = "crc" => c \in Once /\ l = Cat(GivenUp(c), Terminator)

Writing == {"write", "echo", "drain"}
Answering == {"length", "data", "crc"}

\* How far the exchange is at each place.
Progress(p, o, s, a, c, n, l) ==
  /\ p = "command" => n = 0 /\ \/ c = 0 /\ l = <<>>
                               \/ c = 1 /\ frameType # "M2BC" /\ l = Cat(FirstCommand, Received("nack"))
  /\ p \in Writing => /\ o # <<>> /\ Planned(a, c, n, Cat(l, Rest(o)))
                      /\ a \in {"nack", "crc"} => o = EndOfMessage
                      /\ s # <<>> => ~Whole(Head(o))
  /\ p = "drain" => kind = "flagged" /\ Head(o).symbol = SymbolSyn /\ Head(o).esc
  /\ p = "ack" => c \in Once /\ n = 0 /\ frameType # "M2BC" /\ l = Asked(c)
  /\ p \in Answering => frameType = "M2S" /\ c \in Once /\ n \in Once /\ l = Refusals(c, n)
  /\ p \in ReadingPcs \cup {"command"} => s = <<>>

\* The log and the half of a symbol begin an exchange.
Begins(l, s, exchange) ==
  /\ IsPrefix(l, exchange)
  /\ s # <<>> => Len(l) < Len(exchange) /\ IsPrefix(s, exchange[Len(l) + 1][2])
Legal(l, s) == \E verdict \in {"ok", "nack", "crc"} : \E exchange \in Exchanges(verdict) : Begins(l, s, exchange)

\* An outcome is there at the end only, and is that of a whole exchange.
OutcomeOK(p, verdict, l) ==
  /\ p \notin {"done", "idle"} => verdict = "none"
  /\ verdict \in {"ok", "nack", "crc"} => l \in Exchanges(verdict)

\* The counters that a loop is entered with.
Room(p, drained, bytes) == (p = "drain" => drained < maxPayloadAaAutoSynDrains) /\ (p = "data" => bytes > 0)

ExchangeInv ==
  /\ TransactionTypeOK /\ log \in Logs
  /\ Room(place, absorbed, left)
  /\ EchoesAreOurs
  /\ Progress(place, out, sent, after, commandAttempt, respAttempt, log)
  /\ place \in {"done", "idle"} => Legal(log, sent)
  /\ OutcomeOK(place, outcome, log)

-----------------------------------------------------------------------------
(* The exchanges as sequences of marks.                                    *)

\* The telegram and the transport.
Input == kind \in {"plain", "flagged", "unflagged"} /\ telegram \in Telegrams /\ includeSource \in BOOLEAN

\* Joining marks.
LEMMA Joined ==
  ASSUME NEW x \in Logs, NEW y \in Logs
  PROVE  /\ Cat(x, y) \in Logs /\ Cat(x, <<>>) = x /\ Cat(<<>>, x) = x /\ <<>> \in Logs
         /\ \A z \in Logs : Cat(Cat(x, y), z) = Cat(x, Cat(y, z))
<1>1. x \o y \in Logs /\ x \o <<>> = x /\ <<>> \o x = x /\ <<>> \in Logs
  BY DEF Logs
<1>2. ASSUME NEW z \in Logs PROVE (x \o y) \o z = x \o (y \o z)
  BY DEF Logs
<1> QED
  BY <1>1, <1>2, Zenon DEF Cat

\* A mark is one, and that of an escaped symbol is what the exchange has of it.
LEMMA MarkOf ==
  ASSUME NEW item \in Queued
  PROVE  Mark(item) \in Marks /\ (item.esc => Mark(item) = Sent(item.symbol))
<1>1. item.symbol \in 0 .. 255 /\ item.esc \in BOOLEAN
  BY DEF Queued
<1>2. (IF Whole(item) THEN <<item.symbol>> ELSE <<SymbolEscape, item.symbol - SymbolEscape>>) \in Seq(0 .. 255)
  <2>1. CASE Whole(item)
    BY <2>1, <1>1
  <2>2. CASE ~Whole(item)
    <3>1. item.symbol \in {169, 170}
      BY <2>2 DEF Whole, SymbolEscape, SymbolSyn
    <3> QED
      BY <2>2, <3>1 DEF SymbolEscape
  <2> QED
    BY <2>1, <2>2
<1>3. (~item.esc /\ item.symbol = SymbolSyn) \in BOOLEAN
  OBVIOUS
<1>4. Mark(item) \in {"w"} \X Seq(0 .. 255) \X BOOLEAN
  BY <1>2, <1>3, Zenon DEF Mark
<1>5. item.esc => Mark(item) = Sent(item.symbol)
  BY <1>1 DEF Mark, Sent, Whole
<1> QED
  BY <1>4, <1>5, Zenon DEF Marks

\* What is left to be written, symbol by symbol and part by part.
LEMMA RestOf ==
  ASSUME NEW o \in Seq(Queued)
  PROVE  /\ Rest(o) \in Logs /\ Len(Rest(o)) = Len(o)
         /\ o # <<>> => Rest(o) = Cat(<<Mark(Head(o))>>, Rest(Tail(o)))
         /\ \A q \in Seq(Queued) : Rest(o \o q) = Cat(Rest(o), Rest(q))
<1> DEFINE m(i) == Mark(o[i])
<1>1. \A i \in 1 .. Len(o) : Mark(o[i]) \in Marks
  BY MarkOf
<1>2. Rest(o) \in Logs /\ Len(Rest(o)) = Len(o)
  BY <1>1 DEF Rest, Logs
<1>3. ASSUME o # <<>> PROVE Rest(o) = Cat(<<Mark(Head(o))>>, Rest(Tail(o)))
  <2>1. Head(o) = o[1] /\ Len(Tail(o)) = Len(o) - 1 /\ \A i \in 1 .. Len(o) - 1 : Tail(o)[i] = o[i + 1]
    BY <1>3
  <2>2. Rest(Tail(o)) = [i \in 1 .. Len(o) - 1 |-> Mark(o[i + 1])]
    BY <2>1, Zenon DEF Rest
  <2>3. <<Mark(o[1])>> \o [i \in 1 .. Len(o) - 1 |-> Mark(o[i + 1])] = [i \in 1 .. Len(o) |-> Mark(o[i])]
    BY <1>1, <1>3
  <2> QED
    BY <2>1, <2>2, <2>3, Zenon DEF Rest, Cat
<1>4. ASSUME NEW q \in Seq(Queued) PROVE Rest(o \o q) = Cat(Rest(o), Rest(q))
  <2>1. \A i \in 1 .. Len(q) : Mark(q[i]) \in Marks
    BY MarkOf
  <2>2. /\ Len(o \o q) = Len(o) + Len(q)
        /\ \A i \in 1 .. Len(o) + Len(q) : (o \o q)[i] = IF i <= Len(o) THEN o[i] ELSE q[i - Len(o)]
    OBVIOUS
  <2>3. [i \in 1 .. Len(o) + Len(q) |-> Mark((o \o q)[i])]
          = [i \in 1 .. Len(o) |-> Mark(o[i])] \o [i \in 1 .. Len(q) |-> Mark(q[i])]
    BY <1>1, <2>1, <2>2
  <2> QED
    BY <2>2, <2>3, Zenon DEF Rest, Cat
<1> QED
  BY <1>2, <1>3, <1>4, Zenon

\* What the transaction is given.
LEMMA TelegramOf ==
  ASSUME Input
  PROVE  telegram \in Seq(0 .. 255) /\ Len(telegram) > 1 /\ Tail(telegram) \in Seq(0 .. 255)
<1>1. telegram \in Seq(0 .. 255) /\ Len(telegram) > 1
  BY TelegramsAssumption, Zenon DEF Input
<1> QED
  BY <1>1

\* The elements of a sequence.
LEMMA ElementOf ==
  ASSUME NEW S, NEW s \in Seq(S)
  PROVE  \A i \in 1 .. Len(s) : s[i] \in S
OBVIOUS

\* The mark of any symbol in an exchange, and those of a whole command.
LEMMA CommandOf ==
  ASSUME Input
  PROVE  /\ \A x \in 0 .. 255 : Sent(x) \in Marks
         /\ \A symbols \in Seq(0 .. 255) : Command(symbols) \in Logs
<1>1. ASSUME NEW x \in 0 .. 255 PROVE Sent(x) \in Marks
  <2> DEFINE item == [symbol |-> x, esc |-> TRUE, first |-> FALSE]
  <2>1. item \in Queued /\ item.esc /\ item.symbol = x
    BY DEF Queued
  <2> HIDE DEF item
  <2> QED
    BY <2>1, MarkOf
<1>2. ASSUME NEW symbols \in Seq(0 .. 255) PROVE Command(symbols) \in Logs
  <2>1. \A i \in 1 .. Len(symbols) : symbols[i] \in 0 .. 255
    BY ElementOf, Zenon
  <2>2. \A i \in 1 .. Len(symbols) : Sent(symbols[i]) \in Marks
    BY <1>1, <2>1, Zenon
  <2> QED
    BY <2>2 DEF Command, Logs
<1> QED
  BY <1>1, <1>2

\* The parts of the exchanges.
LEMMA PartsOf ==
  ASSUME Input
  PROVE  /\ FirstCommand \in Logs /\ Command(telegram) \in Logs /\ Repeated \in Logs /\ Refusal \in Logs /\ Terminator \in Logs
         /\ \A what \in Told : Received(what) \in Logs
         /\ <<Sent(SymbolAck)>> \in Logs /\ <<Sent(SymbolNack)>> \in Logs
         /\ Repeated = Cat(Cat(FirstCommand, Received("nack")), Command(telegram))
         /\ Refusal = Cat(Received("bad"), <<Sent(SymbolNack)>>)
<1>1. FirstCommand \in Logs /\ Command(telegram) \in Logs
  BY TelegramOf, CommandOf, Zenon DEF FirstCommand
<1>2. ASSUME NEW what \in Told PROVE Received(what) \in Logs
  <2>1. <<"r", what>> \in Marks
    BY Zenon DEF Marks
  <2> DEFINE x == <<"r", what>>
  <2> HIDE DEF x
  <2>2. <<x>> \in Logs
    BY <2>1 DEF Logs, x
  <2> QED
    BY <2>2, Zenon DEF Received, x
<1>3. /\ Repeated = Cat(Cat(FirstCommand, Received("nack")), Command(telegram))
      /\ Refusal = Cat(Received("bad"), <<Sent(SymbolNack)>>)
  BY Zenon DEF Repeated, Refusal, Cat
<1>4. <<Sent(SymbolAck)>> \in Logs /\ <<Sent(SymbolNack)>> \in Logs
  <2>1. Sent(SymbolAck) \in Marks /\ Sent(SymbolNack) \in Marks
    BY CommandOf DEF SymbolAck, SymbolNack
  <2> HIDE DEF Sent
  <2> QED
    BY <2>1 DEF Logs
<1>5. Received("nack") \in Logs /\ Received("bad") \in Logs
  BY <1>2 DEF Told
<1>6. Repeated \in Logs /\ Refusal \in Logs
  BY <1>1, <1>3, <1>4, <1>5, Joined
<1>7. Terminator \in Logs
  <2>1. <<SymbolSyn>> \in Seq(0 .. 255)
    BY DEF SymbolSyn
  <2>2. <<"w", <<SymbolSyn>>, TRUE>> \in Marks
    BY <2>1, Zenon DEF Marks
  <2> DEFINE x == <<"w", <<SymbolSyn>>, TRUE>>
  <2> HIDE DEF x
  <2>3. <<x>> \in Logs
    BY <2>2 DEF Logs, x
  <2> QED
    BY <2>3, Zenon DEF Terminator, x
<1> QED
  BY <1>1, <1>2, <1>3, <1>4, <1>6, <1>7

\* The same for the stages of the exchange.
LEMMA StagesOf ==
  ASSUME Input, NEW c \in Once
  PROVE  /\ Asked(c) \in Logs /\ Agreed(c) \in Logs /\ GivenUp(c) \in Logs /\ Rejected \in Logs
         /\ \A n \in Once : Refusals(c, n) \in Logs
         /\ Agreed(c) \in Accepted
<1>1. Asked(c) \in Logs /\ Received("ack") \in Logs /\ Received("nack") \in Logs
  BY PartsOf DEF Asked, Told
<1>2. Agreed(c) \in Logs /\ Rejected \in Logs
  BY <1>1, PartsOf, Joined DEF Agreed, Rejected
<1>3. GivenUp(c) \in Logs /\ Cat(Agreed(c), Refusal) \in Logs
  BY <1>2, PartsOf, Joined DEF GivenUp
<1>4. Agreed(c) \in Accepted
  BY Zenon DEF Agreed, Accepted, Asked, Cat
<1> QED
  BY <1>1, <1>2, <1>3, <1>4, Zenon DEF Refusals

\* What of them is a whole exchange.
LEMMA ExchangesOf ==
  ASSUME Input
  PROVE  /\ Rejected \in Exchanges("nack") /\ Cat(Rejected, Terminator) \in Exchanges("nack")
         /\ frameType = "M2BC" => Cat(FirstCommand, Terminator) \in Exchanges("ok")
         /\ \A c \in Once :
              /\ frameType = "M2M" => Cat(Agreed(c), Terminator) \in Exchanges("ok")
              /\ GivenUp(c) \in Exchanges("crc") /\ Cat(GivenUp(c), Terminator) \in Exchanges("crc")
              /\ \A n \in Once : frameType = "M2S" =>
                   Cat(Cat(Cat(Refusals(c, n), Received("good")), <<Sent(SymbolAck)>>), Terminator) \in Exchanges("ok")
<1>1. Exchanges("nack") = {Repeated \o Received("nack") \o t : t \in {<<>>, Terminator}}
  BY DEF Exchanges
<1>2. Exchanges("crc") = RefusedTwice \cup {a \o Terminator : a \in RefusedTwice}
  BY DEF Exchanges
<1>3. frameType = "M2BC" => Exchanges("ok") = {FirstCommand \o Terminator}
  BY DEF Exchanges
<1>a. frameType = "M2M" => Exchanges("ok") = {a \o Terminator : a \in Accepted}
  BY DEF Exchanges
<1>b. frameType = "M2S" =>
        Exchanges("ok") = {a \o Received("good") \o <<Sent(SymbolAck)>> \o Terminator : a \in Accepted \cup RefusedOnce}
  BY DEF Exchanges
<1>4. Rejected \in Exchanges("nack") /\ Cat(Rejected, Terminator) \in Exchanges("nack")
  <2>1. 0 \in Once
    BY DEF Once
  <2>2. Cat(Rejected, <<>>) = Rejected
    BY <2>1, StagesOf, Joined
  <2> QED
    BY <1>1, <2>2, Zenon DEF Rejected, Cat
<1>5. ASSUME frameType = "M2BC" PROVE Cat(FirstCommand, Terminator) \in Exchanges("ok")
  BY <1>3, <1>5 DEF Cat
<1>6. ASSUME NEW c \in Once, frameType = "M2M" PROVE Cat(Agreed(c), Terminator) \in Exchanges("ok")
  <2>1. Agreed(c) \in Accepted /\ Exchanges("ok") = {a \o Terminator : a \in Accepted}
    BY <1>a, <1>6, StagesOf
  <2> QED
    BY <2>1, Zenon DEF Cat
<1>7. ASSUME NEW c \in Once PROVE GivenUp(c) \in Exchanges("crc") /\ Cat(GivenUp(c), Terminator) \in Exchanges("crc")
  <2>1. Agreed(c) \o Refusal \in RefusedOnce
    BY StagesOf, Zenon DEF RefusedOnce
  <2>2. GivenUp(c) \in RefusedTwice
    BY <2>1, Zenon DEF GivenUp, Cat, RefusedTwice
  <2> QED
    BY <1>2, <2>2, Zenon DEF Cat
<1>8. ASSUME NEW c \in Once, NEW n \in Once, frameType = "M2S"
      PROVE  Cat(Cat(Cat(Refusals(c, n), Received("good")), <<Sent(SymbolAck)>>), Terminator) \in Exchanges("ok")
  <2>1. Agreed(c) \in Accepted
    BY StagesOf
  <2>2. Refusals(c, n) \in Accepted \cup RefusedOnce
    BY <2>1, Zenon DEF Refusals, Cat, RefusedOnce
  <2>3. \A a \in Accepted \cup RefusedOnce : a \o Received("good") \o <<Sent(SymbolAck)>> \o Terminator \in Exchanges("ok")
    BY <1>b, <1>8, Zenon
  <2> QED
    BY <2>2, <2>3, Zenon DEF Cat
<1> QED
  BY <1>4, <1>5, <1>6, <1>7, <1>8, Zenon

-----------------------------------------------------------------------------
(* What has been written so far begins an exchange.                        *)

Verdicts == {"ok", "nack", "crc"}
Afters == {"ack", "length", "crcEnd", "ok", "nack", "crc"}
Extends(l) == \E v \in Verdicts : \E x \in Logs : Cat(l, x) \in Exchanges(v)

\* A sequence begins every longer one, and goes on with its next element.
LEMMA PrefixOf ==
  ASSUME NEW S, NEW l \in Seq(S), NEW x \in Seq(S)
  PROVE  /\ IsPrefix(l, l \o x) /\ Len(l \o x) = Len(l) + Len(x)
         /\ x # <<>> => Len(l) < Len(l \o x) /\ (l \o x)[Len(l) + 1] = x[1]
<1>1. Len(l) <= Len(l \o x) /\ Len(l \o x) = Len(l) + Len(x)
  OBVIOUS
<1>2. SubSeq(l, 1, Len(l)) = SubSeq(l \o x, 1, Len(l))
  OBVIOUS
<1>3. x # <<>> => Len(l) < Len(l \o x) /\ (l \o x)[Len(l) + 1] = x[1]
  OBVIOUS
<1> QED
  BY <1>1, <1>2, <1>3 DEF IsPrefix

\* What can be extended to an exchange is legal; so is the half of a symbol, when the
\* mark of the whole comes next.
LEMMA LegalOf ==
  ASSUME NEW l \in Logs, NEW x \in Logs, NEW v \in Verdicts, Cat(l, x) \in Exchanges(v)
  PROVE  /\ Legal(l, <<>>)
         /\ x # <<>> /\ (\E k : x[1][2] = <<SymbolEscape, k>>) => Legal(l, <<SymbolEscape>>)
<1>1. IsPrefix(l, Cat(l, x)) /\ (x # <<>> => Len(l) < Len(Cat(l, x)) /\ Cat(l, x)[Len(l) + 1] = x[1])
  BY PrefixOf, Zenon DEF Logs, Cat
<1>2. Begins(l, <<>>, Cat(l, x))
  BY <1>1, Zenon DEF Begins
<1>3. ASSUME x # <<>>, NEW k, x[1][2] = <<SymbolEscape, k>> PROVE Begins(l, <<SymbolEscape>>, Cat(l, x))
  <2>1. IsPrefix(<<SymbolEscape>>, <<SymbolEscape, k>>)
    BY DEF IsPrefix
  <2> QED
    BY <1>1, <1>3, <2>1, Zenon DEF Begins
<1> QED
  BY <1>2, <1>3, Zenon DEF Legal, Verdicts

\* Every stage can be extended to an exchange.
LEMMA StagesExtend ==
  ASSUME Input
  PROVE  /\ Extends(<<>>) /\ Extends(Cat(FirstCommand, Received("nack")))
         /\ \A c \in Once : Extends(Asked(c)) /\ \A n \in Once : Extends(Refusals(c, n))
<1> DEFINE F == FirstCommand
           N == Received("nack")
           C == Command(telegram)
<1>1. F \in Logs /\ N \in Logs /\ C \in Logs /\ Repeated \in Logs /\ Refusal \in Logs /\ Repeated = Cat(Cat(F, N), C)
  BY PartsOf DEF Told
<1>2. Rejected = Cat(Repeated, N) /\ Rejected \in Exchanges("nack") /\ "nack" \in Verdicts /\ "crc" \in Verdicts
  BY ExchangesOf DEF Rejected, Verdicts
<1> HIDE DEF F, N, C
<1>3. Cat(C, N) \in Logs /\ Cat(F, N) \in Logs /\ Cat(N, Cat(C, N)) \in Logs
  BY <1>1, Joined
<1>4. Cat(Cat(F, N), Cat(C, N)) = Cat(Cat(Cat(F, N), C), N)
  BY <1>1, <1>3, Joined
<1>5. Rejected = Cat(Cat(F, N), Cat(C, N))
  BY <1>1, <1>2, <1>4, Zenon
<1>6. Extends(Cat(F, N))
  BY <1>2, <1>3, <1>5, Zenon DEF Extends
<1>7. Cat(F, Cat(N, Cat(C, N))) = Rejected
  BY <1>1, <1>3, <1>5, Joined
<1>8. Extends(F)
  BY <1>2, <1>3, <1>7, Zenon DEF Extends
<1>9. Rejected \in Logs /\ Cat(<<>>, Rejected) = Rejected
  <2>1. Rejected \in Logs
    BY <1>1, <1>2, Joined
  <2> QED
    BY <2>1, Joined
<1>10. Extends(<<>>)
  BY <1>2, <1>9, Zenon DEF Extends
<1>11. Extends(Repeated)
  BY <1>1, <1>2, Zenon DEF Extends
<1>12. \A c \in Once : Extends(Asked(c))
  BY <1>8, <1>11, Zenon DEF Asked, F
<1>13. ASSUME NEW c \in Once, NEW n \in Once PROVE Extends(Refusals(c, n))
  <2>1. /\ Agreed(c) \in Logs /\ GivenUp(c) = Cat(Cat(Agreed(c), Refusal), Refusal)
        /\ GivenUp(c) \in Exchanges("crc")
    BY StagesOf, ExchangesOf, Zenon DEF GivenUp
  <2>2. Cat(Refusal, Refusal) \in Logs /\ GivenUp(c) = Cat(Agreed(c), Cat(Refusal, Refusal))
    BY <1>1, <2>1, Joined
  <2>3. Extends(Agreed(c))
    BY <1>2, <2>1, <2>2, Zenon DEF Extends
  <2>4. Extends(Cat(Agreed(c), Refusal))
    BY <1>1, <1>2, <2>1, Zenon DEF Extends
  <2> QED
    BY <2>3, <2>4, Zenon DEF Refusals
<1> QED
  BY <1>6, <1>10, <1>12, <1>13, Zenon DEF F, N

\* So does what is planned.
LEMMA PlannedExtends ==
  ASSUME Input, NEW a \in Afters, NEW c, NEW n, NEW l \in Logs, Planned(a, c, n, l)
  PROVE  Extends(l)
<1>1. Cat(l, <<>>) = l /\ <<>> \in Logs
  BY Joined
<1>2. ASSUME NEW v \in Verdicts, l \in Exchanges(v) PROVE Extends(l)
  BY <1>1, <1>2, Zenon DEF Extends
<1>3. CASE a = "ack"
  BY <1>3, StagesExtend, Zenon DEF Planned
<1>4. CASE a = "ok"
  <2>1. "ok" \in Verdicts /\ l \in Exchanges("ok")
    BY <1>4, Zenon DEF Planned, Verdicts
  <2> QED
    BY <2>1, <1>2, Zenon
<1>5. CASE a = "nack"
  <2>1. "nack" \in Verdicts /\ l \in Exchanges("nack")
    BY <1>5, ExchangesOf, Zenon DEF Planned, Verdicts
  <2> QED
    BY <2>1, <1>2, Zenon
<1>6. CASE a = "length"
  <2>1. 1 \in Once /\ c \in Once /\ l = Refusals(c, 1)
    BY <1>6, Zenon DEF Planned, Once
  <2> QED
    BY <2>1, StagesExtend, Zenon
<1>7. CASE a = "crcEnd" \/ a = "crc"
  <2>1. "crc" \in Verdicts /\ l \in Exchanges("crc")
    BY <1>7, ExchangesOf, Zenon DEF Planned, Verdicts
  <2> QED
    BY <2>1, <1>2, Zenon
<1> QED
  BY <1>3, <1>4, <1>5, <1>6, <1>7, Zenon DEF Afters

\* At every place before the end the exchange is legal so far.
LEMMA ProgressLegal ==
  ASSUME Input, NEW p \in {"command"} \cup Writing \cup ReadingPcs, NEW o \in Seq(Queued), NEW s \in {<<>>, <<SymbolEscape>>},
         NEW a \in Afters, NEW c, NEW n, NEW l \in Logs, Progress(p, o, s, a, c, n, l)
  PROVE  Legal(l, s)
<1>1. ASSUME Extends(l), s = <<>> PROVE Legal(l, s)
  BY <1>1, LegalOf, Zenon DEF Extends
<1>2. CASE p = "command"
  <2>1. s = <<>> /\ (l = <<>> \/ l = Cat(FirstCommand, Received("nack")))
    BY <1>2, Zenon DEF Progress
  <2> QED
    BY <1>1, <2>1, StagesExtend, Zenon
<1>3. CASE p = "ack"
  <2>1. s = <<>> /\ c \in Once /\ l = Asked(c)
    BY <1>3, Zenon DEF Progress, ReadingPcs
  <2> QED
    BY <1>1, <2>1, StagesExtend, Zenon
<1>4. CASE p \in Answering
  <2>1. s = <<>> /\ c \in Once /\ n \in Once /\ l = Refusals(c, n)
    BY <1>4, Zenon DEF Progress, ReadingPcs, Answering
  <2> QED
    BY <1>1, <2>1, StagesExtend, Zenon
<1>5. CASE p \in Writing
  <2>1. o # <<>> /\ Planned(a, c, n, Cat(l, Rest(o))) /\ (s # <<>> => ~Whole(Head(o)))
    BY <1>5, Zenon DEF Progress
  <2>2. Rest(o) \in Logs /\ Rest(o) = Cat(<<Mark(Head(o))>>, Rest(Tail(o))) /\ Rest(Tail(o)) \in Logs /\ Head(o) \in Queued
    <3>1. Tail(o) \in Seq(Queued) /\ Head(o) \in Queued
      BY <2>1
    <3> QED
      BY <2>1, <3>1, RestOf
  <2>3. Mark(Head(o)) \in Marks
    BY <2>2, MarkOf
  <2>4. Cat(l, Rest(o)) \in Logs
    BY <2>2, Joined
  <2>5. PICK v \in Verdicts, x \in Logs : Cat(Cat(l, Rest(o)), x) \in Exchanges(v)
    BY <2>1, <2>4, PlannedExtends, Zenon DEF Extends
  <2>6. Cat(Rest(o), x) \in Logs /\ Cat(Cat(l, Rest(o)), x) = Cat(l, Cat(Rest(o), x))
    BY <2>2, Joined
  <2>7. Cat(Rest(o), x) # <<>> /\ Cat(Rest(o), x)[1] = Mark(Head(o))
    <3> DEFINE m == Mark(Head(o))
               y == Rest(Tail(o))
    <3> HIDE DEF m, y
    <3>1. m \in Marks /\ y \in Seq(Marks) /\ x \in Seq(Marks)
      BY <2>2, <2>3, Zenon DEF m, y, Logs
    <3>2. (<<m>> \o y) \o x # <<>> /\ ((<<m>> \o y) \o x)[1] = m
      BY <3>1
    <3> QED
      BY <3>2, <2>2, Zenon DEF Cat, m, y
  <2>8. s # <<>> => \E k : Mark(Head(o))[2] = <<SymbolEscape, k>>
    BY <2>1 DEF Mark
  <2> QED
    BY <2>5, <2>6, <2>7, <2>8, LegalOf, Zenon
<1> QED
  BY <1>2, <1>3, <1>4, <1>5, Zenon DEF ReadingPcs, Answering

-----------------------------------------------------------------------------
(* The steps of a transaction.                                             *)

\* The input stays, so the exchanges do.
Still == kind' = kind /\ telegram' = telegram /\ includeSource' = includeSource

LEMMA SameExchanges ==
  ASSUME Still
  PROVE  /\ frameType' = frameType /\ FirstCommand' = FirstCommand /\ Repeated' = Repeated /\ Refusal' = Refusal
         /\ \A verdict : Exchanges(verdict)' = Exchanges(verdict)
         /\ \A item : Whole(item)' = Whole(item) /\ Mark(item)' = Mark(item)
         /\ \A items : Rest(items)' = Rest(items)
<1>1. \A x : Sent(x)' = Sent(x)
  BY DEF Still, Sent
<1>2. \A symbols : Command(symbols)' = Command(symbols)
  BY <1>1, Zenon DEF Command
<1>3. frameType' = frameType
  BY Zenon DEF Still, frameType
<1>4. FirstCommand' = FirstCommand
  BY <1>2, Zenon DEF Still, FirstCommand
<1>5. Repeated' = Repeated
  BY <1>2, <1>4, Zenon DEF Still, Repeated
<1>6. Refusal' = Refusal
  BY <1>1, Zenon DEF Refusal
<1>7. Accepted' = Accepted
  BY <1>4, <1>5, Zenon DEF Accepted
<1>8. RefusedOnce' = RefusedOnce /\ RefusedTwice' = RefusedTwice
  BY <1>6, <1>7, Zenon DEF RefusedOnce, RefusedTwice
<1>9. \A verdict : Exchanges(verdict)' = Exchanges(verdict)
  BY <1>1, <1>3, <1>4, <1>5, <1>7, <1>8, Zenon DEF Exchanges
<1>10. \A item : Whole(item)' = Whole(item) /\ Mark(item)' = Mark(item)
  BY Zenon DEF Whole, Mark, Still
<1>11. \A items : Rest(items)' = Rest(items)
  BY <1>10, Zenon DEF Rest
<1> QED
  BY <1>3, <1>4, <1>5, <1>6, <1>9, <1>10, <1>11, Zenon

LEMMA SamePlan ==
  ASSUME Still
  PROVE  /\ \A a, c, n, l : Planned(a, c, n, l)' = Planned(a, c, n, l)
         /\ \A l, s : Legal(l, s)' = Legal(l, s)
         /\ \A c : Asked(c)' = Asked(c)
         /\ \A c, n : Refusals(c, n)' = Refusals(c, n)
<1>1. \A c : Asked(c)' = Asked(c)
  BY SameExchanges, Zenon DEF Asked
<1>2. \A c : Agreed(c)' = Agreed(c)
  BY <1>1, Zenon DEF Agreed, Received
<1>3. /\ \A c, n : Refusals(c, n)' = Refusals(c, n)
      /\ \A c : GivenUp(c)' = GivenUp(c)
  BY <1>2, SameExchanges, Zenon DEF Refusals, GivenUp
<1>4. Rejected' = Rejected
  BY SameExchanges, Zenon DEF Rejected, Received
<1>5. ASSUME NEW a, NEW c, NEW n, NEW l PROVE Planned(a, c, n, l)' = Planned(a, c, n, l)
  BY <1>1, <1>3, <1>4, SameExchanges DEF Planned
<1>6. ASSUME NEW l, NEW s PROVE Legal(l, s)' = Legal(l, s)
  BY SameExchanges, Zenon DEF Legal
<1> QED
  BY <1>1, <1>3, <1>5, <1>6, Zenon

\* A step that keeps the input keeps the invariant, when what it leads to is in order.
LEMMA Follows ==
  ASSUME Still, TransactionTypeOK', log' \in Logs, Room(place', absorbed', left'), EchoesAreOurs',
         Progress(place', out', sent', after', commandAttempt', respAttempt', log'),
         place' \in {"done", "idle"} => Legal(log', sent'),
         OutcomeOK(place', outcome', log')
  PROVE  ExchangeInv'
<1>1. Progress(place, out, sent, after, commandAttempt, respAttempt, log)'
  <2>1. Planned(after, commandAttempt, respAttempt, Cat(log, Rest(out)))' = Planned(after', commandAttempt', respAttempt', Cat(log', Rest(out')))
    BY SameExchanges, SamePlan DEF Cat
  <2>2. /\ Whole(Head(out))' = Whole(Head(out')) /\ frameType' = frameType /\ FirstCommand' = FirstCommand
        /\ Asked(commandAttempt)' = Asked(commandAttempt') /\ Refusals(commandAttempt, respAttempt)' = Refusals(commandAttempt', respAttempt')
    BY SameExchanges, SamePlan
  <2> QED
    BY <2>1, <2>2 DEF Progress, Still
<1>2. OutcomeOK(place, outcome, log)'
  BY SameExchanges, Zenon DEF OutcomeOK
<1>3. (place \in {"done", "idle"} => Legal(log, sent))'
  BY SameExchanges, Zenon DEF Legal
<1> QED
  BY <1>1, <1>2, <1>3, Zenon DEF ExchangeInv, Room

\* What the calls of sendTransaction write.
LEMMA WritesOf ==
  ASSUME Input
  PROVE  /\ EndOfMessage \in Seq(Queued) /\ EndOfMessage # <<>> /\ Rest(EndOfMessage) = Terminator
         /\ \A x \in 0 .. 255 : /\ SymbolWithEcho(x, TRUE, FALSE) \in Seq(Queued) /\ SymbolWithEcho(x, TRUE, FALSE) # <<>>
                                /\ Rest(SymbolWithEcho(x, TRUE, FALSE)) = <<Sent(x)>>
         /\ \A source \in BOOLEAN :
              /\ InitiatorTelegram(source) \in Seq(Queued) /\ InitiatorTelegram(source) # <<>>
              /\ Rest(InitiatorTelegram(source)) = Command(IF source THEN telegram ELSE Tail(telegram))
<1>1. ASSUME NEW item \in Queued PROVE <<item>> \in Seq(Queued) /\ <<item>> # <<>> /\ Rest(<<item>>) = <<Mark(item)>>
  <2>1. <<item>> \in Seq(Queued) /\ <<item>> # <<>> /\ Len(<<item>>) = 1 /\ <<item>>[1] = item
    OBVIOUS
  <2>2. Rest(<<item>>) = [i \in 1 .. 1 |-> Mark(item)]
    BY <2>1 DEF Rest
  <2>3. [i \in 1 .. 1 |-> Mark(item)] = <<Mark(item)>>
    BY MarkOf
  <2> QED
    BY <2>1, <2>2, <2>3, Zenon
<1>2. EndOfMessage \in Seq(Queued) /\ EndOfMessage # <<>> /\ Rest(EndOfMessage) = Terminator
  <2> DEFINE item == [symbol |-> SymbolSyn, esc |-> FALSE, first |-> FALSE]
  <2>1. item \in Queued /\ item.symbol = SymbolSyn /\ item.esc = FALSE
    BY DEF Queued, SymbolSyn
  <2>2. EndOfMessage = <<item>>
    BY Zenon DEF EndOfMessage, SymbolWithEcho
  <2> HIDE DEF item
  <2>3. Mark(item) = <<"w", <<SymbolSyn>>, TRUE>>
    BY <2>1 DEF Mark, Whole
  <2> QED
    BY <1>1, <2>1, <2>2, <2>3, Zenon DEF Terminator
<1>3. ASSUME NEW x \in 0 .. 255
      PROVE  /\ SymbolWithEcho(x, TRUE, FALSE) \in Seq(Queued) /\ SymbolWithEcho(x, TRUE, FALSE) # <<>>
             /\ Rest(SymbolWithEcho(x, TRUE, FALSE)) = <<Sent(x)>>
  <2> DEFINE item == [symbol |-> x, esc |-> TRUE, first |-> FALSE]
  <2>1. item \in Queued /\ item.symbol = x /\ item.esc
    BY DEF Queued
  <2>2. SymbolWithEcho(x, TRUE, FALSE) = <<item>>
    BY Zenon DEF SymbolWithEcho
  <2> HIDE DEF item
  <2>3. Mark(item) = Sent(x)
    BY <2>1, MarkOf
  <2> QED
    BY <1>1, <2>1, <2>2, <2>3, Zenon
<1>4. ASSUME NEW source \in BOOLEAN, NEW start \in {1, 2}, NEW symbols \in Seq(0 .. 255),
             start = IF source THEN 1 ELSE 2,
             Len(symbols) = Len(telegram) - start + 1 /\ Len(symbols) > 0 /\ \A i \in 1 .. Len(symbols) : symbols[i] = telegram[start + i - 1]
      PROVE  /\ InitiatorTelegram(source) \in Seq(Queued) /\ InitiatorTelegram(source) # <<>>
             /\ Rest(InitiatorTelegram(source)) = Command(symbols)
  <2> DEFINE item(i) == [symbol |-> symbols[i], esc |-> TRUE, first |-> i = 1]
             items == [i \in 1 .. Len(symbols) |-> item(i)]
  <2>1. InitiatorTelegram(source) = items
    BY <1>4, Zenon DEF InitiatorTelegram
  <2>2. ASSUME NEW i \in 1 .. Len(symbols) PROVE item(i) \in Queued /\ Mark(item(i)) = Sent(symbols[i])
    <3>1. symbols[i] \in 0 .. 255
      BY ElementOf, Zenon
    <3>2. item(i) \in Queued /\ item(i).esc /\ item(i).symbol = symbols[i]
      BY <3>1 DEF Queued
    <3> QED
      BY <3>2, MarkOf
  <2> HIDE DEF item
  <2>3. items \in Seq(Queued) /\ Len(items) = Len(symbols) /\ \A i \in 1 .. Len(symbols) : items[i] = item(i)
    BY <2>2
  <2>4. items # <<>>
    <3> HIDE DEF items
    <3> QED
      BY <2>3, <1>4
  <2>5. Rest(items) = [i \in 1 .. Len(symbols) |-> Sent(symbols[i])]
    BY <2>2, <2>3, Zenon DEF Rest
  <2> QED
    BY <2>1, <2>3, <2>4, <2>5, Zenon DEF Command
<1>5. ASSUME NEW source \in BOOLEAN
      PROVE  /\ InitiatorTelegram(source) \in Seq(Queued) /\ InitiatorTelegram(source) # <<>>
             /\ Rest(InitiatorTelegram(source)) = Command(IF source THEN telegram ELSE Tail(telegram))
  <2>1. /\ telegram \in Seq(0 .. 255) /\ Len(telegram) > 1
        /\ Tail(telegram) \in Seq(0 .. 255) /\ Len(Tail(telegram)) = Len(telegram) - 1
        /\ \A i \in 1 .. Len(telegram) - 1 : Tail(telegram)[i] = telegram[i + 1]
    BY TelegramOf
  <2>2. CASE source
    <3>1. Len(telegram) = Len(telegram) - 1 + 1 /\ Len(telegram) > 0 /\ \A i \in 1 .. Len(telegram) : telegram[i] = telegram[1 + i - 1]
      BY <2>1
    <3>2. 1 = (IF source THEN 1 ELSE 2) /\ 1 \in {1, 2}
      BY <2>2
    <3> QED
      BY <2>1, <2>2, <3>1, <3>2, <1>4, Zenon
  <2>3. CASE ~source
    <3> DEFINE t == Tail(telegram)
    <3>1. Len(t) = Len(telegram) - 2 + 1 /\ Len(t) > 0 /\ \A i \in 1 .. Len(t) : t[i] = telegram[2 + i - 1]
      BY <2>1
    <3>2. 2 = (IF source THEN 1 ELSE 2) /\ 2 \in {1, 2}
      BY <2>3
    <3> HIDE DEF t
    <3>3. t \in Seq(0 .. 255) /\ t = Tail(telegram)
      BY <2>1, Zenon DEF t
    <3> QED
      BY <2>3, <3>1, <3>2, <3>3, <1>4, Zenon
  <2> QED
    BY <2>2, <2>3, Zenon
<1> QED
  BY <1>2, <1>3, <1>5, Zenon

\* What the invariant says of the parts.
LEMMA ExchangeTyped ==
  ASSUME TransactionTypeOK
  PROVE  /\ Input /\ out \in Seq(Queued) /\ sent \in {<<>>, <<SymbolEscape>>} /\ after \in Afters
         /\ place \in {"idle", "command", "done"} \cup Writing \cup ReadingPcs
BY Zenon DEF TransactionTypeOK, Input, Queued, Afters, Writing

\* The last mark can be taken away.
LEMMA SameButLast ==
  ASSUME NEW x \in Logs, NEW y \in Logs, NEW m \in Marks, Cat(x, <<m>>) = Cat(y, <<m>>)
  PROVE  x = y
<1>1. x \in Seq(Marks) /\ y \in Seq(Marks) /\ x \o <<m>> = y \o <<m>>
  BY Zenon DEF Logs, Cat
<1>2. Len(x \o <<m>>) = Len(x) + 1 /\ Len(y \o <<m>>) = Len(y) + 1
  BY <1>1
<1>3. Len(x) = Len(y)
  BY <1>1, <1>2
<1>4. \A i \in 1 .. Len(x) : x[i] = (x \o <<m>>)[i] /\ y[i] = (y \o <<m>>)[i]
  BY <1>1, <1>3
<1>5. \A i \in 1 .. Len(x) : x[i] = y[i]
  BY <1>1, <1>4, Zenon
<1> QED
  BY <1>1, <1>3, <1>5

\* What is refused is refused for a whole exchange, whether or not the SYN gets through.
LEMMA RefusalIsWhole ==
  ASSUME ExchangeInv, place \in Writing
  PROVE  after \in {"nack", "crc"} => log \in Exchanges(after)
<1>1. /\ Input /\ log \in Logs
      /\ Planned(after, commandAttempt, respAttempt, Cat(log, Rest(out)))
      /\ after \in {"nack", "crc"} => out = EndOfMessage
  BY ExchangeTyped, Zenon DEF ExchangeInv, Progress
<1>2. PICK m \in Marks : Terminator = <<m>>
  <2> DEFINE m == <<"w", <<SymbolSyn>>, TRUE>>
  <2>1. <<SymbolSyn>> \in Seq(0 .. 255)
    BY DEF SymbolSyn
  <2>2. m \in Marks
    BY <2>1, Zenon DEF Marks
  <2> QED
    BY <2>2, Zenon DEF Terminator
<1>3. after \in {"nack", "crc"} => Planned(after, commandAttempt, respAttempt, Cat(log, Terminator))
  BY <1>1, WritesOf, Zenon
<1>4. CASE after = "nack"
  <2>1. 0 \in Once
    BY DEF Once
  <2>2. Cat(log, <<m>>) = Cat(Rejected, <<m>>) /\ Rejected \in Logs /\ Rejected \in Exchanges("nack")
    BY <1>1, <1>2, <1>3, <1>4, <2>1, StagesOf, ExchangesOf, Zenon DEF Planned
  <2>3. log = Rejected
    BY <1>1, <2>2, SameButLast, Zenon
  <2> QED
    BY <1>4, <2>2, <2>3, Zenon
<1>5. CASE after = "crc"
  <2> DEFINE g == GivenUp(commandAttempt)
  <2>1. Cat(log, <<m>>) = Cat(g, <<m>>) /\ g \in Logs /\ g \in Exchanges("crc")
    BY <1>1, <1>2, <1>3, <1>5, StagesOf, ExchangesOf, Zenon DEF Planned
  <2> HIDE DEF g
  <2>2. log = g
    BY <1>1, <2>1, SameButLast, Zenon
  <2> QED
    BY <1>5, <2>1, <2>2, Zenon
<1> QED
  BY <1>4, <1>5, Zenon

\* The transaction ends and writes nothing more.
LEMMA EndsLegally ==
  ASSUME ExchangeInv, place \notin {"done", "idle"}, Still, TransactionTypeOK',
         log' = log, sent' = sent, echoes' = echoes, place' = "done",
         outcome' \in {"ok", "nack", "crc"} => log \in Exchanges(outcome')
  PROVE  ExchangeInv'
<1>1. /\ Input /\ log \in Logs /\ place \in {"command"} \cup Writing \cup ReadingPcs
      /\ out \in Seq(Queued) /\ sent \in {<<>>, <<SymbolEscape>>} /\ after \in Afters
      /\ Progress(place, out, sent, after, commandAttempt, respAttempt, log)
  BY ExchangeTyped, Zenon DEF ExchangeInv
<1>2. Legal(log, sent)
  BY <1>1, ProgressLegal
<1>3. Progress(place', out', sent', after', commandAttempt', respAttempt', log')
  BY DEF Progress, Writing, Answering, ReadingPcs
<1>4. EchoesAreOurs'
  BY Zenon DEF ExchangeInv, EchoesAreOurs, Still
<1>5. Room(place', absorbed', left') /\ OutcomeOK(place', outcome', log')
  BY DEF Room, OutcomeOK
<1> QED
  BY <1>1, <1>2, <1>3, <1>4, <1>5, Follows, Zenon

\* SendFailed, at the end of a write.
LEMMA SendFails ==
  ASSUME ExchangeInv, place \in Writing, Still, TransactionTypeOK', log' = log, sent' = sent, echoes' = echoes,
         NEW err \in ReadErrors \cup {"collision", "echoMismatch"}, SendFailed(err)
  PROVE  ExchangeInv'
<1>1. place' = "done" /\ ((outcome' = after /\ after \in {"nack", "crc"}) \/ outcome' = err)
  BY Zenon DEF SendFailed, Done
<1>2. outcome' \in {"ok", "nack", "crc"} => log \in Exchanges(outcome')
  BY <1>1, RefusalIsWhole, Zenon DEF ReadErrors
<1>3. place \notin {"done", "idle"}
  BY DEF Writing
<1> QED
  BY <1>1, <1>2, <1>3, EndsLegally, Zenon

LEMMA BeginKeeps ==
  ASSUME ExchangeInv, BeginTransaction
  PROVE  ExchangeInv'
<1>1. /\ place' = "command" /\ out' = <<>> /\ sent' = <<>> /\ commandAttempt' = 0 /\ respAttempt' = 0
      /\ outcome' = "none" /\ log' = <<>> /\ echoes' = {} /\ telegram' \in Telegrams /\ includeSource' \in BOOLEAN
      /\ after' = "ack" /\ absorbed' = 0 /\ left' = 0 /\ escape' = FALSE /\ lastSyn' = "none" /\ kind' = kind
  BY Zenon DEF BeginTransaction
<1>2. TransactionTypeOK'
  <2>1. kind' \in {"plain", "flagged", "unflagged"}
    BY <1>1, Zenon DEF ExchangeInv, TransactionTypeOK
  <2>2. out' \in Seq([symbol : 0 .. 255, esc : BOOLEAN, first : BOOLEAN])
    BY <1>1
  <2>3. absorbed' \in 0 .. maxPayloadAaAutoSynDrains /\ commandAttempt' \in 0 .. 2 /\ respAttempt' \in 0 .. 2 /\ left' \in 0 .. MaxLength
    BY <1>1, LimitsAssumption
  <2> QED
    BY <1>1, <2>1, <2>2, <2>3, Zenon DEF TransactionTypeOK, Results
<1>3. log' \in Logs
  BY <1>1 DEF Logs
<1>4. Progress(place, out, sent, after, commandAttempt, respAttempt, log)'
  BY <1>1 DEF Progress, Writing, Answering, ReadingPcs
<1>5. EchoesAreOurs' /\ Room(place, absorbed, left)' /\ OutcomeOK(place, outcome, log)' /\ (place \in {"done", "idle"} => Legal(log, sent))'
  BY <1>1 DEF EchoesAreOurs, Room, OutcomeOK
<1> QED
  BY <1>2, <1>3, <1>4, <1>5, Zenon DEF ExchangeInv

LEMMA EndKeeps ==
  ASSUME ExchangeInv, EndTransaction
  PROVE  ExchangeInv'
<1>1. /\ place = "done" /\ place' = "idle"
      /\ Still /\ out' = out /\ sent' = sent /\ after' = after /\ absorbed' = absorbed
      /\ commandAttempt' = commandAttempt /\ respAttempt' = respAttempt
      /\ left' = left /\ escape' = escape /\ lastSyn' = lastSyn /\ outcome' = outcome /\ log' = log /\ echoes' = echoes
  BY Zenon DEF EndTransaction, Still, input, sending, reading
<1>2. TransactionTypeOK' /\ log' \in Logs
  BY <1>1, Zenon DEF ExchangeInv, TransactionTypeOK, Still
<1>3. Progress(place', out', sent', after', commandAttempt', respAttempt', log')
  BY <1>1 DEF Progress, Writing, Answering, ReadingPcs
<1>4. EchoesAreOurs' /\ Legal(log', sent')
  BY <1>1, Zenon DEF ExchangeInv, EchoesAreOurs, Still
<1>5. Room(place', absorbed', left') /\ OutcomeOK(place', outcome', log')
  BY <1>1 DEF ExchangeInv, Room, OutcomeOK
<1> QED
  BY <1>1, <1>2, <1>3, <1>4, <1>5, Follows, Zenon

LEMMA SendCommandKeeps ==
  ASSUME ExchangeInv, SendCommand
  PROVE  ExchangeInv'
<1> DEFINE command == InitiatorTelegram(includeSource \/ commandAttempt > 0)
<1>1. /\ place = "command" /\ place' = "write"
      /\ \/ frameType = "M2BC" /\ out' = command \o EndOfMessage /\ after' = "ok"
         \/ frameType # "M2BC" /\ out' = command /\ after' = "ack"
  BY Zenon DEF SendCommand, Send
<1>2. /\ Still /\ sent' = sent /\ absorbed' = absorbed /\ commandAttempt' = commandAttempt /\ respAttempt' = respAttempt
      /\ left' = left /\ escape' = escape /\ lastSyn' = lastSyn /\ outcome' = outcome /\ log' = log /\ echoes' = echoes
  BY Zenon DEF SendCommand, Still, input, reading
<1>3. /\ TransactionTypeOK /\ Input /\ log \in Logs /\ sent = <<>> /\ respAttempt = 0 /\ outcome = "none"
      /\ \/ commandAttempt = 0 /\ log = <<>>
         \/ commandAttempt = 1 /\ frameType # "M2BC" /\ log = Cat(FirstCommand, Received("nack"))
  BY <1>1, ExchangeTyped, Zenon DEF ExchangeInv, Progress, OutcomeOK
<1>4. /\ command \in Seq(Queued) /\ command # <<>>
      /\ Rest(command) = Command(IF includeSource \/ commandAttempt > 0 THEN telegram ELSE Tail(telegram))
  BY <1>3, WritesOf, Zenon
<1>5. Rest(command) \in Logs /\ Cat(log, Rest(command)) = Asked(commandAttempt) /\ commandAttempt \in Once
  <2>1. CASE commandAttempt = 0
    <3>1. ~(commandAttempt > 0) /\ commandAttempt \in Once
      BY <2>1 DEF Once
    <3>2. Rest(command) = FirstCommand
      BY <1>4, <3>1, Zenon DEF FirstCommand
    <3>3. log = <<>>
      BY <2>1, <1>3
    <3>4. FirstCommand \in Logs /\ Cat(<<>>, FirstCommand) = FirstCommand
      BY <1>3, PartsOf, Joined
    <3> QED
      BY <2>1, <3>1, <3>2, <3>3, <3>4, Zenon DEF Asked
  <2>2. CASE commandAttempt = 1
    <3>1. commandAttempt > 0 /\ commandAttempt \in Once /\ commandAttempt # 0 /\ log = Cat(FirstCommand, Received("nack"))
      BY <2>2, <1>3 DEF Once
    <3>2. Rest(command) = Command(telegram)
      BY <1>4, <3>1, Zenon
    <3>3. Command(telegram) \in Logs /\ Repeated = Cat(Cat(FirstCommand, Received("nack")), Command(telegram))
      BY <1>3, PartsOf, Zenon
    <3> QED
      BY <3>1, <3>2, <3>3, Zenon DEF Asked
  <2> QED
    BY <1>3, <2>1, <2>2, Zenon
<1> HIDE DEF command
<1>6. out' \in Seq(Queued) /\ out' # <<>> /\ Planned(after', commandAttempt', respAttempt', Cat(log', Rest(out')))
  <2>1. CASE frameType = "M2BC"
    <3>1. out' = command \o EndOfMessage /\ after' = "ok" /\ commandAttempt = 0 /\ log = <<>>
      BY <2>1, <1>1, <1>3, Zenon
    <3>2. EndOfMessage \in Seq(Queued) /\ Rest(EndOfMessage) = Terminator /\ Terminator \in Logs
      BY <1>3, WritesOf, PartsOf, Zenon
    <3>3. out' \in Seq(Queued) /\ out' # <<>>
      BY <1>4, <3>1, <3>2
    <3>4. Rest(out') = Cat(Rest(command), Terminator)
      BY <1>4, <3>1, <3>2, RestOf, Zenon
    <3>5. Cat(log, Rest(out')) = Cat(Cat(log, Rest(command)), Terminator)
      BY <1>3, <1>5, <3>2, <3>4, Joined
    <3>6. Cat(log', Rest(out')) = Cat(FirstCommand, Terminator)
      BY <1>2, <1>5, <3>1, <3>5, Zenon DEF Asked
    <3>7. Cat(log', Rest(out')) \in Exchanges("ok")
      BY <1>3, <2>1, <3>6, ExchangesOf, Zenon
    <3> QED
      BY <3>1, <3>3, <3>7, Zenon DEF Planned
  <2>2. CASE frameType # "M2BC"
    <3>1. out' = command /\ after' = "ack"
      BY <2>2, <1>1, Zenon
    <3> QED
      BY <1>2, <1>3, <1>4, <1>5, <2>2, <3>1, Zenon DEF Planned
  <2> QED
    BY <2>1, <2>2, Zenon
<1>7. TransactionTypeOK' /\ log' \in Logs
  <2>1. after' \in {"ack", "length", "crcEnd", "ok", "nack", "crc"}
    BY <1>1, Zenon
  <2> QED
    BY <1>1, <1>2, <1>3, <1>6, <2>1, Zenon DEF TransactionTypeOK, Queued, Still
<1>8. Progress(place', out', sent', after', commandAttempt', respAttempt', log')
  <2>1. after' \notin {"nack", "crc"} /\ sent' = <<>>
    BY <1>1, <1>2, <1>3, Zenon
  <2> QED
    BY <1>1, <1>6, <2>1 DEF Progress, Writing, Answering, ReadingPcs
<1>9. EchoesAreOurs' /\ Room(place', absorbed', left') /\ OutcomeOK(place', outcome', log') /\ place' \notin {"done", "idle"}
  <2>1. EchoesAreOurs'
    BY <1>2, Zenon DEF ExchangeInv, EchoesAreOurs, Still
  <2> QED
    BY <1>1, <1>2, <1>3, <2>1 DEF Room, OutcomeOK
<1> QED
  BY <1>2, <1>7, <1>8, <1>9, Follows, Zenon

LEMMA WriteKeeps ==
  ASSUME ExchangeInv, Write
  PROVE  ExchangeInv'
<1>1. /\ place = "write" /\ Still /\ out' = out /\ sent' = sent /\ after' = after /\ absorbed' = absorbed
      /\ commandAttempt' = commandAttempt /\ respAttempt' = respAttempt
      /\ left' = left /\ escape' = escape /\ lastSyn' = lastSyn /\ log' = log /\ echoes' = echoes
      /\ \/ place' = "echo" /\ outcome' = outcome
         \/ SendFailed("other")
  BY Zenon DEF Write, Still, input, sending, reading
<1>2. TransactionTypeOK' /\ log' \in Logs
  <2>1. /\ TransactionTypeOK /\ place' \in {"echo", "done"} /\ out # <<>>
        /\ outcome' = outcome \/ outcome' \in {"nack", "crc"} \/ outcome' = "other"
    BY <1>1, Zenon DEF ExchangeInv, TransactionTypeOK, SendFailed, Done
  <2>2. outcome' \in Results
    BY <2>1 DEF TransactionTypeOK, Results, ReadErrors
  <2>3. place' \in {"idle", "command", "write", "echo", "drain", "done"} \cup ReadingPcs
    BY <2>1
  <2> QED
    BY <1>1, <2>1, <2>2, <2>3, Zenon DEF ExchangeInv, TransactionTypeOK, Still
<1>3. CASE SendFailed("other")
  BY <1>1, <1>2, <1>3, SendFails, Zenon DEF Writing, ReadErrors
<1>4. CASE place' = "echo" /\ outcome' = outcome
  <2>1. Progress(place', out', sent', after', commandAttempt', respAttempt', log')
    BY <1>1, <1>4 DEF ExchangeInv, Progress, Writing, Answering, ReadingPcs
  <2>2. EchoesAreOurs'
    BY <1>1, Zenon DEF ExchangeInv, EchoesAreOurs, Still
  <2>3. Room(place', absorbed', left') /\ OutcomeOK(place', outcome', log') /\ place' \notin {"done", "idle"}
    BY <1>1, <1>4 DEF ExchangeInv, Room, OutcomeOK
  <2> QED
    BY <1>1, <1>2, <2>1, <2>2, <2>3, Follows, Zenon
<1> QED
  BY <1>1, <1>3, <1>4, Zenon

LEMMA EchoErrorKeeps ==
  ASSUME ExchangeInv, EchoError
  PROVE  ExchangeInv'
<1>1. /\ place \in {"echo", "drain"} /\ Still /\ out' = out /\ sent' = sent /\ after' = after /\ absorbed' = absorbed
      /\ commandAttempt' = commandAttempt /\ respAttempt' = respAttempt
      /\ left' = left /\ escape' = escape /\ lastSyn' = lastSyn /\ log' = log /\ echoes' = echoes
  BY Zenon DEF EchoError, Still, input, sending, reading
<1>2. PICK err \in ReadErrors : SendFailed(err)
  BY Zenon DEF EchoError
<1>3. TransactionTypeOK'
  <2>1. place' = "done" /\ (outcome' \in {"nack", "crc"} \/ outcome' = err)
    BY <1>2, Zenon DEF SendFailed, Done
  <2> QED
    BY <1>1, <2>1, Zenon DEF ExchangeInv, TransactionTypeOK, Still, Results
<1> QED
  BY <1>1, <1>2, <1>3, SendFails, Zenon DEF Writing

\* What is read is logged.
LEMMA LoggedOf ==
  ASSUME Input, log \in Logs, NEW what \in Told, Logged(what)
  PROVE  log' = Cat(log, Received(what)) /\ log' \in Logs
<1>1. <<"r", what>> \in Marks
  BY Zenon DEF Marks
<1> DEFINE m == <<"r", what>>
<1> HIDE DEF m
<1>2. Append(log, m) = log \o <<m>> /\ Append(log, m) \in Logs
  BY <1>1 DEF Logs, m
<1>3. log' = Append(log, m) /\ Received(what) = <<m>>
  BY Zenon DEF Logged, Received, m
<1> QED
  BY <1>2, <1>3, Zenon DEF Cat

\* ReadSymbol types what it sets.
LEMMA SymbolTyped ==
  ASSUME NEW symbol, NEW wire, ReadSymbol(symbol, wire)
  PROVE  escape' \in BOOLEAN /\ lastSyn' \in {"none", "wire", "payload"}
BY DEF ReadSymbol

LEMMA ReadEscapeKeeps ==
  ASSUME ExchangeInv, ReadEscape
  PROVE  ExchangeInv'
<1>1. /\ place \in ReadingPcs /\ place' = place /\ escape' = TRUE
      /\ Still /\ out' = out /\ sent' = sent /\ after' = after /\ absorbed' = absorbed
      /\ commandAttempt' = commandAttempt /\ respAttempt' = respAttempt
      /\ left' = left /\ lastSyn' = lastSyn /\ outcome' = outcome /\ log' = log /\ echoes' = echoes
  BY Zenon DEF ReadEscape, Still, input, sending
<1>2. TransactionTypeOK' /\ log' \in Logs
  BY <1>1, Zenon DEF ExchangeInv, TransactionTypeOK, Still
<1>3. /\ Progress(place', out', sent', after', commandAttempt', respAttempt', log')
      /\ Room(place', absorbed', left') /\ OutcomeOK(place', outcome', log')
      /\ place' \in {"done", "idle"} => Legal(log', sent')
  BY <1>1, Zenon DEF ExchangeInv
<1>4. EchoesAreOurs'
  BY <1>1, Zenon DEF ExchangeInv, EchoesAreOurs, Still
<1> QED
  BY <1>1, <1>2, <1>3, <1>4, Follows, Zenon

\* A read that ends the transaction.
LEMMA ReadEnds ==
  ASSUME ExchangeInv, place \in ReadingPcs, Still, log' = log, sent' = sent, echoes' = echoes,
         out' = out, after' = after, absorbed' = absorbed, commandAttempt' = commandAttempt, respAttempt' = respAttempt,
         left' = left, escape' \in BOOLEAN, lastSyn' \in {"none", "wire", "payload"},
         NEW err \in ReadErrors \cup {"idle"}, Done(err)
  PROVE  ExchangeInv'
<1>1. place' = "done" /\ outcome' = err
  BY Zenon DEF Done
<1>2. TransactionTypeOK'
  BY <1>1, Zenon DEF ExchangeInv, TransactionTypeOK, Still, Results
<1>3. outcome' \notin {"ok", "nack", "crc"} /\ place \notin {"done", "idle"}
  BY <1>1 DEF ReadErrors, ReadingPcs
<1> QED
  BY <1>1, <1>2, <1>3, EndsLegally, Zenon

LEMMA ReadFailedKeeps ==
  ASSUME ExchangeInv, ReadFailed
  PROVE  ExchangeInv'
<1>1. /\ place \in ReadingPcs /\ escape' \in BOOLEAN
      /\ Still /\ out' = out /\ sent' = sent /\ after' = after /\ absorbed' = absorbed
      /\ commandAttempt' = commandAttempt /\ respAttempt' = respAttempt
      /\ left' = left /\ lastSyn' = lastSyn /\ log' = log /\ echoes' = echoes
  BY Zenon DEF ReadFailed, Still, input, sending
<1>2. PICK err \in ReadErrors : Done(err)
  BY Zenon DEF ReadFailed, ReadErrors
<1>3. lastSyn' \in {"none", "wire", "payload"}
  BY <1>1, Zenon DEF ExchangeInv, TransactionTypeOK
<1> QED
  BY <1>1, <1>2, <1>3, ReadEnds, Zenon

LEMMA ReadIdleKeeps ==
  ASSUME ExchangeInv, ReadIdle
  PROVE  ExchangeInv'
<1>1. /\ place \in ReadingPcs
      /\ Still /\ out' = out /\ sent' = sent /\ after' = after /\ absorbed' = absorbed
      /\ commandAttempt' = commandAttempt /\ respAttempt' = respAttempt
      /\ left' = left /\ log' = log /\ echoes' = echoes /\ Done("idle")
  BY Zenon DEF ReadIdle, Still, input, sending, ReadingPcs
<1>2. escape' \in BOOLEAN /\ lastSyn' \in {"none", "wire", "payload"}
  BY SymbolTyped, Zenon DEF ReadIdle
<1> QED
  BY <1>1, <1>2, ReadEnds, Zenon

\* A symbol of the response is read and more are to come.
LEMMA ReadGoesOn ==
  ASSUME ExchangeInv, place \in Answering, place' \in {"data", "crc"}, left' \in 0 .. MaxLength,
         place' = "data" => left' > 0, escape' \in BOOLEAN, lastSyn' \in {"none", "wire", "payload"},
         Still, out' = out, sent' = sent, after' = after, absorbed' = absorbed,
         commandAttempt' = commandAttempt, respAttempt' = respAttempt, outcome' = outcome, log' = log, echoes' = echoes
  PROVE  ExchangeInv'
<1>1. place' \in {"idle", "command", "write", "echo", "drain", "done"} \cup ReadingPcs /\ place' \notin Writing
  BY DEF ReadingPcs, Writing
<1>2. TransactionTypeOK' /\ log' \in Logs
  BY <1>1, Zenon DEF ExchangeInv, TransactionTypeOK, Still, Writing
<1>3. Progress(place', out', sent', after', commandAttempt', respAttempt', log')
  BY DEF ExchangeInv, Progress, Writing, Answering, ReadingPcs
<1>4. EchoesAreOurs'
  BY Zenon DEF ExchangeInv, EchoesAreOurs, Still
<1>5. Room(place', absorbed', left') /\ OutcomeOK(place', outcome', log') /\ place' \notin {"done", "idle"}
  BY DEF ExchangeInv, Room, OutcomeOK, Answering
<1> QED
  BY <1>2, <1>3, <1>4, <1>5, Follows, Zenon

\* What a symbol of the response is, and what reading it leaves.
LEMMA ResponseTyped ==
  ASSUME NEW symbol \in InBytes \cup {SymbolEscape, SymbolSyn}, ReadResponse(symbol)
  PROVE  symbol \in 0 .. 255 /\ escape' \in BOOLEAN /\ lastSyn' \in {"none", "wire", "payload"}
<1>1. escape' \in BOOLEAN /\ lastSyn' \in {"none", "wire", "payload"}
  BY SymbolTyped, Zenon DEF ReadResponse
<1>2. symbol \in 0 .. 255
  BY BytesAssumption DEF SymbolEscape, SymbolSyn
<1> QED
  BY <1>1, <1>2

LEMMA ReadLengthKeeps ==
  ASSUME ExchangeInv, ReadLength
  PROVE  ExchangeInv'
<1>1. /\ place = "length" /\ place' = IF left' = 0 THEN "crc" ELSE "data"
      /\ Still /\ out' = out /\ sent' = sent /\ after' = after /\ absorbed' = absorbed
      /\ commandAttempt' = commandAttempt /\ respAttempt' = respAttempt
      /\ outcome' = outcome /\ log' = log /\ echoes' = echoes
  BY Zenon DEF ReadLength, Still, input, sending
<1>2. PICK symbol \in InBytes \cup {SymbolEscape, SymbolSyn} :
        ReadResponse(symbol) /\ left' = IF symbol > MaxLength THEN MaxLength ELSE symbol
  BY Zenon DEF ReadLength
<1>3. symbol \in 0 .. 255 /\ escape' \in BOOLEAN /\ lastSyn' \in {"none", "wire", "payload"}
  BY <1>2, ResponseTyped, Zenon
<1>4. left' \in 0 .. MaxLength
  BY <1>2, <1>3, LimitsAssumption
<1>5. place \in Answering /\ place' \in {"data", "crc"} /\ (place' = "data" => left' > 0)
  <2>1. left' = 0 \/ left' > 0
    BY <1>4, LimitsAssumption
  <2> QED
    BY <1>1, <2>1 DEF Answering
<1> QED
  BY <1>1, <1>3, <1>4, <1>5, ReadGoesOn, Zenon

LEMMA ReadDataKeeps ==
  ASSUME ExchangeInv, ReadData
  PROVE  ExchangeInv'
<1>1. /\ place = "data" /\ place' = IF left' = 0 THEN "crc" ELSE "data"
      /\ Still /\ out' = out /\ sent' = sent /\ after' = after /\ absorbed' = absorbed
      /\ commandAttempt' = commandAttempt /\ respAttempt' = respAttempt
      /\ outcome' = outcome /\ log' = log /\ echoes' = echoes /\ left' = left - 1
  BY Zenon DEF ReadData, Still, input, sending
<1>2. escape' \in BOOLEAN /\ lastSyn' \in {"none", "wire", "payload"}
  BY ResponseTyped, Zenon DEF ReadData
<1>3. left \in 0 .. MaxLength /\ left > 0
  BY <1>1, Zenon DEF ExchangeInv, TransactionTypeOK, Room
<1>4. left' \in 0 .. MaxLength
  BY <1>1, <1>3, LimitsAssumption
<1>5. place \in Answering /\ place' \in {"data", "crc"} /\ (place' = "data" => left' > 0)
  <2>1. left' = 0 \/ left' > 0
    BY <1>4, LimitsAssumption
  <2> QED
    BY <1>1, <2>1 DEF Answering
<1> QED
  BY <1>1, <1>2, <1>4, <1>5, ReadGoesOn, Zenon

\* A symbol is read and logged, and the exchange goes on.
LEMMA ReadAnswered ==
  ASSUME ExchangeInv, place \in ReadingPcs, place' \in {"write", "command", "length"}, log' \in Logs, out' \in Seq(Queued), after' \in Afters,
         commandAttempt' \in 0 .. 2, respAttempt' \in 0 .. 2, escape' \in BOOLEAN, lastSyn' \in {"none", "wire", "payload"},
         Still, sent' = sent, absorbed' = absorbed, left' = left, outcome' = outcome, echoes' = echoes,
         Progress(place', out', sent', after', commandAttempt', respAttempt', log')
  PROVE  ExchangeInv'
<1>1. /\ place' \in {"idle", "command", "write", "echo", "drain", "done"} \cup ReadingPcs
      /\ place' \in {"write", "echo", "drain"} => out' # <<>>
  <2>1. place' \in Writing => out' # <<>>
    BY Zenon DEF Progress
  <2> QED
    BY <2>1, Zenon DEF Writing, ReadingPcs
<1>2. TransactionTypeOK'
  BY <1>1, Zenon DEF ExchangeInv, TransactionTypeOK, Still, Queued, Afters
<1>3. EchoesAreOurs'
  BY Zenon DEF ExchangeInv, EchoesAreOurs, Still
<1>4. Room(place', absorbed', left') /\ OutcomeOK(place', outcome', log') /\ place' \notin {"done", "idle"}
  BY DEF ExchangeInv, Room, OutcomeOK, ReadingPcs
<1> QED
  BY <1>2, <1>3, <1>4, Follows, Zenon

\* The same when it goes on with a write.
LEMMA PlannedIsProgress ==
  ASSUME sent = <<>>, NEW o, o # <<>>, NEW a, NEW c, NEW n, NEW l, Planned(a, c, n, Cat(l, Rest(o))),
         a \in {"nack", "crc"} => o = EndOfMessage
  PROVE  Progress("write", o, sent, a, c, n, l)
BY DEF Progress, Writing, Answering, ReadingPcs

LEMMA ReadAckKeeps ==
  ASSUME ExchangeInv, ReadAck
  PROVE  ExchangeInv'
<1>1. /\ place = "ack" /\ Still /\ sent' = sent /\ absorbed' = absorbed /\ respAttempt' = respAttempt /\ left' = left /\ echoes' = echoes
  BY Zenon DEF ReadAck, Still, input
<1>2. /\ TransactionTypeOK /\ Input /\ log \in Logs /\ sent = <<>> /\ respAttempt = 0 /\ outcome = "none"
      /\ commandAttempt \in Once /\ frameType # "M2BC" /\ log = Asked(commandAttempt) /\ out \in Seq(Queued) /\ after \in Afters
  BY <1>1, ExchangeTyped, Zenon DEF ExchangeInv, Progress, OutcomeOK, ReadingPcs
<1>3. PICK symbol \in InBytes \cup {SymbolSyn}, wire \in BOOLEAN :
       /\ ReadSymbol(symbol, wire)
       /\ \/ /\ symbol = SymbolAck
             /\ Logged("ack")
             /\ \/ frameType = "M2M" /\ Send(EndOfMessage, "ok")
                \/ frameType = "M2S" /\ place' = "length" /\ UNCHANGED <<out, after>>
             /\ UNCHANGED <<commandAttempt, outcome>>
          \/ /\ symbol = SymbolNack
             /\ Logged("nack")
             /\ commandAttempt' = commandAttempt + 1
             /\ \/ commandAttempt = 0 /\ place' = "command" /\ UNCHANGED <<out, after>>
                \/ commandAttempt = 1 /\ Send(EndOfMessage, "nack")
             /\ UNCHANGED outcome
          \/ /\ symbol \notin {SymbolAck, SymbolNack}
             /\ Done("timeout")
             /\ UNCHANGED <<out, after, commandAttempt, log>>
  BY Zenon DEF ReadAck
<1>4. escape' \in BOOLEAN /\ lastSyn' \in {"none", "wire", "payload"} /\ place \in ReadingPcs
  BY <1>1, <1>3, SymbolTyped, Zenon DEF ReadingPcs
<1>5. respAttempt' \in 0 .. 2 /\ 0 \in Once /\ 1 \in Once
  BY <1>1, <1>2 DEF Once
<1>6. /\ EndOfMessage \in Seq(Queued) /\ EndOfMessage # <<>> /\ Rest(EndOfMessage) = Terminator /\ Terminator \in Logs
      /\ "ack" \in Told /\ "nack" \in Told /\ "ok" \in Afters /\ "nack" \in Afters
  BY <1>2, WritesOf, PartsOf, Zenon DEF Told, Afters
<1>7. CASE Logged("ack") /\ frameType = "M2M" /\ Send(EndOfMessage, "ok") /\ UNCHANGED <<commandAttempt, outcome>>
  <2>1. /\ out' = EndOfMessage /\ after' = "ok" /\ place' = "write" /\ commandAttempt' = commandAttempt /\ outcome' = outcome
        /\ log' = Agreed(commandAttempt) /\ log' \in Logs
    BY <1>2, <1>6, <1>7, LoggedOf, Zenon DEF Send, Agreed
  <2>2. Cat(log', Rest(out')) \in Exchanges("ok")
    BY <1>2, <1>6, <1>7, <2>1, ExchangesOf, Zenon
  <2>3. Planned(after', commandAttempt', respAttempt', Cat(log', Rest(out')))
    BY <2>1, <2>2 DEF Planned
  <2>4. Progress(place', out', sent', after', commandAttempt', respAttempt', log')
    BY <1>1, <1>2, <1>6, <2>1, <2>3, PlannedIsProgress
  <2>5. commandAttempt' \in 0 .. 2
    BY <1>2, <2>1 DEF Once
  <2> QED
    BY <1>1, <1>4, <1>5, <1>6, <2>1, <2>4, <2>5, ReadAnswered, Zenon
<1>8. CASE Logged("ack") /\ frameType = "M2S" /\ place' = "length" /\ UNCHANGED <<out, after>> /\ UNCHANGED <<commandAttempt, outcome>>
  <2>1. /\ out' = out /\ after' = after /\ place' = "length" /\ commandAttempt' = commandAttempt /\ outcome' = outcome
        /\ log' = Agreed(commandAttempt) /\ log' \in Logs
    BY <1>2, <1>6, <1>8, LoggedOf, Zenon DEF Agreed
  <2>2. log' = Refusals(commandAttempt', respAttempt')
    BY <1>1, <1>2, <2>1, Zenon DEF Refusals
  <2>3. Progress(place', out', sent', after', commandAttempt', respAttempt', log')
    BY <1>1, <1>2, <1>5, <1>8, <2>1, <2>2 DEF Progress, Writing, Answering, ReadingPcs
  <2>4. commandAttempt' \in 0 .. 2
    BY <1>2, <2>1 DEF Once
  <2> QED
    BY <1>1, <1>2, <1>4, <1>5, <2>1, <2>3, <2>4, ReadAnswered, Zenon
<1>9. CASE Logged("nack") /\ commandAttempt' = commandAttempt + 1 /\ commandAttempt = 0 /\ place' = "command" /\ UNCHANGED <<out, after>> /\ UNCHANGED outcome
  <2>1. /\ out' = out /\ after' = after /\ place' = "command" /\ outcome' = outcome
        /\ log' = Cat(FirstCommand, Received("nack")) /\ log' \in Logs
    BY <1>2, <1>6, <1>9, LoggedOf, Zenon DEF Asked
  <2>2. commandAttempt' = 1 /\ commandAttempt' \in 0 .. 2
    BY <1>9
  <2>3. Progress(place', out', sent', after', commandAttempt', respAttempt', log')
    BY <1>1, <1>2, <2>1, <2>2 DEF Progress, Writing, Answering, ReadingPcs
  <2> QED
    BY <1>1, <1>2, <1>4, <1>5, <2>1, <2>2, <2>3, ReadAnswered, Zenon
<1>10. CASE Logged("nack") /\ commandAttempt' = commandAttempt + 1 /\ commandAttempt = 1 /\ Send(EndOfMessage, "nack") /\ UNCHANGED outcome
  <2>1. commandAttempt' \in 0 .. 2 /\ commandAttempt # 0
    BY <1>10
  <2>2. /\ out' = EndOfMessage /\ after' = "nack" /\ place' = "write" /\ outcome' = outcome
        /\ log' = Rejected /\ log' \in Logs
    BY <1>2, <1>6, <1>10, <2>1, LoggedOf, Zenon DEF Send, Rejected, Asked
  <2>3. Planned(after', commandAttempt', respAttempt', Cat(log', Rest(out')))
    BY <1>6, <2>2 DEF Planned
  <2>4. Progress(place', out', sent', after', commandAttempt', respAttempt', log')
    BY <1>1, <1>2, <1>6, <2>2, <2>3, PlannedIsProgress
  <2> QED
    BY <1>1, <1>4, <1>5, <1>6, <2>1, <2>2, <2>4, ReadAnswered, Zenon
<1>11. CASE Done("timeout") /\ UNCHANGED <<out, after, commandAttempt, log>>
  <2>1. out' = out /\ after' = after /\ commandAttempt' = commandAttempt /\ log' = log /\ "timeout" \in ReadErrors \cup {"idle"}
    BY <1>11, Zenon DEF ReadErrors
  <2> QED
    BY <1>1, <1>4, <1>11, <2>1, ReadEnds, Zenon
<1> QED
  BY <1>3, <1>7, <1>8, <1>9, <1>10, <1>11, Zenon

LEMMA ReadCRCKeeps ==
  ASSUME ExchangeInv, ReadCRC
  PROVE  ExchangeInv'
<1>1. /\ place = "crc" /\ Still /\ sent' = sent /\ absorbed' = absorbed /\ commandAttempt' = commandAttempt /\ left' = left
      /\ echoes' = echoes /\ outcome' = outcome
  BY Zenon DEF ReadCRC, Still, input
<1>2. /\ TransactionTypeOK /\ Input /\ log \in Logs /\ sent = <<>> /\ frameType = "M2S"
      /\ commandAttempt \in Once /\ respAttempt \in Once /\ log = Refusals(commandAttempt, respAttempt)
  BY <1>1, ExchangeTyped, Zenon DEF ExchangeInv, Progress, ReadingPcs, Answering
<1>3. escape' \in BOOLEAN /\ lastSyn' \in {"none", "wire", "payload"} /\ place \in ReadingPcs
  BY <1>1, ResponseTyped, Zenon DEF ReadCRC, ReadingPcs
<1>4. commandAttempt' \in 0 .. 2 /\ 0 \in Once /\ 1 \in Once /\ SymbolAck \in 0 .. 255 /\ SymbolNack \in 0 .. 255
  BY <1>1, <1>2 DEF Once, SymbolAck, SymbolNack
<1> DEFINE A == SymbolWithEcho(SymbolAck, TRUE, FALSE)
           B == SymbolWithEcho(SymbolNack, TRUE, FALSE)
<1>5. /\ EndOfMessage \in Seq(Queued) /\ Rest(EndOfMessage) = Terminator /\ Terminator \in Logs
      /\ A \in Seq(Queued) /\ A # <<>> /\ Rest(A) = <<Sent(SymbolAck)>> /\ <<Sent(SymbolAck)>> \in Logs
      /\ B \in Seq(Queued) /\ B # <<>> /\ Rest(B) = <<Sent(SymbolNack)>> /\ <<Sent(SymbolNack)>> \in Logs
      /\ Refusal = Cat(Received("bad"), <<Sent(SymbolNack)>>) /\ Received("bad") \in Logs
      /\ "good" \in Told /\ "bad" \in Told /\ "ok" \in Afters /\ "length" \in Afters /\ "crcEnd" \in Afters
  <2>1. "good" \in Told /\ "bad" \in Told /\ "ok" \in Afters /\ "length" \in Afters /\ "crcEnd" \in Afters
    BY DEF Told, Afters
  <2> QED
    BY <1>2, <1>4, <2>1, WritesOf, PartsOf, Zenon
<1>6. \/ Logged("good") /\ Send(A \o EndOfMessage, "ok") /\ UNCHANGED respAttempt
      \/ Logged("bad") /\ Send(B, IF respAttempt = 0 THEN "length" ELSE "crcEnd") /\ respAttempt' = respAttempt + 1
  BY Zenon DEF ReadCRC
<1> HIDE DEF A, B
<1>7. CASE Logged("good") /\ Send(A \o EndOfMessage, "ok") /\ UNCHANGED respAttempt
  <2>1. /\ out' = A \o EndOfMessage /\ after' = "ok" /\ place' = "write" /\ respAttempt' = respAttempt
        /\ log' = Cat(Refusals(commandAttempt, respAttempt), Received("good")) /\ log' \in Logs
    BY <1>2, <1>5, <1>7, LoggedOf, Zenon DEF Send
  <2>2. out' \in Seq(Queued) /\ out' # <<>>
    BY <1>5, <2>1
  <2>3. Rest(out') = Cat(<<Sent(SymbolAck)>>, Terminator)
    BY <1>5, <2>1, RestOf, Zenon
  <2>4. Cat(log', Rest(out')) = Cat(Cat(log', <<Sent(SymbolAck)>>), Terminator)
    <3> DEFINE x == log'
               y == <<Sent(SymbolAck)>>
    <3>1. x \in Logs /\ y \in Logs
      BY <1>5, <2>1, Zenon
    <3> HIDE DEF x, y
    <3>2. Cat(x, Cat(y, Terminator)) = Cat(Cat(x, y), Terminator)
      BY <1>5, <3>1, Joined
    <3> QED
      BY <2>3, <3>2, Zenon DEF x, y
  <2>5. Cat(log', Rest(out')) \in Exchanges("ok")
    BY <1>2, <2>1, <2>4, ExchangesOf, Zenon
  <2>6. Planned(after', commandAttempt', respAttempt', Cat(log', Rest(out')))
    BY <2>1, <2>5 DEF Planned
  <2>7. Progress(place', out', sent', after', commandAttempt', respAttempt', log')
    BY <1>1, <1>2, <2>1, <2>2, <2>6, PlannedIsProgress
  <2>8. respAttempt' \in 0 .. 2
    BY <1>2, <2>1 DEF Once
  <2> QED
    BY <1>1, <1>3, <1>4, <1>5, <2>1, <2>2, <2>7, <2>8, ReadAnswered, Zenon
<1>8. CASE Logged("bad") /\ Send(B, IF respAttempt = 0 THEN "length" ELSE "crcEnd") /\ respAttempt' = respAttempt + 1
  <2>1. /\ out' = B /\ after' = (IF respAttempt = 0 THEN "length" ELSE "crcEnd") /\ place' = "write"
        /\ log' = Cat(log, Received("bad")) /\ log' \in Logs
    BY <1>2, <1>5, <1>8, LoggedOf, Zenon DEF Send
  <2>2. Cat(log', Rest(out')) = Cat(log, Refusal)
    <3> DEFINE y == Received("bad")
               z == <<Sent(SymbolNack)>>
    <3>1. y \in Logs /\ z \in Logs
      BY <1>5, Zenon
    <3> HIDE DEF y, z
    <3>2. Cat(log, Cat(y, z)) = Cat(Cat(log, y), z)
      BY <1>2, <3>1, Joined
    <3> QED
      BY <1>5, <2>1, <3>2, Zenon DEF y, z
  <2>5. Planned(after', commandAttempt', respAttempt', Cat(log', Rest(out')))
    <3>1. CASE respAttempt = 0
      <4>1. respAttempt' = 1 /\ 1 # 0
        BY <1>8, <3>1
      <4>2. Cat(log', Rest(out')) = Refusals(commandAttempt, 1)
        BY <1>2, <2>2, <3>1, <4>1, Zenon DEF Refusals
      <4> QED
        BY <1>1, <1>2, <2>1, <3>1, <4>1, <4>2 DEF Planned
    <3>2. CASE respAttempt # 0
      <4>1. Cat(log', Rest(out')) = GivenUp(commandAttempt)
        BY <1>2, <2>2, <3>2, Zenon DEF Refusals, GivenUp
      <4> QED
        BY <1>1, <1>2, <2>1, <3>2, <4>1 DEF Planned
    <3> QED
      BY <3>1, <3>2, Zenon
  <2>6. Progress(place', out', sent', after', commandAttempt', respAttempt', log')
    BY <1>1, <1>2, <1>5, <2>1, <2>5, PlannedIsProgress
  <2>7. respAttempt' \in 0 .. 2
    BY <1>2, <1>8 DEF Once
  <2>8. after' \in Afters
    BY <1>5, <2>1, Zenon
  <2> QED
    BY <1>1, <1>3, <1>4, <1>5, <2>1, <2>6, <2>7, <2>8, ReadAnswered, Zenon
<1> QED
  BY <1>6, <1>7, <1>8, Zenon

\* What the transport delivers for a write that is confirmed.
Ours(item, d) ==
  kind # "unflagged" =>
    d = [byte |-> item.raw, escaped |-> kind = "flagged" /\ ~item.expectRawSyn /\ item.raw \in {SymbolEscape, SymbolSyn}]

\* A pair, byte by byte.
LEMMA PairOf ==
  ASSUME NEW a \in Nat, NEW k \in Nat
  PROVE  Append(<<a>>, k) = <<a, k>>
<1> DEFINE s == <<a>>
<1> HIDE DEF s
<1>1. s \in Seq(Nat) /\ Len(s) = 1
  BY DEF s
<1>2. Append(s, k) \in Seq(Nat) /\ Len(Append(s, k)) = 2 /\ Append(s, k)[1] = s[1] /\ Append(s, k)[2] = k
  BY <1>1 DEF s
<1>3. <<a, k>> \in Seq(Nat) /\ Len(<<a, k>>) = 2 /\ <<a, k>>[1] = a /\ <<a, k>>[2] = k /\ s[1] = a
  BY DEF s
<1>4. \A x, y \in Seq(Nat) : Len(x) = 2 /\ Len(y) = 2 /\ x[1] = y[1] /\ x[2] = y[2] => x = y
  OBVIOUS
<1> QED
  BY <1>2, <1>3, <1>4, Zenon DEF s

\* The raw write of the symbol at the head.
LEMMA RawOf ==
  ASSUME NEW item \in Queued, sent \in {<<>>, <<SymbolEscape>>}, sent # <<>> => ~Whole(item)
  PROVE  /\ Raw(item).expectRawSyn \in BOOLEAN /\ (Raw(item).expectRawSyn => Raw(item).raw = SymbolSyn)
         /\ Whole(item) => Raw(item).raw = item.symbol /\ (Raw(item).expectRawSyn <=> ~item.esc /\ item.symbol = SymbolSyn)
         /\ ~Whole(item) /\ sent = <<>> => <<Raw(item).raw>> = <<SymbolEscape>>
         /\ Whole(item) \/ sent # <<>> => <<"w", Append(sent, Raw(item).raw), Raw(item).expectRawSyn>> = Mark(item)
<1>1. item.symbol \in 0 .. 255 /\ item.esc \in BOOLEAN
  BY DEF Queued
<1>2. CASE Whole(item)
  <2>1. sent = <<>> /\ Raw(item).raw = item.symbol /\ Raw(item).expectRawSyn = (~item.esc /\ item.symbol = SymbolSyn)
    BY <1>2 DEF Raw
  <2>2. Append(sent, Raw(item).raw) = <<item.symbol>>
    BY <2>1, <1>1
  <2> QED
    BY <1>1, <1>2, <2>1, <2>2, Zenon DEF Mark
<1>3. CASE ~Whole(item) /\ sent = <<>>
  <2>1. Raw(item).raw = SymbolEscape /\ Raw(item).expectRawSyn = FALSE
    BY <1>3 DEF Raw
  <2> QED
    BY <1>3, <2>1
<1>4. CASE ~Whole(item) /\ sent # <<>>
  <2>1. item.esc /\ item.symbol \in {169, 170} /\ sent = <<169>>
    BY <1>1, <1>4 DEF Whole, SymbolEscape, SymbolSyn
  <2>2. Raw(item).raw = (IF item.symbol = SymbolSyn THEN 1 ELSE 0) /\ Raw(item).expectRawSyn = FALSE
    BY <1>4 DEF Raw
  <2>3. Raw(item).raw = item.symbol - SymbolEscape
    BY <2>1, <2>2 DEF SymbolEscape, SymbolSyn
  <2>4. Append(sent, Raw(item).raw) = <<SymbolEscape, item.symbol - SymbolEscape>>
    <3> DEFINE k == item.symbol - SymbolEscape
    <3>1. k \in Nat /\ SymbolEscape \in Nat /\ sent = <<SymbolEscape>>
      BY <2>1 DEF SymbolEscape
    <3> HIDE DEF k
    <3>2. Append(<<SymbolEscape>>, k) = <<SymbolEscape, k>>
      BY <3>1, PairOf, Zenon
    <3> QED
      BY <2>3, <3>1, <3>2, Zenon DEF k
  <2> QED
    BY <1>4, <2>1, <2>2, <2>4, Zenon DEF Mark
<1> QED
  BY <1>2, <1>3, <1>4, Zenon

\* The echoes stay ours.
LEMMA EchoesStay ==
  ASSUME EchoesAreOurs, Still, NEW item, NEW d, Ours(item, d),
         echoes' = echoes \cup {<<item.raw, item.expectRawSyn, d>>}
  PROVE  EchoesAreOurs'
<1>1. SUFFICES ASSUME kind # "unflagged", NEW e \in echoes'
               PROVE  e[3] = [byte |-> e[1], escaped |-> kind = "flagged" /\ ~e[2] /\ e[1] \in {SymbolEscape, SymbolSyn}]
  BY Zenon DEF EchoesAreOurs, Still
<1>2. CASE e \in echoes
  BY <1>1, <1>2, Zenon DEF EchoesAreOurs
<1>3. CASE e = <<item.raw, item.expectRawSyn, d>>
  <2>1. e[1] = item.raw /\ e[2] = item.expectRawSyn /\ e[3] = d
    BY <1>3
  <2> QED
    BY <1>1, <2>1, Zenon DEF Ours
<1> QED
  BY <1>1, <1>2, <1>3, Zenon

\* A symbol that is confirmed moves from what is to be written to the log.
LEMMA MovesToLog ==
  ASSUME NEW l \in Logs, NEW o \in Seq(Queued), o # <<>>
  PROVE  /\ Append(l, Mark(Head(o))) \in Logs /\ Tail(o) \in Seq(Queued) /\ Head(o) \in Queued
         /\ Cat(Append(l, Mark(Head(o))), Rest(Tail(o))) = Cat(l, Rest(o))
         /\ Len(o) = 1 => Append(l, Mark(Head(o))) = Cat(l, Rest(o))
<1> DEFINE m == Mark(Head(o))
           y == Rest(Tail(o))
<1>1. Tail(o) \in Seq(Queued) /\ Head(o) \in Queued /\ Len(Tail(o)) = Len(o) - 1
  OBVIOUS
<1>2. m \in Marks /\ y \in Logs /\ Rest(o) = Cat(<<m>>, y) /\ Len(y) = Len(Tail(o))
  BY <1>1, MarkOf, RestOf
<1> HIDE DEF m, y
<1>3. <<m>> \in Logs /\ Append(l, m) = Cat(l, <<m>>) /\ Append(l, m) \in Logs
  <2>1. l \in Seq(Marks) /\ m \in Marks
    BY <1>2, Zenon DEF Logs
  <2>2. <<m>> \in Seq(Marks) /\ Append(l, m) = l \o <<m>> /\ Append(l, m) \in Seq(Marks)
    BY <2>1
  <2> QED
    BY <2>2, Zenon DEF Logs, Cat
<1>4. Cat(Append(l, m), y) = Cat(l, Rest(o))
  BY <1>2, <1>3, Joined
<1>5. ASSUME Len(o) = 1 PROVE Append(l, m) = Cat(l, Rest(o))
  <2>1. y = <<>>
    <3>1. y \in Seq(Marks) /\ Len(y) = 0
      BY <1>1, <1>2, <1>5 DEF Logs
    <3> QED
      BY <3>1
  <2>2. Cat(Append(l, m), <<>>) = Append(l, m)
    BY <1>3, Joined
  <2> QED
    BY <1>4, <2>1, <2>2, Zenon
<1> QED
  BY <1>1, <1>3, <1>4, <1>5, Zenon DEF m, y

\* The rest of a step that confirms a write or goes on to the next.
LEMMA ConfirmGoesOn ==
  ASSUME ExchangeInv, place \in Writing, Still, TransactionTypeOK', EchoesAreOurs', log' \in Logs,
         place' \in {"write", "ack", "length"}, outcome' = outcome,
         Progress(place', out', sent', after', commandAttempt', respAttempt', log')
  PROVE  ExchangeInv'
<1>1. Room(place', absorbed', left') /\ OutcomeOK(place', outcome', log') /\ place' \notin {"done", "idle"}
  BY DEF ExchangeInv, Room, OutcomeOK, Writing
<1> QED
  BY <1>1, Follows, Zenon

LEMMA ConfirmKeeps ==
  ASSUME ExchangeInv, place \in {"echo", "drain"}, NEW d, Ours(Raw(Head(out)), d), Confirm(d), absorbed' \in 0 .. maxPayloadAaAutoSynDrains,
         Still, commandAttempt' = commandAttempt, respAttempt' = respAttempt, left' = left, escape' = escape, lastSyn' = lastSyn
  PROVE  ExchangeInv'
<1> DEFINE item == Raw(Head(out))
<1>1. /\ TransactionTypeOK /\ Input /\ log \in Logs /\ out \in Seq(Queued) /\ out # <<>> /\ sent \in {<<>>, <<SymbolEscape>>}
      /\ sent # <<>> => ~Whole(Head(out))
      /\ after \in Afters /\ place \in Writing
      /\ Planned(after, commandAttempt, respAttempt, Cat(log, Rest(out)))
      /\ after \in {"nack", "crc"} => out = EndOfMessage
  BY ExchangeTyped, Zenon DEF ExchangeInv, Progress, Writing
<1>2. EchoesAreOurs'
  <2>1. echoes' = echoes \cup {<<item.raw, item.expectRawSyn, d>>} /\ Ours(item, d) /\ EchoesAreOurs
    BY Zenon DEF Confirm, ExchangeInv
  <2> HIDE DEF item
  <2> QED
    BY <2>1, EchoesStay, Zenon
<1>3. Head(out) \in Queued
  BY <1>1, MovesToLog, Zenon
<1>4. ASSUME place' \in {"write", "ack", "length", "done"}, out' \in Seq(Queued), out' # <<>>, sent' \in {<<>>, <<SymbolEscape>>},
             after' \in Afters, outcome' \in Results
      PROVE  TransactionTypeOK'
  <2>1. place' \in {"idle", "command", "write", "echo", "drain", "done"} \cup ReadingPcs
    BY <1>4 DEF ReadingPcs
  <2> QED
    BY <1>1, <1>4, <2>1, Zenon DEF TransactionTypeOK, Still, Queued, Afters
<1>5. outcome \in Results /\ (after \in {"ok", "nack", "crc"} => after \in Results)
  BY <1>1 DEF TransactionTypeOK, Results
<1>6. CASE ~Whole(Head(out)) /\ sent = <<>> /\ sent' = <<item.raw>> /\ place' = "write" /\ UNCHANGED <<out, after, outcome, log>>
  <2>1. sent' = <<SymbolEscape>>
    BY <1>1, <1>3, <1>6, RawOf, Zenon
  <2>2. out' = out /\ after' = after /\ outcome' = outcome /\ log' = log /\ place' = "write"
    BY <1>6, Zenon
  <2>3. TransactionTypeOK'
    BY <1>1, <1>4, <1>5, <2>1, <2>2, Zenon
  <2>4. Progress(place', out', sent', after', commandAttempt', respAttempt', log')
    BY <1>1, <1>6, <2>1, <2>2 DEF Progress, Writing, Answering, ReadingPcs
  <2> QED
    BY <1>1, <1>2, <2>2, <2>3, <2>4, ConfirmGoesOn, Zenon
<1>7. ASSUME Whole(Head(out)) \/ sent # <<>>, sent' = <<>>, log' = Append(log, <<"w", Append(sent, item.raw), item.expectRawSyn>>),
             \/ /\ Len(out) > 1
                /\ out' = Tail(out) /\ place' = "write"
                /\ UNCHANGED <<after, outcome>>
             \/ /\ Len(out) = 1 /\ after \in {"ok", "nack", "crc"}
                /\ Done(after)
                /\ UNCHANGED <<out, after>>
             \/ /\ Len(out) = 1 /\ after \in {"ack", "length"}
                /\ place' = after
                /\ UNCHANGED <<out, after, outcome>>
             \/ /\ Len(out) = 1 /\ after = "crcEnd"
                /\ Send(EndOfMessage, "crc")
                /\ UNCHANGED outcome
      PROVE  ExchangeInv'
  <2> DEFINE m == <<"w", Append(sent, item.raw), item.expectRawSyn>>
  <2>1. m = Mark(Head(out))
    BY <1>1, <1>3, <1>7, RawOf, Zenon
  <2>2. log' = Append(log, Mark(Head(out)))
    BY <1>7, <2>1, Zenon
  <2> HIDE DEF item, m
  <2>3. /\ log' \in Logs /\ Tail(out) \in Seq(Queued) /\ Cat(log', Rest(Tail(out))) = Cat(log, Rest(out))
        /\ Len(out) = 1 => log' = Cat(log, Rest(out))
    BY <1>1, <2>2, MovesToLog, Zenon
  <2>4. CASE Len(out) > 1 /\ out' = Tail(out) /\ place' = "write" /\ UNCHANGED <<after, outcome>>
    <3>1. out' = Tail(out) /\ place' = "write" /\ after' = after /\ outcome' = outcome /\ out' \in Seq(Queued)
      BY <2>3, <2>4, Zenon
    <3>2. out' # <<>>
      <4>1. Len(Tail(out)) = Len(out) - 1 /\ Len(out) \in Nat
        BY <1>1
      <4>2. Len(out') # 0
        BY <2>4, <3>1, <4>1
      <4> QED
        BY <4>2
    <3>3. after \notin {"nack", "crc"}
      <4>1. Len(EndOfMessage) = 1
        BY DEF EndOfMessage, SymbolWithEcho
      <4>2. Len(out) # 1
        BY <2>4, <1>1
      <4> QED
        BY <1>1, <4>1, <4>2, Zenon
    <3>4. TransactionTypeOK'
      BY <1>1, <1>4, <1>5, <1>7, <3>1, <3>2, Zenon
    <3>5. Planned(after', commandAttempt', respAttempt', Cat(log', Rest(out')))
      BY <1>1, <2>3, <3>1, Zenon
    <3>6. Progress(place', out', sent', after', commandAttempt', respAttempt', log')
      BY <1>7, <3>1, <3>2, <3>3, <3>5 DEF Progress, Writing, Answering, ReadingPcs
    <3> QED
      BY <1>1, <1>2, <2>3, <3>1, <3>4, <3>6, ConfirmGoesOn, Zenon
  <2>5. CASE Len(out) = 1 /\ after \in {"ok", "nack", "crc"} /\ Done(after) /\ UNCHANGED <<out, after>>
    <3>1. out' = out /\ place' = "done" /\ after' = after /\ outcome' = after /\ log' = Cat(log, Rest(out))
      BY <2>3, <2>5, Zenon DEF Done
    <3>2. log' \in Exchanges(after)
      <4>1. Planned(after, commandAttempt, respAttempt, log')
        BY <1>1, <3>1, Zenon
      <4>2. CASE after = "ok"
        BY <4>1, <4>2, Zenon DEF Planned
      <4>3. CASE after = "nack"
        BY <1>1, <4>1, <4>3, ExchangesOf, Zenon DEF Planned
      <4>4. CASE after = "crc"
        BY <1>1, <4>1, <4>4, ExchangesOf, Zenon DEF Planned
      <4> QED
        BY <2>5, <4>2, <4>3, <4>4, Zenon
    <3>3. Legal(log', sent')
      <4>1. Cat(log', <<>>) = log' /\ <<>> \in Logs /\ after \in Verdicts
        BY <2>3, <2>5, Joined DEF Verdicts
      <4>2. Cat(log', <<>>) \in Exchanges(after)
        BY <3>2, <4>1, Zenon
      <4>3. Legal(log', <<>>)
        BY <2>3, <4>1, <4>2, LegalOf
      <4> QED
        BY <1>7, <4>3, Zenon
    <3>4. TransactionTypeOK'
      BY <1>1, <1>4, <1>5, <1>7, <2>5, <3>1, Zenon
    <3>5. Progress(place', out', sent', after', commandAttempt', respAttempt', log')
      BY <3>1 DEF Progress, Writing, Answering, ReadingPcs
    <3>6. Room(place', absorbed', left') /\ OutcomeOK(place', outcome', log')
      BY <3>1, <3>2 DEF Room, OutcomeOK
    <3> QED
      BY <1>2, <2>3, <3>3, <3>4, <3>5, <3>6, Follows, Zenon
  <2>6. CASE Len(out) = 1 /\ after \in {"ack", "length"} /\ place' = after /\ UNCHANGED <<out, after, outcome>>
    <3>1. out' = out /\ place' = after /\ after' = after /\ outcome' = outcome /\ log' = Cat(log, Rest(out))
      BY <2>3, <2>6, Zenon
    <3>2. Planned(after, commandAttempt, respAttempt, log')
      BY <1>1, <3>1, Zenon
    <3>3. TransactionTypeOK'
      BY <1>1, <1>4, <1>5, <1>7, <2>6, <3>1, Zenon
    <3>4. Progress(place', out', sent', after', commandAttempt', respAttempt', log')
      BY <1>7, <2>6, <3>1, <3>2 DEF Progress, Planned, Writing, Answering, ReadingPcs, Once
    <3> QED
      BY <1>1, <1>2, <2>3, <2>6, <3>1, <3>3, <3>4, ConfirmGoesOn, Zenon
  <2>7. CASE Len(out) = 1 /\ after = "crcEnd" /\ Send(EndOfMessage, "crc") /\ UNCHANGED outcome
    <3>1. out' = EndOfMessage /\ place' = "write" /\ after' = "crc" /\ outcome' = outcome /\ log' = Cat(log, Rest(out))
      BY <2>3, <2>7, Zenon DEF Send
    <3>2. commandAttempt \in Once /\ log' = GivenUp(commandAttempt)
      BY <1>1, <2>7, <3>1, Zenon DEF Planned
    <3>3. EndOfMessage \in Seq(Queued) /\ EndOfMessage # <<>> /\ Rest(EndOfMessage) = Terminator /\ "crc" \in Afters
      BY <1>1, WritesOf, Zenon DEF Afters
    <3>4. TransactionTypeOK'
      BY <1>1, <1>4, <1>5, <1>7, <3>1, <3>3, Zenon
    <3>5. Planned(after', commandAttempt', respAttempt', Cat(log', Rest(out')))
      BY <3>1, <3>2, <3>3 DEF Planned
    <3>6. Progress(place', out', sent', after', commandAttempt', respAttempt', log')
      BY <1>7, <3>1, <3>3, <3>5 DEF Progress, Writing, Answering, ReadingPcs
    <3> QED
      BY <1>1, <1>2, <2>3, <3>1, <3>4, <3>6, ConfirmGoesOn, Zenon
  <2> QED
    BY <1>7, <2>4, <2>5, <2>6, <2>7, Zenon
<1> QED
  BY <1>6, <1>7, Zenon DEF Confirm

\* What a transport delivers: a plain one bytes of the wire, one with flags an escape only as
\* part of a decoded pair.
LEMMA DeliveryOf ==
  ASSUME NEW d \in Deliveries
  PROVE  /\ d.escaped \in BOOLEAN /\ d = [byte |-> d.byte, escaped |-> d.escaped]
         /\ kind = "plain" => ~d.escaped
         /\ kind # "plain" => (d.escaped => d.byte \in {SymbolEscape, SymbolSyn}) /\ (~d.escaped => d.byte # SymbolEscape)
<1>1. \/ kind = "plain" /\ \E b \in InBytes : d = [byte |-> b, escaped |-> FALSE]
      \/ kind # "plain" /\ \E b \in InBytes \ {SymbolEscape} : d = [byte |-> b, escaped |-> FALSE]
      \/ kind # "plain" /\ \E b \in InBytes \cap {SymbolEscape, SymbolSyn} : d = [byte |-> b, escaped |-> TRUE]
  BY Zenon DEF Deliveries
<1>2. CASE kind = "plain" /\ \E b \in InBytes : d = [byte |-> b, escaped |-> FALSE]
  BY <1>2
<1>3. CASE kind # "plain" /\ \E b \in InBytes \ {SymbolEscape} : d = [byte |-> b, escaped |-> FALSE]
  BY <1>3
<1>4. CASE kind # "plain" /\ \E b \in InBytes \cap {SymbolEscape, SymbolSyn} : d = [byte |-> b, escaped |-> TRUE]
  BY <1>4
<1> QED
  BY <1>1, <1>2, <1>3, <1>4, Zenon

\* What each verdict of Echo says.
LEMMA EchoOf ==
  ASSUME NEW item, NEW d \in Deliveries, item.expectRawSyn \in BOOLEAN, item.expectRawSyn => item.raw = SymbolSyn,
         kind \in {"plain", "flagged", "unflagged"}
  PROVE  /\ Echo(item, d) = "ok" => Ours(item, d)
         /\ Echo(item, d) = "drain" => kind = "flagged" /\ ~item.expectRawSyn /\ item.raw = SymbolSyn
<1>1. Mismatch(item, d) \notin {"ok", "drain"}
  BY DEF Mismatch
<1>2. Echo(item, d) = "drain" => kind = "flagged" /\ ~item.expectRawSyn /\ item.raw = SymbolSyn
  BY <1>1, Zenon DEF Echo
<1>3. ASSUME Echo(item, d) = "ok", kind # "unflagged"
      PROVE  d = [byte |-> item.raw, escaped |-> kind = "flagged" /\ ~item.expectRawSyn /\ item.raw \in {SymbolEscape, SymbolSyn}]
  <2>1. /\ d.byte = item.raw
        /\ ~(kind = "flagged" /\ item.expectRawSyn /\ d.byte = SymbolSyn /\ d.escaped)
        /\ ~(kind = "flagged" /\ ~item.expectRawSyn /\ item.raw = SymbolSyn /\ d.byte = SymbolSyn /\ ~d.escaped)
    BY <1>1, <1>3, Zenon DEF Echo
  <2> DEFINE e == kind = "flagged" /\ ~item.expectRawSyn /\ item.raw \in {SymbolEscape, SymbolSyn}
  <2>2. SymbolEscape # SymbolSyn
    BY DEF SymbolEscape, SymbolSyn
  <2>3. d.escaped <=> e
    BY <1>3, <2>1, <2>2, DeliveryOf, Zenon
  <2>4. d.escaped \in BOOLEAN /\ e \in BOOLEAN /\ d = [byte |-> d.byte, escaped |-> d.escaped]
    BY DeliveryOf, Zenon
  <2>5. d.escaped = e
    BY <2>3, <2>4, Zenon
  <2> HIDE DEF e
  <2>6. d = [byte |-> item.raw, escaped |-> e]
    BY <2>1, <2>4, <2>5, Zenon
  <2> QED
    BY <2>6 DEF e
<1> QED
  BY <1>2, <1>3, Zenon DEF Ours

LEMMA EchoReadKeeps ==
  ASSUME ExchangeInv, EchoRead
  PROVE  ExchangeInv'
<1>1. /\ place = "echo" /\ Still /\ commandAttempt' = commandAttempt /\ respAttempt' = respAttempt
      /\ left' = left /\ escape' = escape /\ lastSyn' = lastSyn
  BY Zenon DEF EchoRead, Still, input, reading
<1>2. PICK d \in Deliveries :
       LET echo == Echo(Raw(Head(out)), d) IN
       \/ /\ echo = "ok"
          /\ Confirm(d)
          /\ UNCHANGED absorbed
       \/ /\ echo = "drain"
          /\ place' = "drain" /\ absorbed' = 0
          /\ UNCHANGED <<out, sent, after, outcome, log, echoes>>
       \/ /\ echo \in {"collision", "echoMismatch"}
          /\ SendFailed(echo)
          /\ UNCHANGED <<sending, log, echoes>>
  BY Zenon DEF EchoRead
<1> DEFINE item == Raw(Head(out))
<1>3. /\ TransactionTypeOK /\ Input /\ log \in Logs /\ out \in Seq(Queued) /\ out # <<>> /\ sent \in {<<>>, <<SymbolEscape>>}
      /\ sent # <<>> => ~Whole(Head(out))
      /\ place \in Writing /\ absorbed \in 0 .. maxPayloadAaAutoSynDrains /\ outcome = "none"
      /\ Progress(place, out, sent, after, commandAttempt, respAttempt, log)
  BY <1>1, ExchangeTyped, Zenon DEF ExchangeInv, Progress, Writing, TransactionTypeOK, OutcomeOK
<1>4. Head(out) \in Queued
  BY <1>3, MovesToLog, Zenon
<1>5. /\ item.expectRawSyn \in BOOLEAN /\ (item.expectRawSyn => item.raw = SymbolSyn)
      /\ Whole(Head(out)) => item.raw = Head(out).symbol /\ (item.expectRawSyn <=> ~Head(out).esc /\ Head(out).symbol = SymbolSyn)
  BY <1>3, <1>4, RawOf, Zenon
<1>6. kind \in {"plain", "flagged", "unflagged"}
  BY <1>3, Zenon DEF Input
<1>7. /\ Echo(item, d) = "ok" => Ours(item, d)
      /\ Echo(item, d) = "drain" => kind = "flagged" /\ ~item.expectRawSyn /\ item.raw = SymbolSyn
  <2> HIDE DEF item
  <2> QED
    BY <1>5, <1>6, EchoOf
<1>8. CASE Echo(item, d) = "ok" /\ Confirm(d) /\ UNCHANGED absorbed
  <2>1. Ours(Raw(Head(out)), d) /\ absorbed' \in 0 .. maxPayloadAaAutoSynDrains /\ place \in {"echo", "drain"}
    BY <1>1, <1>3, <1>7, <1>8, Zenon
  <2> QED
    BY <1>1, <1>8, <2>1, ConfirmKeeps, Zenon
<1>9. CASE /\ Echo(item, d) = "drain" /\ place' = "drain" /\ absorbed' = 0
           /\ UNCHANGED <<out, sent, after, outcome, log, echoes>>
  <2>1. /\ place' = "drain" /\ absorbed' = 0 /\ out' = out /\ sent' = sent /\ after' = after /\ outcome' = outcome /\ log' = log
        /\ echoes' = echoes
    BY <1>9, Zenon
  <2>2. kind = "flagged" /\ Whole(Head(out)) /\ Head(out).symbol = SymbolSyn /\ Head(out).esc
    <3>1. Head(out).esc \in BOOLEAN
      BY <1>4 DEF Queued
    <3>2. kind = "flagged" /\ Whole(Head(out))
      BY <1>7, <1>9 DEF Whole
    <3> QED
      BY <1>5, <1>7, <1>9, <3>1, <3>2, Zenon
  <2>3. absorbed' \in 0 .. maxPayloadAaAutoSynDrains /\ absorbed' < maxPayloadAaAutoSynDrains
    BY <2>1, LimitsAssumption
  <2>4. TransactionTypeOK'
    BY <1>1, <1>3, <2>1, <2>3, Zenon DEF TransactionTypeOK, Still
  <2>5. Progress(place', out', sent', after', commandAttempt', respAttempt', log')
    BY <1>1, <1>3, <2>1, <2>2 DEF Progress, Writing, Answering, ReadingPcs
  <2>6. EchoesAreOurs'
    BY <1>1, <2>1, Zenon DEF ExchangeInv, EchoesAreOurs, Still
  <2>7. Room(place', absorbed', left') /\ OutcomeOK(place', outcome', log') /\ place' \notin {"done", "idle"} /\ log' \in Logs
    BY <1>3, <2>1, <2>3 DEF Room, OutcomeOK
  <2> QED
    BY <1>1, <2>4, <2>5, <2>6, <2>7, Follows, Zenon
<1>10. CASE /\ Echo(item, d) \in {"collision", "echoMismatch"} /\ SendFailed(Echo(item, d))
            /\ UNCHANGED <<sending, log, echoes>>
  <2> DEFINE err == Echo(item, d)
  <2>1. /\ out' = out /\ sent' = sent /\ after' = after /\ absorbed' = absorbed /\ log' = log /\ echoes' = echoes
        /\ err \in {"collision", "echoMismatch"} /\ SendFailed(err)
    BY <1>10, Zenon DEF sending
  <2> HIDE DEF err
  <2>2. place' = "done" /\ (outcome' \in {"nack", "crc"} \/ outcome' = err)
    BY <2>1, Zenon DEF SendFailed, Done
  <2>3. outcome' \in Results
    BY <2>1, <2>2 DEF Results
  <2>4. TransactionTypeOK'
    BY <1>1, <1>3, <2>1, <2>2, <2>3, Zenon DEF TransactionTypeOK, Still
  <2> QED
    BY <1>1, <1>3, <2>1, <2>4, SendFails, Zenon
<1> QED
  BY <1>2, <1>8, <1>9, <1>10, Zenon

LEMMA DrainReadKeeps ==
  ASSUME ExchangeInv, DrainRead
  PROVE  ExchangeInv'
<1>1. /\ place = "drain" /\ Still /\ commandAttempt' = commandAttempt /\ respAttempt' = respAttempt
      /\ left' = left /\ escape' = escape /\ lastSyn' = lastSyn /\ absorbed' = absorbed + 1
  BY Zenon DEF DrainRead, Still, input, reading
<1>2. PICK d \in Deliveries :
       \/ /\ d.byte = SymbolSyn /\ d.escaped
          /\ Confirm(d)
       \/ /\ d.byte = SymbolSyn /\ ~d.escaped
          /\ IF absorbed' < maxPayloadAaAutoSynDrains THEN UNCHANGED <<place, outcome>>
             ELSE SendFailed("collision")
          /\ UNCHANGED <<out, sent, after, log, echoes>>
       \/ /\ d.byte # SymbolSyn
          /\ SendFailed(Mismatch(Raw(Head(out)), d))
          /\ UNCHANGED <<out, sent, after, log, echoes>>
  BY Zenon DEF DrainRead
<1>3. /\ TransactionTypeOK /\ log \in Logs /\ place \in Writing /\ absorbed \in 0 .. maxPayloadAaAutoSynDrains
      /\ absorbed < maxPayloadAaAutoSynDrains
      /\ kind = "flagged" /\ Head(out).symbol = SymbolSyn /\ Head(out).esc
      /\ Progress(place, out, sent, after, commandAttempt, respAttempt, log)
  BY <1>1, Zenon DEF ExchangeInv, Progress, Writing, TransactionTypeOK, Room
<1>4. absorbed' \in 0 .. maxPayloadAaAutoSynDrains
  BY <1>1, <1>3, LimitsAssumption
<1>5. CASE d.byte = SymbolSyn /\ d.escaped /\ Confirm(d)
  <2> DEFINE item == Raw(Head(out))
  <2>1. Whole(Head(out))
    BY <1>3 DEF Whole
  <2>2. item.raw = SymbolSyn /\ item.expectRawSyn = FALSE
    BY <1>3, <2>1 DEF Raw
  <2>3. d = [byte |-> SymbolSyn, escaped |-> TRUE]
    BY <1>5, DeliveryOf
  <2> HIDE DEF item
  <2>4. Ours(item, d)
    BY <1>3, <2>2, <2>3 DEF Ours
  <2>5. place \in {"echo", "drain"} /\ Ours(Raw(Head(out)), d)
    BY <1>1, <2>4, Zenon DEF item
  <2> QED
    BY <1>1, <1>4, <1>5, <2>5, ConfirmKeeps, Zenon
<1>6. ASSUME UNCHANGED <<out, sent, after, log, echoes>>, NEW err \in {"collision", "echoMismatch"}, SendFailed(err) PROVE ExchangeInv'
  <2>1. out' = out /\ sent' = sent /\ after' = after /\ log' = log /\ echoes' = echoes
    BY <1>6, Zenon
  <2>2. place' = "done" /\ (outcome' \in {"nack", "crc"} \/ outcome' = err)
    BY <1>6, Zenon DEF SendFailed, Done
  <2>3. outcome' \in Results
    BY <2>2 DEF Results
  <2>4. TransactionTypeOK'
    BY <1>1, <1>3, <1>4, <2>1, <2>2, <2>3, Zenon DEF TransactionTypeOK, Still
  <2> QED
    BY <1>1, <1>3, <1>6, <2>1, <2>4, SendFails, Zenon
<1>7. CASE absorbed' < maxPayloadAaAutoSynDrains /\ UNCHANGED <<place, outcome>> /\ UNCHANGED <<out, sent, after, log, echoes>>
  <2>1. place' = place /\ outcome' = outcome /\ out' = out /\ sent' = sent /\ after' = after /\ log' = log /\ echoes' = echoes
    BY <1>7, Zenon
  <2>2. TransactionTypeOK' /\ log' \in Logs
    BY <1>1, <1>3, <1>4, <2>1, Zenon DEF TransactionTypeOK, Still
  <2>3. Progress(place', out', sent', after', commandAttempt', respAttempt', log')
    BY <1>1, <1>3, <2>1, Zenon
  <2>4. EchoesAreOurs'
    BY <1>1, <2>1, Zenon DEF ExchangeInv, EchoesAreOurs, Still
  <2>5. Room(place', absorbed', left') /\ OutcomeOK(place', outcome', log') /\ place' \notin {"done", "idle"}
    BY <1>1, <1>7, <2>1 DEF ExchangeInv, Room, OutcomeOK
  <2> QED
    BY <1>1, <2>2, <2>3, <2>4, <2>5, Follows, Zenon
<1>8. Mismatch(Raw(Head(out)), d) \in {"collision", "echoMismatch"} /\ "collision" \in {"collision", "echoMismatch"}
  BY DEF Mismatch
<1> QED
  BY <1>2, <1>5, <1>6, <1>7, <1>8, Zenon

-----------------------------------------------------------------------------
(* The transaction as a whole.                                             *)

LEMMA ExchangeStarts == TransactionInit => ExchangeInv
<1> SUFFICES ASSUME TransactionInit PROVE ExchangeInv
  OBVIOUS
<1>1. /\ kind \in {"plain", "flagged", "unflagged"} /\ telegram \in Telegrams /\ includeSource \in BOOLEAN
      /\ place = "idle" /\ out = <<>> /\ sent = <<>> /\ after = "ack" /\ absorbed = 0
      /\ commandAttempt = 0 /\ respAttempt = 0 /\ left = 0 /\ escape = FALSE /\ lastSyn = "none"
      /\ outcome = "none" /\ log = <<>> /\ echoes = {}
  BY Zenon DEF TransactionInit
<1>2. TransactionTypeOK
  <2>1. out \in Seq([symbol : 0 .. 255, esc : BOOLEAN, first : BOOLEAN])
    BY <1>1
  <2>2. absorbed \in 0 .. maxPayloadAaAutoSynDrains /\ commandAttempt \in 0 .. 2 /\ respAttempt \in 0 .. 2 /\ left \in 0 .. MaxLength
    BY <1>1, LimitsAssumption
  <2> QED
    BY <1>1, <2>1, <2>2, Zenon DEF TransactionTypeOK, Results
<1>3. log \in Logs
  BY <1>1 DEF Logs
<1>4. Progress(place, out, sent, after, commandAttempt, respAttempt, log)
  BY <1>1 DEF Progress, Writing, Answering, ReadingPcs
<1>5. Legal(log, sent)
  <2>1. Input
    BY <1>1, Zenon DEF Input
  <2>2. Legal(<<>>, <<>>)
    BY <2>1, <1>1, <1>3, StagesExtend, LegalOf, Zenon DEF Extends
  <2> QED
    BY <1>1, <2>2, Zenon
<1>6. EchoesAreOurs /\ Room(place, absorbed, left) /\ OutcomeOK(place, outcome, log)
  BY <1>1 DEF EchoesAreOurs, Room, OutcomeOK
<1> QED
  BY <1>2, <1>3, <1>4, <1>5, <1>6, Zenon DEF ExchangeInv

LEMMA ExchangeSteps == ExchangeInv /\ [TransactionNext]_transactionVars => ExchangeInv'
<1> SUFFICES ASSUME ExchangeInv, [TransactionNext]_transactionVars PROVE ExchangeInv'
  OBVIOUS
<1>1. CASE UNCHANGED transactionVars
  <2>1. /\ Still /\ place' = place /\ out' = out /\ sent' = sent /\ after' = after /\ absorbed' = absorbed
        /\ commandAttempt' = commandAttempt /\ respAttempt' = respAttempt
        /\ left' = left /\ escape' = escape /\ lastSyn' = lastSyn /\ outcome' = outcome /\ log' = log /\ echoes' = echoes
    BY <1>1, Zenon DEF transactionVars, Still, input, sending, reading
  <2>2. TransactionTypeOK' /\ log' \in Logs
    <3>1. TransactionTypeOK /\ log \in Logs
      BY Zenon DEF ExchangeInv
    <3>2. TransactionTypeOK'
      BY <2>1, <3>1 DEF TransactionTypeOK, Still
    <3> QED
      BY <2>1, <3>1, <3>2, Zenon
  <2>3. /\ Progress(place', out', sent', after', commandAttempt', respAttempt', log')
        /\ Room(place', absorbed', left') /\ OutcomeOK(place', outcome', log')
        /\ place' \in {"done", "idle"} => Legal(log', sent')
    BY <2>1, Zenon DEF ExchangeInv
  <2>4. EchoesAreOurs'
    BY <2>1, Zenon DEF ExchangeInv, EchoesAreOurs, Still
  <2> QED
    BY <2>1, <2>2, <2>3, <2>4, Follows, Zenon
<1>2. CASE TransactionNext
  BY <1>2, BeginKeeps, EndKeeps, SendCommandKeeps, WriteKeeps, EchoReadKeeps, DrainReadKeeps, EchoErrorKeeps,
     ReadEscapeKeeps, ReadFailedKeeps, ReadAckKeeps, ReadIdleKeeps, ReadLengthKeeps, ReadDataKeeps, ReadCRCKeeps, Zenon
     DEF TransactionNext
<1> QED
  BY <1>1, <1>2, Zenon

\* sendTransaction, whatever the bus delivers, writes and reads a prefix of an eBUS exchange and goes
\* on only after its own echoes; a success, a NACK or a CRC mismatch is reported for whole exchanges.
THEOREM TransactionIsLegal == TransactionSpec => []TransactionInv
<1>1. ExchangeInv => TransactionInv
  <2> SUFFICES ASSUME ExchangeInv PROVE TransactionInv
    OBVIOUS
  <2>1. Legal(log, sent)
    <3>1. CASE place \in {"done", "idle"}
      BY <3>1, Zenon DEF ExchangeInv
    <3>2. CASE place \notin {"done", "idle"}
      <4>1. /\ Input /\ log \in Logs /\ place \in {"command"} \cup Writing \cup ReadingPcs
            /\ out \in Seq(Queued) /\ sent \in {<<>>, <<SymbolEscape>>} /\ after \in Afters
            /\ Progress(place, out, sent, after, commandAttempt, respAttempt, log)
        BY <3>2, ExchangeTyped, Zenon DEF ExchangeInv
      <4> QED
        BY <4>1, ProgressLegal
    <3> QED
      BY <3>1, <3>2, Zenon
  <2>2. ExchangeLegal
    BY <2>1, Zenon DEF ExchangeInv, ExchangeLegal, Legal, Begins, OutcomeOK
  <2> QED
    BY <2>2, Zenon DEF ExchangeInv, TransactionInv
<1> QED
  BY <1>1, ExchangeStarts, ExchangeSteps, PTL DEF TransactionSpec
=============================================================================
