------------------------------ MODULE BusSend -------------------------------
(***************************************************************************)
(* protocol/bus.go: sendWithRetries and waitForSyn, the retry loop around  *)
(* one request.  Every iteration checks the contexts, arbitrates and runs  *)
(* a transaction (BusTransaction); an error is retried on a budget, after  *)
(* a wait for an idle bus (collision), after a delay (adapter reset), or   *)
(* after a reconnect that renews the budgets.                              *)
(*                                                                         *)
(* The transport is external.  It may keep a collision recovery alive      *)
(* (CollisionRecoveryLifecycle) which the bus must complete with Retry or  *)
(* Abandon, and which the transport may invalidate by itself.              *)
(* attemptCount is only reported; `attempts` counts the iterations that    *)
(* are charged to a budget, that is all but the collision retries which    *)
(* the deadline of the request bounds.                                     *)
(***************************************************************************)
EXTENDS Integers

CONSTANTS TimeoutRetries, NACKRetries, ReconnectRetries

ASSUME RetryAssumption ==
  TimeoutRetries \in Nat /\ NACKRetries \in Nat /\ ReconnectRetries \in Nat

CollisionRetryResyncSYNCount == 2

VARIABLES
  pc,
  transport,      \* "plain", or "flagged": it decodes escapes and says so (ENH)
  reconnectable,  \* the transport implements Reconnectable
  deadlineBoundsRetries, reqDone, runDone,
  timeoutAttempts, nackAttempts, reconnectAttempts,
  lastErr,        \* the error being handled, "none" before the first
  held,           \* a non-zero recovery token is held for completion
  seen, prevWasEscape,   \* of waitForSyn
  attempts,
  recovery,       \* the transport's collision recovery
  wireSyns,       \* SYN symbols on the wire since the collision
  lateStarts      \* arbitrations started since a context ended

config   == <<transport, reconnectable, deadlineBoundsRetries>>
contexts == <<reqDone, runDone>>
budgets  == <<timeoutAttempts, nackAttempts, reconnectAttempts, attempts>>
synVars  == <<seen, prevWasEscape, wireSyns>>
lifecycle == <<held, recovery>>
vars == <<pc, config, contexts, budgets, lastErr, synVars, lifecycle, lateStarts>>

Errors == {"collision", "timeout", "reset", "crc", "nack", "host", "other"}

Init ==
  /\ pc = "idle"
  /\ transport \in {"plain", "flagged"} /\ reconnectable \in BOOLEAN
  /\ deadlineBoundsRetries = FALSE /\ reqDone = FALSE /\ runDone = FALSE
  /\ timeoutAttempts = 0 /\ nackAttempts = 0 /\ reconnectAttempts = 0 /\ attempts = 0
  /\ lastErr = "none" /\ held = FALSE /\ recovery = "none"
  /\ seen = 0 /\ prevWasEscape = FALSE /\ wireSyns = 0
  /\ lateStarts = 0

-----------------------------------------------------------------------------
(* Contexts                                                                *)

RequestDone ==
  /\ pc # "idle" /\ ~reqDone
  /\ reqDone' = TRUE
  /\ UNCHANGED <<pc, config, runDone, budgets, lastErr, synVars, lifecycle, lateStarts>>

RunDone ==
  /\ ~runDone
  /\ runDone' = TRUE
  /\ UNCHANGED <<pc, config, reqDone, budgets, lastErr, synVars, lifecycle, lateStarts>>

ContextError == reqDone \/ runDone

-----------------------------------------------------------------------------
(* The transport's collision recovery                                      *)

Invalidate ==
  /\ recovery = "live"
  /\ recovery' = "none"
  /\ UNCHANGED <<pc, config, contexts, budgets, lastErr, synVars, held, lateStarts>>

\* completeCollisionRecovery; completing a token that is no longer live is a no-op.
CompleteCollisionRecovery(decision) ==
  /\ recovery' = IF held /\ recovery = "live" THEN decision ELSE recovery
  /\ held' = FALSE

-----------------------------------------------------------------------------
(* sendWithRetries                                                         *)

Return == pc' = "idle"

\* handleRequest calls sendWithRetries.
Begin ==
  /\ pc = "idle"
  /\ pc' = "top"
  /\ deadlineBoundsRetries' \in BOOLEAN
  /\ reqDone' = FALSE
  /\ timeoutAttempts' = 0 /\ nackAttempts' = 0 /\ reconnectAttempts' = 0 /\ attempts' = 1
  /\ lastErr' = "none" /\ recovery' = "none" /\ lateStarts' = 0
  /\ UNCHANGED <<transport, reconnectable, runDone, synVars, held>>

\* Mutant: the loop does not look at the contexts.
TopUnchecked ==
  /\ pc = "top"
  /\ pc' = "arbitrate"
  /\ UNCHANGED <<config, contexts, budgets, lastErr, synVars, lifecycle, lateStarts>>

\* The check at the top of the loop.
Top ==
  /\ pc = "top"
  /\ IF ContextError THEN Return ELSE pc' = "arbitrate"
  /\ UNCHANGED <<config, contexts, budgets, lastErr, synVars, lifecycle, lateStarts>>

\* Mutant: every collision is retried for nothing.
ShouldRetryCollisionFree(err) ==
  CASE err = "collision"       -> "free"
    [] err \in {"reset", "crc"} -> IF timeoutAttempts < TimeoutRetries THEN "timeout" ELSE "no"
    [] err = "nack"            -> IF nackAttempts < NACKRetries THEN "nack" ELSE "no"
    [] OTHER                   -> "no"

\* Mutant: the budget is compared one too late.
ShouldRetryOnceMore(err) ==
  CASE err = "collision" /\ deadlineBoundsRetries -> "free"
    [] err \in {"collision", "reset", "crc"} ->
         IF timeoutAttempts <= TimeoutRetries THEN "timeout" ELSE "no"
    [] err = "nack" -> IF nackAttempts < NACKRetries THEN "nack" ELSE "no"
    [] OTHER -> "no"

\* shouldRetry: the budget a retry is charged to, or "no".
ShouldRetry(err) ==
  CASE err = "collision" /\ deadlineBoundsRetries -> "free"
    [] err \in {"collision", "reset", "crc"} ->
         IF timeoutAttempts < TimeoutRetries THEN "timeout" ELSE "no"
    [] err = "nack" -> IF nackAttempts < NACKRetries THEN "nack" ELSE "no"
    [] OTHER -> "no"

Charge(budget) ==
  /\ timeoutAttempts' = timeoutAttempts + (IF budget = "timeout" THEN 1 ELSE 0)
  /\ nackAttempts' = nackAttempts + (IF budget = "nack" THEN 1 ELSE 0)
  /\ attempts' = attempts + (IF budget = "free" THEN 0 ELSE 1)
  /\ UNCHANGED reconnectAttempts

\* A collision, live saying whether the transport opened a recovery for it: the
\* bus takes its token and abandons it at once when the request is not retried.
Collide(live) ==
  /\ seen' = 0 /\ prevWasEscape' = FALSE /\ wireSyns' = 0
  /\ \/ /\ ShouldRetry("collision") # "no"
        /\ Charge(ShouldRetry("collision"))
        /\ pc' = "backoff"
        /\ held' = live /\ recovery' = IF live THEN "live" ELSE "none"
     \/ /\ ShouldRetry("collision") = "no"
        /\ UNCHANGED budgets
        /\ Return
        /\ held' = FALSE /\ recovery' = IF live THEN "abandon" ELSE "none"

\* The head of tryTransportReconnect.
TryTransportReconnect(err) ==
  /\ err \in {"timeout", "reset", "crc"}
  /\ reconnectable /\ reconnectAttempts < ReconnectRetries

\* StartArbitration or sendTransaction has failed with err.
Fail(err) ==
  /\ lastErr' = err
  /\ \/ err = "collision" /\ \E live \in BOOLEAN : Collide(live)
     \/ /\ err # "collision"
        /\ UNCHANGED <<synVars, lifecycle>>
        /\ \/ /\ ShouldRetry(err) # "no"
              /\ Charge(ShouldRetry(err))
              /\ pc' = IF err = "reset" THEN "resetDelay" ELSE "top"
           \/ /\ ShouldRetry(err) = "no" /\ TryTransportReconnect(err)
              /\ reconnectAttempts' = reconnectAttempts + 1
              /\ pc' = "reconnectDelay"
              /\ UNCHANGED <<timeoutAttempts, nackAttempts, attempts>>
           \/ /\ ShouldRetry(err) = "no" /\ ~TryTransportReconnect(err)
              /\ UNCHANGED budgets
              /\ Return

\* startArbitration returns.
StartArbitration ==
  /\ pc = "arbitrate"
  /\ lateStarts' = lateStarts + (IF ContextError THEN 1 ELSE 0)
  /\ \/ /\ pc' = "transact"
        /\ UNCHANGED <<budgets, lastErr, synVars, lifecycle>>
     \/ \E err \in Errors \ {"crc", "nack"} : Fail(err)
  /\ UNCHANGED <<config, contexts>>

\* sendTransaction returns.
SendTransaction ==
  /\ pc = "transact"
  /\ \/ /\ Return
        /\ UNCHANGED <<budgets, lastErr, synVars, lifecycle>>
     \/ \E err \in Errors : Fail(err)
  /\ UNCHANGED <<config, contexts, lateStarts>>

\* The 50 ms floor after a collision has passed.
Backoff ==
  /\ pc = "backoff"
  /\ pc' = "waitForSyn"
  /\ UNCHANGED <<config, contexts, budgets, lastErr, synVars, lifecycle, lateStarts>>

\* A context ends the backoff.
BackoffDone ==
  /\ pc = "backoff" /\ ContextError
  /\ CompleteCollisionRecovery("abandon")
  /\ Return
  /\ UNCHANGED <<config, contexts, budgets, lastErr, synVars, lateStarts>>

ResetDelay ==
  /\ pc = "resetDelay"
  /\ \/ pc' = "top"
     \/ ContextError /\ Return
  /\ UNCHANGED <<config, contexts, budgets, lastErr, synVars, lifecycle, lateStarts>>

\* The rest of tryTransportReconnect: the delay ...
ReconnectDelay ==
  /\ pc = "reconnectDelay"
  /\ \/ pc' = "reconnect"
     \/ ContextError /\ Return
  /\ UNCHANGED <<config, contexts, budgets, lastErr, synVars, lifecycle, lateStarts>>

\* Mutant: a fresh session also forgets how many reconnects it took.
ReconnectForgets ==
  /\ pc = "reconnect"
  /\ \/ UNCHANGED <<timeoutAttempts, nackAttempts, reconnectAttempts>>
     \/ timeoutAttempts' = 0 /\ nackAttempts' = 0 /\ reconnectAttempts' = 0
  /\ attempts' = attempts + 1
  /\ pc' = "top"
  /\ UNCHANGED <<config, contexts, lastErr, synVars, lifecycle, lateStarts>>

\* ... and Reconnect, whose success renews the two budgets.
Reconnect ==
  /\ pc = "reconnect"
  /\ \/ UNCHANGED <<timeoutAttempts, nackAttempts>>
     \/ timeoutAttempts' = 0 /\ nackAttempts' = 0
  /\ attempts' = attempts + 1
  /\ pc' = "top"
  /\ UNCHANGED <<config, contexts, reconnectAttempts, lastErr, synVars, lifecycle, lateStarts>>

-----------------------------------------------------------------------------
(* waitForSyn                                                              *)

\* Mutant: an error of waitForSyn returns without completing the recovery.
WaitForSynErrorUnsettled ==
  /\ pc = "waitForSyn"
  /\ Return
  /\ UNCHANGED <<config, contexts, budgets, lastErr, synVars, lifecycle, lateStarts>>

\* A context has ended, or a read fails with an error that is not ignored.
WaitForSynError ==
  /\ pc = "waitForSyn"
  /\ CompleteCollisionRecovery("abandon")
  /\ Return
  /\ UNCHANGED <<config, contexts, budgets, lastErr, synVars, lateStarts>>

\* A timeout, an adapter reset or an invalid payload.
WaitForSynIgnored ==
  /\ pc = "waitForSyn" /\ ~ContextError
  /\ prevWasEscape' = FALSE
  /\ UNCHANGED <<pc, config, contexts, budgets, lastErr, seen, wireSyns, lifecycle, lateStarts>>

\* What a read can deliver: a SYN of the wire, an escape lead (plain transports),
\* a payload 0xAA decoded from an escape pair (flagged transports), or other data.
Symbols == IF transport = "plain" THEN {"syn", "escape", "data"} ELSE {"syn", "payloadAA", "data"}

\* Mutant: a decoded payload 0xAA is taken for a SYN.
CountsPayload(symbol) == symbol \in {"syn", "payloadAA"} /\ ~prevWasEscape

\* The symbol is counted as a SYN.
Counts(symbol) == symbol = "syn" /\ ~prevWasEscape

\* One symbol; the second SYN ends the wait and lets the request bid again.
WaitForSynRead ==
  /\ pc = "waitForSyn" /\ ~ContextError
  /\ \E symbol \in Symbols :
       /\ seen' = IF Counts(symbol) THEN seen + 1 ELSE seen
       /\ wireSyns' = IF symbol = "syn" /\ wireSyns < CollisionRetryResyncSYNCount
                      THEN wireSyns + 1 ELSE wireSyns
       /\ prevWasEscape' = (symbol = "escape" /\ ~prevWasEscape)
  /\ \/ /\ seen' < CollisionRetryResyncSYNCount
        /\ UNCHANGED <<pc, lifecycle>>
     \/ /\ seen' = CollisionRetryResyncSYNCount
        /\ CompleteCollisionRecovery("retry")
        /\ pc' = "top"
  /\ UNCHANGED <<config, contexts, budgets, lastErr, lateStarts>>

-----------------------------------------------------------------------------
\* A step of the run loop.
Step ==
  \/ Top \/ StartArbitration \/ SendTransaction \/ Backoff \/ BackoffDone
  \/ ResetDelay \/ ReconnectDelay \/ Reconnect
  \/ WaitForSynError \/ WaitForSynIgnored \/ WaitForSynRead

Next == Begin \/ RequestDone \/ RunDone \/ Invalidate \/ Step

Spec == Init /\ [][Next]_vars

\* Every call on the transport returns, a deadline expires, and a bus that is
\* listened to for ever delivers SYN symbols again and again, also two that no
\* escape lead precedes: between telegrams it carries nothing else.
Fairness ==
  /\ WF_vars(Step)
  /\ WF_vars(deadlineBoundsRetries /\ RequestDone)
  /\ SF_vars(WaitForSynRead /\ seen' = seen + 1)

FairSpec == Spec /\ Fairness

-----------------------------------------------------------------------------
(* Properties                                                              *)

Pcs == {"idle", "top", "arbitrate", "transact", "backoff", "waitForSyn", "resetDelay",
        "reconnectDelay", "reconnect"}

\* Every local of sendWithRetries keeps its type and no budget is overdrawn.
TypeOK ==
  /\ pc \in Pcs
  /\ transport \in {"plain", "flagged"}
  /\ reconnectable \in BOOLEAN /\ deadlineBoundsRetries \in BOOLEAN
  /\ reqDone \in BOOLEAN /\ runDone \in BOOLEAN
  /\ timeoutAttempts \in 0 .. TimeoutRetries
  /\ nackAttempts \in 0 .. NACKRetries
  /\ reconnectAttempts \in 0 .. ReconnectRetries
  /\ attempts \in Nat /\ lateStarts \in Nat
  /\ lastErr \in Errors \cup {"none"}
  /\ held \in BOOLEAN /\ recovery \in {"none", "live", "retry", "abandon"}
  /\ seen \in 0 .. CollisionRetryResyncSYNCount
  /\ wireSyns \in 0 .. CollisionRetryResyncSYNCount
  /\ prevWasEscape \in BOOLEAN

\* Whatever errors follow each other, and whatever contexts end meanwhile, a
\* request is tried at most (ReconnectRetries + 1) times its budgets: a renewal
\* by a reconnect never lets the loop run away.  Collision retries that only the
\* deadline bounds are not counted.
AttemptsBounded ==
  attempts <= (ReconnectRetries + 1) * (TimeoutRetries + NACKRetries + 1)

\* A live collision recovery is completed before the request bids again or
\* returns, on every path out of the backoff and the wait for SYN.
RecoverySettled ==
  recovery = "live" => held /\ pc \in {"backoff", "waitForSyn"}

\* After a collision the request bids again, and tells the transport so, only
\* when the wire has carried two SYN symbols since; an abandoned recovery is not
\* followed by another bid.
RebidOnIdleBus ==
  /\ lastErr = "collision" /\ pc \in {"top", "arbitrate", "transact"} =>
       wireSyns = CollisionRetryResyncSYNCount /\ recovery \in {"none", "retry"}
  /\ recovery = "retry" => wireSyns = CollisionRetryResyncSYNCount
  /\ recovery = "abandon" => pc = "idle"

\* A context that ends between its check and the arbitration lets one more
\* arbitration through, never two.
OneStartAfterDone == lateStarts <= 1

\* How often a request goes on the bus is bounded: by its budgets, renewed or not,
\* and after its context has ended by one.
StartsBounded ==
  /\ TypeOK
  /\ AttemptsBounded
  /\ OneStartAfterDone

\* Collision recovery from the announcement to the new bid: always completed, and
\* completed as a retry on an idle bus only.
RecoveryInv ==
  /\ RecoverySettled
  /\ RebidOnIdleBus

\* Every request is answered: under an expiring deadline in spite of collisions
\* for ever, and without one because the budgets run out.
SendReturns == pc # "idle" ~> pc = "idle"
=============================================================================
