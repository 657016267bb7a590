--------------------------- MODULE DriverRuntime ---------------------------
(***************************************************************************)
(* transport/driver_runtime.go: the lifecycle seam that owns construction, *)
(* admission, retirement and quarantine of transport generations.          *)
(*                                                                         *)
(* A step is one critical section of DriverRuntime.mu (or of one lease's   *)
(* mutex), one exchange with the adapter, or one timer expiry: everything  *)
(* the Go scheduler may put between two of those is an interleaving here.  *)
(* A lifecycle call that is refused in its first critical section changes  *)
(* nothing and is a stuttering step.  A construction, the transport it     *)
(* builds and the generation that transport becomes share one identifier.  *)
(***************************************************************************)
EXTENDS Integers, FiniteSets

CONSTANTS Callers,          \* goroutines calling Start, Stop and Replace
          NoCaller,         \* operationMu is free
          Leases,           \* admissions handed out by Admit
          MaxConstructions  \* bound on constructionSeq

ASSUME NoCallerAssumption == NoCaller \notin Callers
ASSUME LeasesAssumption == IsFiniteSet(Leases)
ASSUME MaxConstructionsAssumption == MaxConstructions \in Nat

VARIABLES
  generation, revision, current, quarantined, retiring, constructionSeq,
  operationMu,      \* the caller that holds operationMu
  pc, op,           \* per caller: where it is, and in which call
  id,               \* per caller: its construction, or the generation it stops
  waits,            \* per caller: the done channels cancelConstructions collected
  late,             \* per caller: drainTimedOut
  state,            \* per construction: driverConstruction.state
  callerDone,       \* per construction: callerCtx is done
  ctxDone,          \* per construction: runtimeCtx is cancelled
  releaseRetiring,  \* per construction: it owns the retirement fence
  adapter,          \* per transport: what the adapter worker has done (external)
  closeRequests,    \* per transport: requests accepted on CloseRequest
  accepting, inFlight, activeCallbacks,
  drained,          \* per generation: how often its drained channel was closed
  leased,           \* per lease: its generation, 0 before Admit
  lpc,              \* per lease: where its Invoke is; "idle" means not invoking
  invoked, released, releasePending,
  releasing         \* per lease: releaseGeneration is owed

runtimeVars == <<generation, revision, current, quarantined, retiring, constructionSeq>>
callerVars  == <<operationMu, pc, op, id, waits, late>>
buildVars   == <<state, callerDone, ctxDone, releaseRetiring>>
adapterVars == <<adapter, closeRequests>>
genVars     == <<accepting, inFlight, activeCallbacks, drained>>
leaseVars   == <<leased, lpc, invoked, released, releasePending, releasing>>
vars == <<runtimeVars, callerVars, buildVars, adapterVars, genVars, leaseVars>>

Ids == 1 .. MaxConstructions

States == {"unused", "provisional", "cancelRequested", "admitted", "finished"}

\* "invalid" is a factory result without a usable transport or lifecycle handle.
AdapterStates == {"none", "building", "invalid", "open", "requested", "closed"}

BuildPcs == {"check", "factory", "build", "admit",
             "retire", "retireWait", "retireFail", "finish"}
StopPcs  == {"drain", "drainCheck", "close", "closeWait", "closeFail"}
LockPcs  == StopPcs \cup {"stop", "lateCheck", "unfence", "register"}
Pcs      == {"idle", "cancelWait", "cancelFail", "lock"} \cup BuildPcs \cup LockPcs

\* The keys of DriverRuntime.constructions.
Constructions == {c \in Ids : state[c] \in {"provisional", "cancelRequested"}}

Init ==
  /\ generation = 0 /\ revision = 1 /\ current = 0
  /\ quarantined = FALSE /\ retiring = FALSE /\ constructionSeq = 0
  /\ operationMu = NoCaller
  /\ pc = [p \in Callers |-> "idle"]
  /\ op = [p \in Callers |-> "none"]
  /\ id = [p \in Callers |-> 0]
  /\ waits = [p \in Callers |-> {}]
  /\ late = [p \in Callers |-> FALSE]
  /\ state = [c \in Ids |-> "unused"]
  /\ callerDone = [c \in Ids |-> FALSE]
  /\ ctxDone = [c \in Ids |-> FALSE]
  /\ releaseRetiring = [c \in Ids |-> FALSE]
  /\ adapter = [c \in Ids |-> "none"]
  /\ closeRequests = [c \in Ids |-> 0]
  /\ accepting = [c \in Ids |-> FALSE]
  /\ inFlight = [c \in Ids |-> 0]
  /\ activeCallbacks = [c \in Ids |-> 0]
  /\ drained = [c \in Ids |-> 0]
  /\ leased = [l \in Leases |-> 0]
  /\ lpc = [l \in Leases |-> "idle"]
  /\ invoked = [l \in Leases |-> FALSE]
  /\ released = [l \in Leases |-> FALSE]
  /\ releasePending = [l \in Leases |-> FALSE]
  /\ releasing = [l \in Leases |-> FALSE]

Goto(p, label) == pc' = [pc EXCEPT ![p] = label]

\* The call returns: its locals are gone.
Leave(p) ==
  /\ Goto(p, "idle")
  /\ op' = [op EXCEPT ![p] = "none"]
  /\ id' = [id EXCEPT ![p] = 0]
  /\ waits' = [waits EXCEPT ![p] = {}]
  /\ late' = [late EXCEPT ![p] = FALSE]

-----------------------------------------------------------------------------
(* Construction                                                            *)

\* Mutant: only admitted generations keep a second construction out.
RegisterRefusedConcurrent(allowRetiring) ==
  quarantined \/ current # 0 \/ retiring # allowRetiring

\* registerConstruction hands out no construction.
RegisterRefused(allowRetiring) ==
  \/ quarantined
  \/ retiring # allowRetiring
  \/ current # 0
  \/ Constructions # {}

\* registerConstruction reserves the one provisional entry.
Register(p, allowRetiring, release) ==
  LET c == constructionSeq + 1
  IN  /\ ~RegisterRefused(allowRetiring)
      /\ constructionSeq < MaxConstructions
      /\ constructionSeq' = c
      /\ state' = [state EXCEPT ![c] = "provisional"]
      /\ releaseRetiring' = [releaseRetiring EXCEPT ![c] = release]
      /\ id' = [id EXCEPT ![p] = c]

\* A call may still construct without passing the bound on constructionSeq:
\* every Replace that has not reserved its construction yet counts.
WithinBound ==
  constructionSeq + Cardinality({q \in Callers : op[q] = "Replace" /\ pc[q] \notin {"idle"} \cup BuildPcs})
    < MaxConstructions

Start(p) ==
  /\ pc[p] = "idle"
  /\ WithinBound
  /\ Register(p, FALSE, FALSE)
  /\ op' = [op EXCEPT ![p] = "Start"]
  /\ Goto(p, "check")
  /\ UNCHANGED <<generation, revision, current, quarantined, retiring, operationMu, waits,
                 late, callerDone, ctxDone, adapterVars, genVars, leaseVars>>

\* The caller of Start or Replace cancels its context, at any time.
CallerCancel(c) ==
  /\ c \in Constructions \cup {current}
  /\ ~callerDone[c]
  /\ callerDone' = [callerDone EXCEPT ![c] = TRUE]
  /\ UNCHANGED <<runtimeVars, callerVars, state, ctxDone, releaseRetiring,
                 adapterVars, genVars, leaseVars>>

\* Mutant: the forwarded cancellation does not look the construction up again.
RequestConstructionCancelStale(c) ==
  /\ callerDone[c] /\ ~ctxDone[c]
  /\ ctxDone' = [ctxDone EXCEPT ![c] = TRUE]
  /\ UNCHANGED <<runtimeVars, callerVars, state, callerDone, releaseRetiring,
                 adapterVars, genVars, leaseVars>>

\* The forwarding callback of context.AfterFunc, whenever it gets to run.
RequestConstructionCancel(c) ==
  /\ callerDone[c]
  /\ state[c] = "provisional"
  /\ state' = [state EXCEPT ![c] = "cancelRequested"]
  /\ ctxDone' = [ctxDone EXCEPT ![c] = TRUE]
  /\ UNCHANGED <<runtimeVars, callerVars, callerDone, releaseRetiring,
                 adapterVars, genVars, leaseVars>>

\* startLocked up to the factory call.
StartCheck(p) ==
  LET c == id[p]
      refused == quarantined \/ (retiring /\ ~releaseRetiring[c]) \/ current # 0
  IN  /\ pc[p] = "check"
      /\ Goto(p, IF refused THEN "finish" ELSE "factory")
      /\ ctxDone' = [ctxDone EXCEPT ![c] = @ \/ refused]
      /\ UNCHANGED <<runtimeVars, operationMu, op, id, waits, late, state, callerDone,
                     releaseRetiring, adapterVars, genVars, leaseVars>>

\* The factory starts to open the bus resource; mu is not held.
FactoryCall(p) ==
  /\ pc[p] = "factory"
  /\ Goto(p, "build")
  /\ adapter' = [adapter EXCEPT ![id[p]] = "building"]
  /\ UNCHANGED <<runtimeVars, operationMu, op, id, waits, late, buildVars, closeRequests,
                 genVars, leaseVars>>

\* The factory returns: nothing ("none"), a transport, or an unusable handle,
\* each with or without an error.
FactoryReturn(p) ==
  /\ pc[p] = "build"
  /\ \E failed \in BOOLEAN, made \in {"none", "open", "invalid"} :
       /\ made = "none" => failed
       /\ adapter' = [adapter EXCEPT ![id[p]] = made]
       /\ ctxDone' = [ctxDone EXCEPT ![id[p]] = @ \/ made = "none" \/ (~failed /\ made = "invalid")]
       /\ Goto(p, CASE made = "none"               -> "finish"
                    [] failed /\ made # "none"     -> "retire"
                    [] ~failed /\ made = "invalid" -> "retireFail"
                    [] OTHER                       -> "admit")
  /\ UNCHANGED <<runtimeVars, operationMu, op, id, waits, late, state, callerDone,
                 releaseRetiring, closeRequests, genVars, leaseVars>>

\* Mutant: the admission does not look at quarantine.
AdmissibleQuarantined(c) == state[c] = "provisional" /\ ~callerDone[c] /\ ~ctxDone[c]

Admissible(c) ==
  state[c] = "provisional" /\ ~callerDone[c] /\ ~ctxDone[c] /\ ~quarantined

\* admitConstruction publishes the generation, or leaves it to be retired.
AdmitConstruction(p) ==
  LET c == id[p]
  IN  /\ pc[p] = "admit"
      /\ \/ /\ Admissible(c)
            /\ state' = [state EXCEPT ![c] = "admitted"]
            /\ generation' = generation + 1
            /\ revision' = revision + 1
            /\ current' = c
            /\ accepting' = [accepting EXCEPT ![c] = TRUE]
            /\ retiring' = (retiring /\ ~releaseRetiring[c])
            /\ Goto(p, "finish")
         \/ /\ ~Admissible(c)
            /\ Goto(p, "retire")
            /\ UNCHANGED <<state, generation, revision, current, accepting, retiring>>
      /\ UNCHANGED <<quarantined, constructionSeq, operationMu, op, id, waits, late, callerDone,
                     ctxDone, releaseRetiring, adapterVars, inFlight, activeCallbacks,
                     drained, leaseVars>>

\* retireManaged up to the close request: cancel, validate the handle, send.
RequestClose(p, waitPc, failPc) ==
  LET c == id[p]
  IN  /\ ctxDone' = [ctxDone EXCEPT ![c] = TRUE]
      /\ \/ /\ adapter[c] \in {"open", "requested"}
            /\ adapter' = [adapter EXCEPT ![c] = "requested"]
            /\ closeRequests' = [closeRequests EXCEPT ![c] = @ + 1]
            /\ Goto(p, waitPc)
         \/ \* unusable or already closed handle, request not accepted in time,
            \* or a send on a closed request channel
            /\ Goto(p, failPc)
            /\ UNCHANGED adapterVars
      /\ UNCHANGED <<runtimeVars, operationMu, op, id, waits, late, state, callerDone,
                     releaseRetiring, genVars, leaseVars>>

\* retireManaged after the request: proof of closure, or the deadline.
AwaitClosed(p, okPc, failPc) ==
  /\ \/ adapter[id[p]] = "closed" /\ Goto(p, okPc)
     \/ Goto(p, failPc)
  /\ UNCHANGED <<runtimeVars, operationMu, op, id, waits, late, buildVars, adapterVars,
                 genVars, leaseVars>>

RetireUnadmitted(p) == pc[p] = "retire" /\ RequestClose(p, "retireWait", "retireFail")

RetireUnadmittedWait(p) == pc[p] = "retireWait" /\ AwaitClosed(p, "finish", "retireFail")

\* quarantine()
Quarantine ==
  /\ quarantined' = TRUE
  /\ revision' = IF quarantined THEN revision ELSE revision + 1
  /\ UNCHANGED <<generation, current, retiring, constructionSeq>>

RetireUnadmittedFail(p) ==
  /\ pc[p] = "retireFail"
  /\ Quarantine
  /\ Goto(p, "finish")
  /\ UNCHANGED <<operationMu, op, id, waits, late, buildVars, adapterVars, genVars, leaseVars>>

FinishConstruction(p) ==
  LET c == id[p]
  IN  /\ pc[p] = "finish"
      /\ IF state[c] = "admitted"
           THEN UNCHANGED <<state, retiring>>
           ELSE /\ state' = [state EXCEPT ![c] = "finished"]
                /\ retiring' = (retiring /\ ~(releaseRetiring[c] /\ ~quarantined))
      /\ Leave(p)
      /\ UNCHANGED <<generation, revision, current, quarantined, constructionSeq, operationMu,
                     callerDone, ctxDone, releaseRetiring, adapterVars, genVars, leaseVars>>

-----------------------------------------------------------------------------
(* Retirement                                                              *)

\* Stop or Replace enters cancelConstructions and collects done channels.
CancelConstructions(p) ==
  /\ pc[p] = "idle"
  /\ \E call \in {"Stop", "Replace"} :
       (call = "Replace" => WithinBound) /\ op' = [op EXCEPT ![p] = call]
  /\ state' = [c \in Ids |-> IF state[c] = "provisional" THEN "cancelRequested" ELSE state[c]]
  /\ ctxDone' = [c \in Ids |-> ctxDone[c] \/ state[c] = "provisional"]
  /\ waits' = [waits EXCEPT ![p] = Constructions]
  /\ Goto(p, IF Constructions = {} THEN "lock" ELSE "cancelWait")
  /\ UNCHANGED <<runtimeVars, operationMu, id, late, callerDone, releaseRetiring,
                 adapterVars, genVars, leaseVars>>

\* Mutant: cancelConstructions waits for its channels without a timer.
CancelWaitUnbounded(p) ==
  /\ pc[p] = "cancelWait"
  /\ \A c \in waits[p] : state[c] = "finished"
  /\ Goto(p, "lock")
  /\ UNCHANGED <<runtimeVars, operationMu, op, id, waits, late, buildVars, adapterVars,
                 genVars, leaseVars>>

\* Every collected channel is closed, or the timer fires first.
CancelWait(p) ==
  /\ pc[p] = "cancelWait"
  /\ \/ (\A c \in waits[p] : state[c] = "finished") /\ Goto(p, "lock")
     \/ Goto(p, "cancelFail")
  /\ UNCHANGED <<runtimeVars, operationMu, op, id, waits, late, buildVars, adapterVars,
                 genVars, leaseVars>>

CancelFail(p) ==
  /\ pc[p] = "cancelFail"
  /\ Quarantine
  /\ Leave(p)
  /\ UNCHANGED <<operationMu, buildVars, adapterVars, genVars, leaseVars>>

LockOperation(p) ==
  /\ pc[p] = "lock"
  /\ operationMu = NoCaller
  /\ operationMu' = p
  /\ waits' = [waits EXCEPT ![p] = {}]
  /\ Goto(p, "stop")
  /\ UNCHANGED <<runtimeVars, op, id, late, buildVars, adapterVars, genVars, leaseVars>>

\* The caller returns from its call and releases operationMu.
Return(p) == operationMu' = NoCaller /\ Leave(p)

\* stopLocked's first critical section: nothing to stop.
StopNothing(p) ==
  /\ pc[p] = "stop"
  /\ quarantined \/ current = 0
  /\ retiring' = IF quarantined THEN retiring ELSE op[p] = "Replace"
  /\ IF op[p] = "Replace" /\ ~quarantined
       THEN Goto(p, "register") /\ UNCHANGED <<operationMu, op, id, waits, late>>
       ELSE Return(p)
  /\ UNCHANGED <<generation, revision, current, quarantined, constructionSeq,
                 buildVars, adapterVars, genVars, leaseVars>>

\* stopLocked's first critical section: withdraw the generation.
Withdraw(p) ==
  LET g == current
  IN  /\ pc[p] = "stop"
      /\ ~quarantined /\ g # 0
      /\ retiring' = TRUE
      /\ current' = 0
      /\ revision' = revision + 1
      /\ accepting' = [accepting EXCEPT ![g] = FALSE]
      /\ drained' = [drained EXCEPT ![g] = IF inFlight[g] = 0 THEN @ + 1 ELSE @]
      /\ ctxDone' = [ctxDone EXCEPT ![g] = TRUE]
      /\ id' = [id EXCEPT ![p] = g]
      /\ Goto(p, "drain")
      /\ UNCHANGED <<generation, quarantined, constructionSeq, operationMu, op, waits, late,
                     state, callerDone, releaseRetiring, adapterVars, inFlight,
                     activeCallbacks, leaseVars>>

\* waitForGeneration
Drain(p) ==
  /\ pc[p] = "drain"
  /\ \/ drained[id[p]] > 0 /\ Goto(p, "close") /\ UNCHANGED late
     \/ Goto(p, "drainCheck") /\ late' = [late EXCEPT ![p] = TRUE]
  /\ UNCHANGED <<runtimeVars, operationMu, op, id, waits, buildVars, adapterVars,
                 genVars, leaseVars>>

\* Mutant: a drain timeout closes the generation whatever still runs on it.
DrainCheckForced(p) ==
  /\ pc[p] = "drainCheck"
  /\ Goto(p, "close")
  /\ UNCHANGED <<runtimeVars, operationMu, op, id, waits, late, buildVars, adapterVars,
                 genVars, leaseVars>>

\* After a drain timeout a running callback forbids the close request.
DrainCheck(p) ==
  /\ pc[p] = "drainCheck"
  /\ Goto(p, IF activeCallbacks[id[p]] > 0 THEN "closeFail" ELSE "close")
  /\ UNCHANGED <<runtimeVars, operationMu, op, id, waits, late, buildVars, adapterVars,
                 genVars, leaseVars>>

CloseGeneration(p) == pc[p] = "close" /\ RequestClose(p, "closeWait", "closeFail")

CloseGenerationWait(p) ==
  /\ pc[p] = "closeWait"
  /\ AwaitClosed(p, CASE op[p] = "Stop" -> "unfence"
                      [] late[p]        -> "lateCheck"
                      [] OTHER          -> "register",
                 "closeFail")

CloseGenerationFail(p) ==
  /\ pc[p] = "closeFail"
  /\ Quarantine
  /\ Return(p)
  /\ UNCHANGED <<buildVars, adapterVars, genVars, leaseVars>>

\* Replace met ErrDriverStopTimeout: it asks SafetyQuarantined first.
ReplaceLate(p) ==
  /\ pc[p] = "lateCheck"
  /\ IF quarantined
       THEN Return(p)
       ELSE Goto(p, "unfence") /\ UNCHANGED <<operationMu, op, id, waits, late>>
  /\ UNCHANGED <<runtimeVars, buildVars, adapterVars, genVars, leaseVars>>

Unfence(p) ==
  /\ pc[p] = "unfence"
  /\ retiring' = FALSE
  /\ Return(p)
  /\ UNCHANGED <<generation, revision, current, quarantined, constructionSeq,
                 buildVars, adapterVars, genVars, leaseVars>>

\* Replace reserves its construction under operationMu, then releases it.
ReplaceRegister(p) ==
  /\ pc[p] = "register"
  /\ \/ /\ Register(p, TRUE, TRUE)
        /\ operationMu' = NoCaller
        /\ Goto(p, "check")
        /\ UNCHANGED <<op, waits, late>>
     \/ /\ RegisterRefused(TRUE)
        /\ Return(p)
        /\ UNCHANGED <<constructionSeq, state, releaseRetiring>>
  /\ UNCHANGED <<generation, revision, current, quarantined, retiring, callerDone, ctxDone, adapterVars, genVars, leaseVars>>

-----------------------------------------------------------------------------
(* The adapter worker: it closes Closed after a request, or dies on its own. *)

AdapterCloses(c) ==
  /\ adapter[c] \in {"open", "requested"}
  /\ adapter' = [adapter EXCEPT ![c] = "closed"]
  /\ UNCHANGED <<runtimeVars, callerVars, buildVars, closeRequests, genVars, leaseVars>>

-----------------------------------------------------------------------------
(* Leases                                                                  *)

Admit(l) ==
  /\ leased[l] = 0
  /\ ~quarantined /\ current # 0 /\ accepting[current]
  /\ leased' = [leased EXCEPT ![l] = current]
  /\ inFlight' = [inFlight EXCEPT ![current] = @ + 1]
  /\ UNCHANGED <<runtimeVars, callerVars, buildVars, adapterVars, accepting, activeCallbacks,
                 drained, lpc, invoked, released, releasePending, releasing>>

Invoke(l) ==
  /\ leased[l] # 0
  /\ ~invoked[l] /\ ~released[l]
  /\ invoked' = [invoked EXCEPT ![l] = TRUE]
  /\ lpc' = [lpc EXCEPT ![l] = "claim"]
  /\ UNCHANGED <<runtimeVars, callerVars, buildVars, adapterVars, genVars,
                 leased, released, releasePending, releasing>>

\* Mutant: a claim does not look at quarantine.
EffectiveQuarantined(l) == current = leased[l] /\ accepting[leased[l]]

\* The lease still belongs to the effective generation.
Effective(l) == ~quarantined /\ current = leased[l] /\ accepting[leased[l]]

\* Mutant: a claimed callback is not counted.
InvokeClaimUncounted(l) ==
  /\ lpc[l] = "claim"
  /\ lpc' = [lpc EXCEPT ![l] = IF Effective(l) THEN "callback" ELSE "settle"]
  /\ UNCHANGED <<runtimeVars, callerVars, buildVars, adapterVars, genVars,
                 leased, invoked, released, releasePending, releasing>>

InvokeClaim(l) ==
  /\ lpc[l] = "claim"
  /\ lpc' = [lpc EXCEPT ![l] = IF Effective(l) THEN "callback" ELSE "settle"]
  /\ activeCallbacks' = [activeCallbacks EXCEPT ![leased[l]] = IF Effective(l) THEN @ + 1 ELSE @]
  /\ UNCHANGED <<runtimeVars, callerVars, buildVars, adapterVars, accepting, inFlight, drained,
                 leased, invoked, released, releasePending, releasing>>

\* The callback returns or panics; finishInvocation runs either way.
CallbackReturns(l) ==
  /\ lpc[l] = "callback"
  /\ lpc' = [lpc EXCEPT ![l] = "settle"]
  /\ activeCallbacks' = [activeCallbacks EXCEPT ![leased[l]] = @ - 1]
  /\ UNCHANGED <<runtimeVars, callerVars, buildVars, adapterVars, accepting, inFlight, drained,
                 leased, invoked, released, releasePending, releasing>>

FinishInvocation(l) ==
  LET releaseNow == releasePending[l] /\ ~released[l]
  IN  /\ lpc[l] = "settle"
      /\ lpc' = [lpc EXCEPT ![l] = "idle"]
      /\ released' = [released EXCEPT ![l] = @ \/ releaseNow]
      /\ releasing' = [releasing EXCEPT ![l] = @ \/ releaseNow]
      /\ UNCHANGED <<runtimeVars, callerVars, buildVars, adapterVars, genVars,
                     leased, invoked, releasePending>>

Release(l) ==
  LET invoking == lpc[l] # "idle"
  IN  /\ leased[l] # 0
      /\ ~released[l]
      /\ releasePending' = [releasePending EXCEPT ![l] = @ \/ invoking]
      /\ released' = [released EXCEPT ![l] = ~invoking]
      /\ releasing' = [releasing EXCEPT ![l] = ~invoking]
      /\ UNCHANGED <<runtimeVars, callerVars, buildVars, adapterVars, genVars,
                     leased, lpc, invoked>>

\* Mutant: the last release does not signal a drain that is waiting for it.
ReleaseGenerationSilent(l) ==
  /\ releasing[l]
  /\ releasing' = [releasing EXCEPT ![l] = FALSE]
  /\ inFlight' = [inFlight EXCEPT ![leased[l]] = IF @ > 0 THEN @ - 1 ELSE @]
  /\ UNCHANGED <<runtimeVars, callerVars, buildVars, adapterVars, accepting, drained,
                 activeCallbacks, leased, lpc, invoked, released, releasePending>>

ReleaseGeneration(l) ==
  LET g == leased[l]
      last == inFlight[g] = 1
  IN  /\ releasing[l]
      /\ releasing' = [releasing EXCEPT ![l] = FALSE]
      /\ inFlight' = [inFlight EXCEPT ![g] = IF @ > 0 THEN @ - 1 ELSE @]
      /\ drained' = [drained EXCEPT ![g] = IF last /\ ~accepting[g] THEN @ + 1 ELSE @]
      /\ UNCHANGED <<runtimeVars, callerVars, buildVars, adapterVars, accepting,
                     activeCallbacks, leased, lpc, invoked, released, releasePending>>

-----------------------------------------------------------------------------
Build(p) ==
  \/ StartCheck(p) \/ FactoryCall(p) \/ FactoryReturn(p) \/ AdmitConstruction(p)
  \/ RetireUnadmitted(p) \/ RetireUnadmittedWait(p) \/ RetireUnadmittedFail(p)
  \/ FinishConstruction(p)

\* The steps of Stop and Replace that hold operationMu.
Retire(p) ==
  \/ StopNothing(p) \/ Withdraw(p) \/ Drain(p) \/ DrainCheck(p)
  \/ CloseGeneration(p) \/ CloseGenerationWait(p) \/ CloseGenerationFail(p)
  \/ ReplaceLate(p) \/ Unfence(p) \/ ReplaceRegister(p)

Lease(l) ==
  \/ Admit(l) \/ Invoke(l) \/ InvokeClaim(l) \/ CallbackReturns(l)
  \/ FinishInvocation(l) \/ Release(l) \/ ReleaseGeneration(l)

Next ==
  \/ \E p \in Callers :
       \/ Start(p) \/ Build(p)
       \/ CancelConstructions(p) \/ CancelWait(p) \/ CancelFail(p)
       \/ LockOperation(p) \/ Retire(p)
  \/ \E c \in Ids : CallerCancel(c) \/ RequestConstructionCancel(c) \/ AdapterCloses(c)
  \/ \E l \in Leases : Lease(l)

Spec == Init /\ [][Next]_vars

\* Every wait of Stop is bounded by a timer and operationMu is handed to its
\* waiters (sync.Mutex does not starve them).  The factory, the callbacks, the
\* adapter and the callers owe nothing.
Fairness ==
  \A p \in Callers :
    /\ WF_vars(CancelWait(p)) /\ WF_vars(CancelFail(p))
    /\ SF_vars(LockOperation(p))
    /\ WF_vars(Retire(p))

FairSpec == Spec /\ Fairness

-----------------------------------------------------------------------------
(* Properties                                                              *)

RuntimeType ==
  /\ generation \in Nat /\ revision \in Nat
  /\ current \in {0} \cup Ids
  /\ quarantined \in BOOLEAN /\ retiring \in BOOLEAN
  /\ constructionSeq \in 0 .. MaxConstructions

CallerType ==
  /\ operationMu \in Callers \cup {NoCaller}
  /\ pc \in [Callers -> Pcs]
  /\ op \in [Callers -> {"none", "Start", "Stop", "Replace"}]
  /\ id \in [Callers -> {0} \cup Ids]
  /\ waits \in [Callers -> SUBSET Ids]
  /\ late \in [Callers -> BOOLEAN]

BuildType ==
  /\ state \in [Ids -> States]
  /\ callerDone \in [Ids -> BOOLEAN] /\ ctxDone \in [Ids -> BOOLEAN]
  /\ releaseRetiring \in [Ids -> BOOLEAN]
  /\ adapter \in [Ids -> AdapterStates]
  /\ closeRequests \in [Ids -> Nat]

GenerationType ==
  /\ accepting \in [Ids -> BOOLEAN]
  /\ inFlight \in [Ids -> Nat] /\ activeCallbacks \in [Ids -> Nat] /\ drained \in [Ids -> Nat]

LeaseType ==
  /\ leased \in [Leases -> {0} \cup Ids]
  /\ lpc \in [Leases -> {"idle", "claim", "callback", "settle"}]
  /\ invoked \in [Leases -> BOOLEAN] /\ released \in [Leases -> BOOLEAN]
  /\ releasePending \in [Leases -> BOOLEAN] /\ releasing \in [Leases -> BOOLEAN]

\* Every field of DriverRuntime, driverConstruction, driverRuntimeGeneration and
\* driverLease keeps its type; in particular activeCallbacks and inFlight never
\* go below zero, whatever the order of claims, returns and releases.
TypeOK == RuntimeType /\ CallerType /\ BuildType /\ GenerationType /\ LeaseType

\* The transport may hold the bus resource: its closure has not been proved.
Owning(c) == adapter[c] \in {"building", "invalid", "open", "requested"}

\* No interleaving of Start, Stop and Replace lets a second transport be opened
\* while an earlier one may still hold the bus (ErrDriverSafetyQuarantined:
\* "it cannot create a second owner for the same bus resource").
SingleOwner == \A c, d \in Ids : Owning(c) /\ Owning(d) => c = d

\* While a callback runs on a generation, that generation has not been asked to
\* close, no other generation is effective and no other transport is open, even
\* when Stop or Replace has given up draining it.
CallbackOwnsBus ==
  \A g \in Ids : activeCallbacks[g] > 0 =>
    /\ closeRequests[g] = 0
    /\ current \in {0, g}
    /\ \A h \in Ids \ {g} : ~Owning(h)

\* inFlight counts the leases that still owe releaseGeneration, and the drained
\* channel is closed once, exactly when a withdrawn generation has none left,
\* whatever the order of Release, the end of a callback and Stop.
DrainAccounting ==
  \A g \in Ids :
    /\ inFlight[g] = Cardinality({l \in Leases : leased[l] = g /\ (~released[l] \/ releasing[l])})
    /\ drained[g] = IF state[g] = "admitted" /\ ~accepting[g] /\ inFlight[g] = 0 THEN 1 ELSE 0

\* No cancellation requested before admission (by the caller's context or by a
\* Stop that saw the construction) reaches the context of the effective generation.
EffectiveContextLive == current # 0 => ~ctxDone[current]

\* A generation in use is fit for use: its transport is open under every callback
\* and its context is live while it is the effective one.
GenerationInUse ==
  /\ CallbackOwnsBus
  /\ EffectiveContextLive

\* After quarantine nothing is admitted, no generation is counted and no lease
\* starts a callback, whatever construction or lease was already under way.
QuarantineIsFinal ==
  [][quarantined =>
       /\ quarantined'
       /\ generation' = generation
       /\ \A g \in Ids : activeCallbacks'[g] <= activeCallbacks[g]]_vars

\* Every Stop returns, even when the factory, the adapter or a callback hangs.
StopReturns ==
  \A p \in Callers : pc[p] # "idle" /\ op[p] = "Stop" ~> pc[p] = "idle"

\* Start is "idempotent for the active generation": when no lifecycle call is
\* under way and a generation is active, registerConstruction returns it, which
\* it does only when no retirement fence was left behind.
StartIsIdempotent ==
  (\A p \in Callers : pc[p] = "idle") /\ current # 0 /\ ~quarantined => ~retiring

\* The runtime implements the ownership contract: the transports that may hold
\* the bus, the effective generation and quarantine move only as it allows.
Ownership == INSTANCE DriverOwnership
               WITH Transports <- Ids,
                    holding <- {c \in Ids : Owning(c)},
                    effective <- current,
                    sealed <- quarantined

ImplementsOwnership == Ownership!Spec
=============================================================================
