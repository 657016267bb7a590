------------------------ MODULE DriverRuntimeProofs ------------------------
(***************************************************************************)
(* Machine-checked proofs about DriverRuntime, for any number of callers,  *)
(* leases and constructions.                                               *)
(***************************************************************************)
EXTENDS DriverRuntime, FiniteSetTheorems, TLAPS

-----------------------------------------------------------------------------
(* The inductive invariant behind SingleOwner.                             *)

Provisional(c) == state[c] \in {"provisional", "cancelRequested"}

\* operationMu is held exactly by the caller that is inside stopLocked or Replace.
LockInv == \A p \in Callers : pc[p] \in LockPcs <=> operationMu = p

\* Identifiers above constructionSeq are untouched.
FreshInv ==
  \A c \in Ids : c > constructionSeq => state[c] = "unused" /\ adapter[c] = "none"

\* A caller inside startLocked works on a construction of its own, which stays
\* in the map until finishConstruction unless it was admitted; it owns no
\* resource before the factory call, nor when it finishes without quarantine.
BuildStep(p) ==
  /\ id[p] \in Ids
  /\ Provisional(id[p]) \/ (pc[p] = "finish" /\ state[id[p]] = "admitted")
  /\ pc[p] \in {"check", "factory"} => adapter[id[p]] = "none"
  /\ pc[p] = "finish" /\ Provisional(id[p]) => quarantined \/ ~Owning(id[p])

BuildInv == \A p \in Callers : pc[p] \in BuildPcs => BuildStep(p)

\* No two callers work on the same construction.
DistinctInv ==
  \A p, q \in Callers :
    pc[p] \in BuildPcs /\ pc[q] \in BuildPcs /\ id[p] = id[q] => p = q

\* A caller inside stopLocked stops an admitted generation behind the fence.
StopInv ==
  \A p \in Callers : pc[p] \in StopPcs =>
    /\ id[p] \in Ids /\ state[id[p]] = "admitted"
    /\ current = 0 /\ retiring

\* The map holds one construction, and then no generation is effective or
\* being stopped.
ConstructionInv ==
  \A c \in Ids : Provisional(c) =>
    /\ \A d \in Ids : Provisional(d) => d = c
    /\ current = 0
    /\ \A p \in Callers : pc[p] \notin StopPcs

CurrentInv == current # 0 => state[current] = "admitted"

\* The holder of operationMu is draining or closing the generation.
Stopping(c) == operationMu \in Callers /\ pc[operationMu] \in StopPcs /\ id[operationMu] = c

\* Who may hold the bus; a construction in the map excludes every other owner.
OwnerInv ==
  \A c \in Ids : Owning(c) =>
    /\ Provisional(c) \/ c = current \/ quarantined \/ Stopping(c)
    /\ \A d \in Ids : Provisional(d) => d = c

\* A lease is invoked after Admit handed it out, and is idle until then.
LeaseInv ==
  \A l \in Leases :
    (leased[l] = 0 => ~invoked[l]) /\ (~invoked[l] => lpc[l] = "idle")

\* activeCallbacks counts the leases whose callback is running.
CallbackCount ==
  \A g \in Ids :
    activeCallbacks[g] = Cardinality({l \in Leases : lpc[l] = "callback" /\ leased[l] = g})

OwnershipInv ==
  /\ LockInv /\ FreshInv /\ BuildInv /\ DistinctInv /\ StopInv
  /\ ConstructionInv /\ CurrentInv /\ OwnerInv /\ SingleOwner
-----------------------------------------------------------------------------
(* Types.                                                                  *)

\* Updating a function at one point, inside its domain or not, keeps its type.
LEMMA UpdateType ==
  ASSUME NEW S, NEW T, NEW f \in [S -> T], NEW x, NEW e, x \in S => e \in T
  PROVE  [f EXCEPT ![x] = e] \in [S -> T]
  OBVIOUS

\* A counter that is incremented stays a counter.
LEMMA CountUp ==
  ASSUME NEW S, NEW f \in [S -> Nat], NEW x
  PROVE  [f EXCEPT ![x] = @ + 1] \in [S -> Nat]
<1>1. x \in S => f[x] + 1 \in Nat
  OBVIOUS
<1> QED
  BY <1>1, UpdateType

\* The same for an increment on a condition.
LEMMA CountIf ==
  ASSUME NEW S, NEW f \in [S -> Nat], NEW x, NEW b
  PROVE  [f EXCEPT ![x] = IF b THEN @ + 1 ELSE @] \in [S -> Nat]
<1>1. x \in S => (IF b THEN f[x] + 1 ELSE f[x]) \in Nat
  OBVIOUS
<1> QED
  BY <1>1, UpdateType

\* Every step keeps the types, given that activeCallbacks counts running callbacks.
LEMMA TypeStep ==
  ASSUME TypeOK, CallbackCount, [Next]_vars
  PROVE  TypeOK'
<1> USE DEF TypeOK
<1> USE MaxConstructionsAssumption
<1>1. ASSUME NEW p \in Callers, Start(p) PROVE TypeOK'
  <2>1. RuntimeType'
    BY <1>1 DEF Start, Register, Goto, RuntimeType, Ids, runtimeVars
  <2>2. CallerType'
    BY <1>1 DEF Start, Register, Goto, CallerType, RuntimeType, Ids, Pcs, BuildPcs,
        StopPcs, LockPcs, callerVars
  <2>3. BuildType'
    BY <1>1 DEF Start, Register, Goto, BuildType, RuntimeType, Ids, States,
        AdapterStates, buildVars, adapterVars
  <2>4. (GenerationType /\ LeaseType)'
    BY <1>1 DEF Start, Register, Goto, GenerationType, LeaseType, genVars, leaseVars
  <2> QED
    BY <2>1, <2>2, <2>3, <2>4
<1>2. ASSUME NEW p \in Callers, StartCheck(p) PROVE TypeOK'
  <2>1. CallerType'
    BY <1>2 DEF StartCheck, Goto, CallerType, Ids, Pcs, BuildPcs, StopPcs, LockPcs, callerVars
  <2>2. BuildType'
    BY <1>2 DEF StartCheck, Goto, BuildType, Ids, States, AdapterStates, buildVars, adapterVars
  <2>3. (RuntimeType /\ GenerationType /\ LeaseType)'
    BY <1>2 DEF StartCheck, Goto, RuntimeType, GenerationType, LeaseType, runtimeVars,
        genVars, leaseVars
  <2> QED
    BY <2>1, <2>2, <2>3
<1>3. ASSUME NEW p \in Callers, FactoryCall(p) PROVE TypeOK'
  <2>1. CallerType'
    BY <1>3 DEF FactoryCall, Goto, CallerType, Ids, Pcs, BuildPcs, StopPcs, LockPcs, callerVars
  <2>2. BuildType'
    BY <1>3 DEF FactoryCall, Goto, BuildType, Ids, States, AdapterStates, buildVars,
        adapterVars
  <2>3. (RuntimeType /\ GenerationType /\ LeaseType)'
    BY <1>3 DEF FactoryCall, Goto, RuntimeType, GenerationType, LeaseType,
        runtimeVars, genVars, leaseVars
  <2> QED
    BY <2>1, <2>2, <2>3
<1>4. ASSUME NEW p \in Callers, FactoryReturn(p) PROVE TypeOK'
  <2>1. CallerType'
    BY <1>4 DEF FactoryReturn, Goto, CallerType, Ids, Pcs, BuildPcs, StopPcs, LockPcs,
        callerVars
  <2>2. BuildType'
    BY <1>4 DEF FactoryReturn, Goto, BuildType, Ids, States, AdapterStates, buildVars,
        adapterVars
  <2>3. (RuntimeType /\ GenerationType /\ LeaseType)'
    BY <1>4 DEF FactoryReturn, Goto, RuntimeType, GenerationType, LeaseType,
        runtimeVars, genVars, leaseVars
  <2> QED
    BY <2>1, <2>2, <2>3
<1>5. ASSUME NEW p \in Callers, AdmitConstruction(p) PROVE TypeOK'
  <2>1. RuntimeType'
    <3>1. CASE Admissible(id[p])
      BY <1>5, <3>1 DEF AdmitConstruction, RuntimeType, CallerType
    <3>2. CASE ~Admissible(id[p])
      BY <1>5, <3>2 DEF AdmitConstruction, RuntimeType
    <3> QED
      BY <3>1, <3>2
  <2>2. CallerType'
    BY <1>5 DEF AdmitConstruction, Goto, CallerType, Ids, Pcs, BuildPcs, StopPcs,
        LockPcs, callerVars
  <2>3. BuildType'
    BY <1>5 DEF AdmitConstruction, Goto, BuildType, Ids, States, AdapterStates,
        buildVars, adapterVars
  <2>4. GenerationType'
    BY <1>5 DEF AdmitConstruction, Goto, GenerationType, Ids, genVars
  <2>5. (LeaseType)'
    BY <1>5 DEF AdmitConstruction, Goto, LeaseType, leaseVars
  <2> QED
    BY <2>1, <2>2, <2>3, <2>4, <2>5
<1>6. ASSUME NEW p \in Callers, RetireUnadmitted(p) PROVE TypeOK'
  <2>1. CallerType'
    BY <1>6 DEF RetireUnadmitted, RequestClose, Goto, CallerType, Ids, Pcs, BuildPcs,
        StopPcs, LockPcs, callerVars
  <2>2. BuildType'
    <3>1. closeRequests' \in [Ids -> Nat]
      BY <1>6, CountUp DEF RetireUnadmitted, RequestClose, BuildType, adapterVars
    <3>2. adapter' \in [Ids -> AdapterStates]
      BY <1>6 DEF RetireUnadmitted, RequestClose, BuildType, AdapterStates, adapterVars
    <3> QED
      BY <1>6, <3>1, <3>2 DEF RetireUnadmitted, RequestClose, BuildType
  <2>3. (RuntimeType /\ GenerationType /\ LeaseType)'
    BY <1>6 DEF RetireUnadmitted, RequestClose, Goto, RuntimeType, GenerationType,
        LeaseType, runtimeVars, genVars, leaseVars
  <2> QED
    BY <2>1, <2>2, <2>3
<1>7. ASSUME NEW p \in Callers, RetireUnadmittedWait(p) PROVE TypeOK'
  <2>1. CallerType'
    BY <1>7 DEF RetireUnadmittedWait, AwaitClosed, Goto, CallerType, Ids, Pcs,
        BuildPcs, StopPcs, LockPcs, callerVars
  <2>2. (RuntimeType /\ BuildType /\ GenerationType /\ LeaseType)'
    BY <1>7 DEF RetireUnadmittedWait, AwaitClosed, Goto, RuntimeType, BuildType,
        GenerationType, LeaseType, runtimeVars, buildVars, adapterVars, genVars,
        leaseVars
  <2> QED
    BY <2>1, <2>2
<1>8. ASSUME NEW p \in Callers, RetireUnadmittedFail(p) PROVE TypeOK'
  <2>1. RuntimeType'
    BY <1>8 DEF RetireUnadmittedFail, Quarantine, Goto, RuntimeType, Ids, runtimeVars
  <2>2. CallerType'
    BY <1>8 DEF RetireUnadmittedFail, Quarantine, Goto, CallerType, Ids, Pcs,
        BuildPcs, StopPcs, LockPcs, callerVars
  <2>3. (BuildType /\ GenerationType /\ LeaseType)'
    BY <1>8 DEF RetireUnadmittedFail, Quarantine, Goto, BuildType, GenerationType,
        LeaseType, buildVars, adapterVars, genVars, leaseVars
  <2> QED
    BY <2>1, <2>2, <2>3
<1>9. ASSUME NEW p \in Callers, FinishConstruction(p) PROVE TypeOK'
  <2>1. RuntimeType'
    BY <1>9 DEF FinishConstruction, Leave, Goto, RuntimeType, BuildType, CallerType,
        Ids, runtimeVars
  <2>2. CallerType'
    BY <1>9 DEF FinishConstruction, Leave, Goto, CallerType, Ids, Pcs, BuildPcs,
        StopPcs, LockPcs, callerVars
  <2>3. BuildType'
    BY <1>9 DEF FinishConstruction, Leave, Goto, BuildType, Ids, States,
        AdapterStates, buildVars, adapterVars
  <2>4. (GenerationType /\ LeaseType)'
    BY <1>9 DEF FinishConstruction, Leave, Goto, GenerationType, LeaseType, genVars, leaseVars
  <2> QED
    BY <2>1, <2>2, <2>3, <2>4
<1>10. ASSUME NEW p \in Callers, CancelConstructions(p) PROVE TypeOK'
  <2>1. CallerType'
    BY <1>10 DEF CancelConstructions, Constructions, Goto, CallerType, Ids, Pcs,
        BuildPcs, StopPcs, LockPcs, callerVars
  <2>2. BuildType'
    BY <1>10 DEF CancelConstructions, Constructions, Goto, BuildType, Ids, States,
        AdapterStates, buildVars, adapterVars
  <2>3. (RuntimeType /\ GenerationType /\ LeaseType)'
    BY <1>10 DEF CancelConstructions, Constructions, Goto, RuntimeType,
        GenerationType, LeaseType, runtimeVars, genVars, leaseVars
  <2> QED
    BY <2>1, <2>2, <2>3
<1>11. ASSUME NEW p \in Callers, CancelWait(p) PROVE TypeOK'
  <2>1. CallerType'
    BY <1>11 DEF CancelWait, Goto, CallerType, Ids, Pcs, BuildPcs, StopPcs, LockPcs, callerVars
  <2>2. (RuntimeType /\ BuildType /\ GenerationType /\ LeaseType)'
    BY <1>11 DEF CancelWait, Goto, RuntimeType, BuildType, GenerationType, LeaseType,
        runtimeVars, buildVars, adapterVars, genVars, leaseVars
  <2> QED
    BY <2>1, <2>2
<1>12. ASSUME NEW p \in Callers, CancelFail(p) PROVE TypeOK'
  <2>1. RuntimeType'
    BY <1>12 DEF CancelFail, Quarantine, Leave, Goto, RuntimeType, Ids, runtimeVars
  <2>2. CallerType'
    BY <1>12 DEF CancelFail, Quarantine, Leave, Goto, CallerType, Ids, Pcs, BuildPcs,
        StopPcs, LockPcs, callerVars
  <2>3. (BuildType /\ GenerationType /\ LeaseType)'
    BY <1>12 DEF CancelFail, Quarantine, Leave, Goto, BuildType, GenerationType,
        LeaseType, buildVars, adapterVars, genVars, leaseVars
  <2> QED
    BY <2>1, <2>2, <2>3
<1>13. ASSUME NEW p \in Callers, LockOperation(p) PROVE TypeOK'
  <2>1. CallerType'
    BY <1>13 DEF LockOperation, Goto, CallerType, Ids, Pcs, BuildPcs, StopPcs,
        LockPcs, callerVars
  <2>2. (RuntimeType /\ BuildType /\ GenerationType /\ LeaseType)'
    BY <1>13 DEF LockOperation, Goto, RuntimeType, BuildType, GenerationType,
        LeaseType, runtimeVars, buildVars, adapterVars, genVars, leaseVars
  <2> QED
    BY <2>1, <2>2
<1>14. ASSUME NEW p \in Callers, StopNothing(p) PROVE TypeOK'
  <2>1. RuntimeType'
    BY <1>14 DEF StopNothing, Return, Leave, Goto, RuntimeType, Ids, runtimeVars
  <2>2. CallerType'
    BY <1>14 DEF StopNothing, Return, Leave, Goto, CallerType, Ids, Pcs, BuildPcs,
        StopPcs, LockPcs, callerVars
  <2>3. (BuildType /\ GenerationType /\ LeaseType)'
    BY <1>14 DEF StopNothing, Return, Leave, Goto, BuildType, GenerationType,
        LeaseType, buildVars, adapterVars, genVars, leaseVars
  <2> QED
    BY <2>1, <2>2, <2>3
<1>15. ASSUME NEW p \in Callers, Withdraw(p) PROVE TypeOK'
  <2>1. RuntimeType'
    BY <1>15 DEF Withdraw, Goto, RuntimeType, Ids, runtimeVars
  <2>2. CallerType'
    BY <1>15 DEF Withdraw, Goto, CallerType, RuntimeType, Ids, Pcs, BuildPcs, StopPcs,
        LockPcs, callerVars
  <2>3. BuildType'
    BY <1>15 DEF Withdraw, Goto, BuildType, Ids, States, AdapterStates, buildVars, adapterVars
  <2>4. GenerationType'
    <3>1. drained' \in [Ids -> Nat]
      BY <1>15, CountIf DEF Withdraw, GenerationType
    <3> QED
      BY <1>15, <3>1 DEF Withdraw, GenerationType
  <2>5. (LeaseType)'
    BY <1>15 DEF Withdraw, Goto, LeaseType, leaseVars
  <2> QED
    BY <2>1, <2>2, <2>3, <2>4, <2>5
<1>16. ASSUME NEW p \in Callers, Drain(p) PROVE TypeOK'
  <2>1. CallerType'
    BY <1>16 DEF Drain, Goto, CallerType, Ids, Pcs, BuildPcs, StopPcs, LockPcs, callerVars
  <2>2. (RuntimeType /\ BuildType /\ GenerationType /\ LeaseType)'
    BY <1>16 DEF Drain, Goto, RuntimeType, BuildType, GenerationType, LeaseType,
        runtimeVars, buildVars, adapterVars, genVars, leaseVars
  <2> QED
    BY <2>1, <2>2
<1>17. ASSUME NEW p \in Callers, DrainCheck(p) PROVE TypeOK'
  <2>1. CallerType'
    BY <1>17 DEF DrainCheck, Goto, CallerType, Ids, Pcs, BuildPcs, StopPcs, LockPcs, callerVars
  <2>2. (RuntimeType /\ BuildType /\ GenerationType /\ LeaseType)'
    BY <1>17 DEF DrainCheck, Goto, RuntimeType, BuildType, GenerationType, LeaseType,
        runtimeVars, buildVars, adapterVars, genVars, leaseVars
  <2> QED
    BY <2>1, <2>2
<1>18. ASSUME NEW p \in Callers, CloseGeneration(p) PROVE TypeOK'
  <2>1. CallerType'
    BY <1>18 DEF CloseGeneration, RequestClose, Goto, CallerType, Ids, Pcs, BuildPcs,
        StopPcs, LockPcs, callerVars
  <2>2. BuildType'
    <3>1. closeRequests' \in [Ids -> Nat]
      BY <1>18, CountUp DEF CloseGeneration, RequestClose, BuildType, adapterVars
    <3>2. adapter' \in [Ids -> AdapterStates]
      BY <1>18 DEF CloseGeneration, RequestClose, BuildType, AdapterStates, adapterVars
    <3> QED
      BY <1>18, <3>1, <3>2 DEF CloseGeneration, RequestClose, BuildType
  <2>3. (RuntimeType /\ GenerationType /\ LeaseType)'
    BY <1>18 DEF CloseGeneration, RequestClose, Goto, RuntimeType, GenerationType,
        LeaseType, runtimeVars, genVars, leaseVars
  <2> QED
    BY <2>1, <2>2, <2>3
<1>19. ASSUME NEW p \in Callers, CloseGenerationWait(p) PROVE TypeOK'
  <2>1. CallerType'
    BY <1>19 DEF CloseGenerationWait, AwaitClosed, Goto, CallerType, Ids, Pcs,
        BuildPcs, StopPcs, LockPcs, callerVars
  <2>2. (RuntimeType /\ BuildType /\ GenerationType /\ LeaseType)'
    BY <1>19 DEF CloseGenerationWait, AwaitClosed, Goto, RuntimeType, BuildType,
        GenerationType, LeaseType, runtimeVars, buildVars, adapterVars, genVars,
        leaseVars
  <2> QED
    BY <2>1, <2>2
<1>20. ASSUME NEW p \in Callers, CloseGenerationFail(p) PROVE TypeOK'
  <2>1. RuntimeType'
    BY <1>20 DEF CloseGenerationFail, Quarantine, Return, Leave, Goto, RuntimeType,
        Ids, runtimeVars
  <2>2. CallerType'
    BY <1>20 DEF CloseGenerationFail, Quarantine, Return, Leave, Goto, CallerType,
        Ids, Pcs, BuildPcs, StopPcs, LockPcs, callerVars
  <2>3. (BuildType /\ GenerationType /\ LeaseType)'
    BY <1>20 DEF CloseGenerationFail, Quarantine, Return, Leave, Goto, BuildType,
        GenerationType, LeaseType, buildVars, adapterVars, genVars, leaseVars
  <2> QED
    BY <2>1, <2>2, <2>3
<1>21. ASSUME NEW p \in Callers, ReplaceLate(p) PROVE TypeOK'
  <2>1. CallerType'
    BY <1>21 DEF ReplaceLate, Return, Leave, Goto, CallerType, Ids, Pcs, BuildPcs,
        StopPcs, LockPcs, callerVars
  <2>2. (RuntimeType /\ BuildType /\ GenerationType /\ LeaseType)'
    BY <1>21 DEF ReplaceLate, Return, Leave, Goto, RuntimeType, BuildType,
        GenerationType, LeaseType, runtimeVars, buildVars, adapterVars, genVars,
        leaseVars
  <2> QED
    BY <2>1, <2>2
<1>22. ASSUME NEW p \in Callers, Unfence(p) PROVE TypeOK'
  <2>1. RuntimeType'
    BY <1>22 DEF Unfence, Return, Leave, Goto, RuntimeType, Ids, runtimeVars
  <2>2. CallerType'
    BY <1>22 DEF Unfence, Return, Leave, Goto, CallerType, Ids, Pcs, BuildPcs,
        StopPcs, LockPcs, callerVars
  <2>3. (BuildType /\ GenerationType /\ LeaseType)'
    BY <1>22 DEF Unfence, Return, Leave, Goto, BuildType, GenerationType, LeaseType,
        buildVars, adapterVars, genVars, leaseVars
  <2> QED
    BY <2>1, <2>2, <2>3
<1>23. ASSUME NEW p \in Callers, ReplaceRegister(p) PROVE TypeOK'
  <2>1. RuntimeType'
    <3>1. constructionSeq' \in 0 .. MaxConstructions
      <4>1. CASE Register(p, TRUE, TRUE)
        BY <4>1 DEF Register, RuntimeType
      <4>2. CASE UNCHANGED constructionSeq
        BY <4>2 DEF RuntimeType
      <4> QED
        BY <1>23, <4>1, <4>2 DEF ReplaceRegister
    <3> QED
      BY <1>23, <3>1 DEF ReplaceRegister, RuntimeType
  <2>2. CallerType'
    <3>1. CASE Register(p, TRUE, TRUE) /\ operationMu' = NoCaller /\ Goto(p, "check")
               /\ UNCHANGED <<op, waits, late>>
      BY <1>23, <3>1 DEF Register, Goto, RuntimeType, CallerType, Ids, Pcs, BuildPcs
    <3>2. CASE Return(p)
      BY <1>23, <3>2 DEF Return, Leave, Goto, CallerType, Pcs
    <3> QED
      BY <1>23, <3>1, <3>2 DEF ReplaceRegister
  <2>3. BuildType'
    BY <1>23 DEF ReplaceRegister, Register, Return, Leave, Goto, BuildType,
        RuntimeType, Ids, States, AdapterStates, buildVars, adapterVars
  <2>4. (GenerationType /\ LeaseType)'
    BY <1>23 DEF ReplaceRegister, Register, Return, Leave, Goto, GenerationType,
        LeaseType, genVars, leaseVars
  <2> QED
    BY <2>1, <2>2, <2>3, <2>4
<1>24. ASSUME NEW c \in Ids, CallerCancel(c) PROVE TypeOK'
  <2>1. BuildType'
    BY <1>24 DEF CallerCancel, BuildType, Ids, States, AdapterStates, buildVars, adapterVars
  <2>2. (RuntimeType /\ CallerType /\ GenerationType /\ LeaseType)'
    BY <1>24 DEF CallerCancel, RuntimeType, CallerType, GenerationType, LeaseType,
        runtimeVars, callerVars, genVars, leaseVars
  <2> QED
    BY <2>1, <2>2
<1>25. ASSUME NEW c \in Ids, RequestConstructionCancel(c) PROVE TypeOK'
  <2>1. BuildType'
    BY <1>25 DEF RequestConstructionCancel, BuildType, Ids, States, AdapterStates,
        buildVars, adapterVars
  <2>2. (RuntimeType /\ CallerType /\ GenerationType /\ LeaseType)'
    BY <1>25 DEF RequestConstructionCancel, RuntimeType, CallerType, GenerationType,
        LeaseType, runtimeVars, callerVars, genVars, leaseVars
  <2> QED
    BY <2>1, <2>2
<1>26. ASSUME NEW c \in Ids, AdapterCloses(c) PROVE TypeOK'
  <2>1. BuildType'
    BY <1>26 DEF AdapterCloses, BuildType, Ids, States, AdapterStates, buildVars, adapterVars
  <2>2. (RuntimeType /\ CallerType /\ GenerationType /\ LeaseType)'
    BY <1>26 DEF AdapterCloses, RuntimeType, CallerType, GenerationType, LeaseType,
        runtimeVars, callerVars, genVars, leaseVars
  <2> QED
    BY <2>1, <2>2
<1>27. ASSUME NEW l \in Leases, Admit(l) PROVE TypeOK'
  <2>1. GenerationType'
    <3>1. inFlight' \in [Ids -> Nat]
      BY <1>27, CountUp DEF Admit, GenerationType
    <3> QED
      BY <1>27, <3>1 DEF Admit, GenerationType
  <2>2. LeaseType'
    BY <1>27 DEF Admit, LeaseType, RuntimeType, Ids, leaseVars
  <2>3. (RuntimeType /\ CallerType /\ BuildType)'
    BY <1>27 DEF Admit, RuntimeType, CallerType, BuildType, runtimeVars, callerVars,
        buildVars, adapterVars
  <2> QED
    BY <2>1, <2>2, <2>3
<1>28. ASSUME NEW l \in Leases, Invoke(l) PROVE TypeOK'
  <2>1. LeaseType'
    BY <1>28 DEF Invoke, LeaseType, Ids, leaseVars
  <2>2. (RuntimeType /\ CallerType /\ BuildType /\ GenerationType)'
    BY <1>28 DEF Invoke, RuntimeType, CallerType, BuildType, GenerationType,
        runtimeVars, callerVars, buildVars, adapterVars, genVars
  <2> QED
    BY <2>1, <2>2
<1>29. ASSUME NEW l \in Leases, InvokeClaim(l) PROVE TypeOK'
  <2>1. GenerationType'
    <3>1. activeCallbacks' \in [Ids -> Nat]
      BY <1>29, CountIf DEF InvokeClaim, GenerationType
    <3> QED
      BY <1>29, <3>1 DEF InvokeClaim, GenerationType
  <2>2. LeaseType'
    BY <1>29 DEF InvokeClaim, LeaseType, Ids, leaseVars
  <2>3. (RuntimeType /\ CallerType /\ BuildType)'
    BY <1>29 DEF InvokeClaim, RuntimeType, CallerType, BuildType, runtimeVars,
        callerVars, buildVars, adapterVars
  <2> QED
    BY <2>1, <2>2, <2>3
<1>30. ASSUME NEW l \in Leases, CallbackReturns(l) PROVE TypeOK'
  <2>1. GenerationType'
    <3> DEFINE Running(g) == {k \in Leases : lpc[k] = "callback" /\ leased[k] = g}
    <3>1. \A g \in Ids : leased[l] = g => activeCallbacks[g] # 0
      <4> SUFFICES ASSUME NEW g \in Ids, leased[l] = g PROVE Cardinality(Running(g)) # 0
        BY DEF CallbackCount
      <4>1. l \in Running(g)
        BY <1>30 DEF CallbackReturns
      <4>2. IsFiniteSet(Running(g))
        BY LeasesAssumption, FS_Subset
      <4> QED
        BY <4>1, <4>2, FS_EmptySet
    <3>2. activeCallbacks' \in [Ids -> Nat]
      <4>1. leased[l] \in Ids => activeCallbacks[leased[l]] - 1 \in Nat
        BY <3>1 DEF GenerationType
      <4> QED
        BY <1>30, <4>1, UpdateType DEF CallbackReturns, GenerationType
    <3> QED
      BY <1>30, <3>2 DEF CallbackReturns, GenerationType
  <2>2. LeaseType'
    BY <1>30 DEF CallbackReturns, LeaseType, Ids, leaseVars
  <2>3. (RuntimeType /\ CallerType /\ BuildType)'
    BY <1>30 DEF CallbackReturns, RuntimeType, CallerType, BuildType, runtimeVars,
        callerVars, buildVars, adapterVars
  <2> QED
    BY <2>1, <2>2, <2>3
<1>31. ASSUME NEW l \in Leases, FinishInvocation(l) PROVE TypeOK'
  <2>1. LeaseType'
    BY <1>31 DEF FinishInvocation, LeaseType, Ids, leaseVars
  <2>2. (RuntimeType /\ CallerType /\ BuildType /\ GenerationType)'
    BY <1>31 DEF FinishInvocation, RuntimeType, CallerType, BuildType, GenerationType,
        runtimeVars, callerVars, buildVars, adapterVars, genVars
  <2> QED
    BY <2>1, <2>2
<1>32. ASSUME NEW l \in Leases, Release(l) PROVE TypeOK'
  <2>1. LeaseType'
    BY <1>32 DEF Release, LeaseType, Ids, leaseVars
  <2>2. (RuntimeType /\ CallerType /\ BuildType /\ GenerationType)'
    BY <1>32 DEF Release, RuntimeType, CallerType, BuildType, GenerationType,
        runtimeVars, callerVars, buildVars, adapterVars, genVars
  <2> QED
    BY <2>1, <2>2
<1>33. ASSUME NEW l \in Leases, ReleaseGeneration(l) PROVE TypeOK'
  <2>1. GenerationType'
    <3>1. inFlight' \in [Ids -> Nat]
      <4> DEFINE n == inFlight[leased[l]]
      <4>1. leased[l] \in Ids => (IF n > 0 THEN n - 1 ELSE n) \in Nat
        BY DEF GenerationType
      <4> QED
        BY <1>33, <4>1, UpdateType DEF ReleaseGeneration, GenerationType
    <3>2. drained' \in [Ids -> Nat]
      BY <1>33, CountIf DEF ReleaseGeneration, GenerationType
    <3> QED
      BY <1>33, <3>1, <3>2 DEF ReleaseGeneration, GenerationType
  <2>2. LeaseType'
    BY <1>33 DEF ReleaseGeneration, LeaseType, Ids, leaseVars
  <2>3. (RuntimeType /\ CallerType /\ BuildType)'
    BY <1>33 DEF ReleaseGeneration, RuntimeType, CallerType, BuildType, runtimeVars,
        callerVars, buildVars, adapterVars
  <2> QED
    BY <2>1, <2>2, <2>3
<1>34. CASE UNCHANGED vars
  BY <1>34 DEF vars, RuntimeType, CallerType, BuildType, GenerationType, LeaseType,
       runtimeVars, callerVars, buildVars, adapterVars, genVars, leaseVars
<1> QED
  BY <1>1, <1>2, <1>3, <1>4, <1>5, <1>6, <1>7, <1>8, <1>9, <1>10, <1>11, <1>12, <1>13,
      <1>14, <1>15, <1>16, <1>17, <1>18, <1>19, <1>20, <1>21, <1>22, <1>23, <1>24,
      <1>25, <1>26, <1>27, <1>28, <1>29, <1>30, <1>31, <1>32, <1>33, <1>34 DEF Next,
      Build, Retire, Lease
-----------------------------------------------------------------------------
(* One owner of the bus.                                                   *)

\* A registered construction is fresh and the only one in the map, and no
\* generation is effective.
LEMMA RegisterFacts ==
  ASSUME TypeOK, OwnershipInv, NEW p \in Callers, NEW a \in BOOLEAN, NEW r, Register(p, a, r)
  PROVE  /\ constructionSeq + 1 \in Ids
         /\ state[constructionSeq + 1] = "unused" /\ adapter[constructionSeq + 1] = "none"
         /\ \A c \in Ids : ~Provisional(c)
         /\ \A c \in Ids : Provisional(c)' => c = constructionSeq + 1
         /\ state'[constructionSeq + 1] = "provisional"
         /\ ~quarantined /\ current = 0 /\ retiring = a
<1>1. constructionSeq + 1 \in Ids
  BY MaxConstructionsAssumption DEF Register, TypeOK, RuntimeType, Ids
<1>2. state[constructionSeq + 1] = "unused" /\ adapter[constructionSeq + 1] = "none"
  BY <1>1 DEF OwnershipInv, FreshInv, TypeOK, RuntimeType, Ids
<1>3. \A c \in Ids : ~Provisional(c)
  BY DEF Register, RegisterRefused, Constructions, Provisional
<1>4. ~quarantined /\ current = 0 /\ retiring = a
  BY DEF Register, RegisterRefused, TypeOK, RuntimeType
<1>5. state' = [state EXCEPT ![constructionSeq + 1] = "provisional"]
  BY DEF Register
<1>6. \A c \in Ids : Provisional(c)' => c = constructionSeq + 1
  BY <1>3, <1>5 DEF Provisional, TypeOK, BuildType
<1>7. state'[constructionSeq + 1] = "provisional"
  BY <1>1, <1>5 DEF Provisional, TypeOK, BuildType
<1> QED
  BY <1>1, <1>2, <1>3, <1>4, <1>6, <1>7

\* Every step of a caller, of a context or of the adapter keeps the ownership
\* invariant; the steps of leases do not touch it.
LEMMA OwnershipStep ==
  ASSUME TypeOK, OwnershipInv, [Next]_vars
  PROVE  OwnershipInv'
<1> USE DEF OwnershipInv, TypeOK, RuntimeType, CallerType, BuildType, Ids,
            BuildPcs, StopPcs, LockPcs, BuildStep, Provisional, Owning, Stopping,
            runtimeVars, callerVars, buildVars, adapterVars
<1> USE MaxConstructionsAssumption, NoCallerAssumption
<1>1. ASSUME NEW p \in Callers, Start(p) PROVE OwnershipInv'
  <2>1. BuildInv'
    <3> SUFFICES ASSUME NEW q \in Callers, pc'[q] \in BuildPcs PROVE BuildStep(q)'
      BY DEF BuildInv
    <3>1. CASE q = p
      BY <1>1, RegisterFacts, <3>1 DEF Start, Register, Goto
    <3>2. CASE q # p
      <4>1. pc'[q] = pc[q] /\ id'[q] = id[q] /\ BuildStep(q)
        BY <1>1, <3>2 DEF BuildInv, Start, Register, Goto
      <4>2. state'[id[q]] = state[id[q]]
        BY <1>1, RegisterFacts, <4>1 DEF Start, Register
      <4> QED
        BY <1>1, <4>1, <4>2 DEF Start
    <3> QED
      BY <3>1, <3>2
  <2>2. DistinctInv'
    <3>1. \A q \in Callers : q # p /\ pc'[q] \in BuildPcs => id[q] # constructionSeq + 1
      BY <1>1, RegisterFacts DEF BuildInv, Start, Goto
    <3> QED
      BY <1>1, <3>1 DEF DistinctInv, Start, Register, Goto
  <2>3. StopInv'
    BY <1>1 DEF StopInv, FreshInv, Start, Register, RegisterRefused, Constructions, Goto
  <2>4. ConstructionInv'
    <3>1. \A q \in Callers : pc'[q] \notin StopPcs
      BY <1>1, RegisterFacts DEF StopInv, Start, Goto
    <3> QED
      BY <1>1, <3>1, RegisterFacts DEF ConstructionInv, Start
  <2>5. CurrentInv'
    BY <1>1 DEF CurrentInv, FreshInv, Start, Register, RegisterRefused, Constructions, Goto
  <2>6. OwnerInv'
    <3>1. \A c \in Ids : ~Owning(c)
      <4>1. ~quarantined /\ current = 0 /\ ~retiring /\ \A c \in Ids : ~Provisional(c)
        BY <1>1, RegisterFacts DEF Start
      <4>2. \A c \in Ids : ~Stopping(c)
        BY <4>1 DEF StopInv
      <4> QED
        BY <4>1, <4>2 DEF OwnerInv
    <3> QED
      BY <1>1, <3>1 DEF OwnerInv, Start
  <2>7. (LockInv /\ FreshInv /\ SingleOwner)'
    BY <1>1 DEF LockInv, FreshInv, SingleOwner, Start, Register, RegisterRefused,
        Constructions, Goto
  <2> QED
    BY <2>1, <2>2, <2>3, <2>4, <2>5, <2>6, <2>7
<1>2. ASSUME NEW p \in Callers, StartCheck(p) PROVE OwnershipInv'
  <2>1. OwnerInv'
    BY <1>2 DEF OwnerInv, LockInv, StartCheck, Goto
  <2>2. (LockInv /\ FreshInv /\ BuildInv /\ DistinctInv /\ StopInv /\ ConstructionInv /\
      CurrentInv /\ SingleOwner)'
    BY <1>2 DEF LockInv, FreshInv, BuildInv, DistinctInv, StopInv, ConstructionInv,
        CurrentInv, SingleOwner, StartCheck, Goto
  <2> QED
    BY <2>1, <2>2
<1>3. ASSUME NEW p \in Callers, FactoryCall(p) PROVE OwnershipInv'
  <2>1. FreshInv'
    <3>1. id[p] \in Ids /\ state[id[p]] # "unused"
      BY <1>3 DEF BuildInv, FactoryCall
    <3> QED
      BY <1>3, <3>1 DEF FreshInv, FactoryCall, Goto
  <2>2. BuildInv'
    BY <1>3 DEF BuildInv, DistinctInv, FactoryCall, Goto
  <2>3. OwnerInv'
    BY <1>3 DEF OwnerInv, BuildInv, ConstructionInv, LockInv, FactoryCall, Goto
  <2>4. SingleOwner'
    BY <1>3 DEF SingleOwner, BuildInv, OwnerInv, FactoryCall, Goto
  <2>5. (LockInv /\ DistinctInv /\ StopInv /\ ConstructionInv /\ CurrentInv)'
    BY <1>3 DEF LockInv, DistinctInv, StopInv, ConstructionInv, CurrentInv, FactoryCall, Goto
  <2> QED
    BY <2>1, <2>2, <2>3, <2>4, <2>5
<1>4. ASSUME NEW p \in Callers, FactoryReturn(p) PROVE OwnershipInv'
  <2>1. FreshInv'
    <3>1. id[p] \in Ids /\ state[id[p]] # "unused"
      BY <1>4 DEF BuildInv, FactoryReturn
    <3> QED
      BY <1>4, <3>1 DEF FreshInv, FactoryReturn, Goto
  <2>2. BuildInv'
    BY <1>4 DEF BuildInv, DistinctInv, FactoryReturn, Goto
  <2>3. OwnerInv'
    BY <1>4 DEF OwnerInv, BuildInv, ConstructionInv, LockInv, FactoryReturn, Goto
  <2>4. SingleOwner'
    BY <1>4 DEF SingleOwner, BuildInv, OwnerInv, FactoryReturn, Goto
  <2>5. (LockInv /\ DistinctInv /\ StopInv /\ ConstructionInv /\ CurrentInv)'
    BY <1>4 DEF LockInv, DistinctInv, StopInv, ConstructionInv, CurrentInv, FactoryReturn, Goto
  <2> QED
    BY <2>1, <2>2, <2>3, <2>4, <2>5
<1>5. ASSUME NEW p \in Callers, AdmitConstruction(p) PROVE OwnershipInv'
  <2>1. FreshInv'
    BY <1>5 DEF FreshInv, BuildInv, AdmitConstruction, Goto, Admissible
  <2>2. BuildInv'
    BY <1>5 DEF BuildInv, DistinctInv, AdmitConstruction, Goto, Admissible
  <2>3. DistinctInv'
    <3>1. \A q \in Callers : pc'[q] \in BuildPcs => pc[q] \in BuildPcs /\ id'[q] = id[q]
      BY <1>5 DEF AdmitConstruction, Goto, Admissible
    <3> QED
      BY <3>1 DEF DistinctInv
  <2>4. StopInv'
    BY <1>5 DEF StopInv, BuildInv, ConstructionInv, AdmitConstruction, Goto, Admissible
  <2>5. ConstructionInv'
    BY <1>5 DEF ConstructionInv, BuildInv, AdmitConstruction, Goto, Admissible
  <2>6. CurrentInv'
    BY <1>5 DEF CurrentInv, BuildInv, AdmitConstruction, Goto, Admissible
  <2>7. OwnerInv'
    BY <1>5 DEF OwnerInv, BuildInv, ConstructionInv, LockInv, AdmitConstruction, Goto,
        Admissible
  <2>8. (LockInv /\ SingleOwner)'
    BY <1>5 DEF LockInv, SingleOwner, AdmitConstruction, Goto, Admissible
  <2> QED
    BY <2>1, <2>2, <2>3, <2>4, <2>5, <2>6, <2>7, <2>8
<1>6. ASSUME NEW p \in Callers, RetireUnadmitted(p) PROVE OwnershipInv'
  <2>1. BuildInv'
    BY <1>6 DEF BuildInv, DistinctInv, RetireUnadmitted, RequestClose, Goto
  <2>2. OwnerInv'
    <3>1. \A c \in Ids : Owning(c)' <=> Owning(c)
      BY <1>6 DEF RetireUnadmitted, RequestClose
    <3>2. \A c \in Ids : Stopping(c)' <=> Stopping(c)
      BY <1>6 DEF LockInv, RetireUnadmitted, RequestClose, Goto
    <3> QED
      BY <1>6, <3>1, <3>2 DEF OwnerInv, RetireUnadmitted, RequestClose
  <2>3. LockInv'
    BY <1>6 DEF LockInv, RetireUnadmitted, RequestClose, Goto
  <2>4. DistinctInv'
    BY <1>6 DEF DistinctInv, RetireUnadmitted, RequestClose, Goto
  <2>5. FreshInv'
    BY <1>6 DEF FreshInv, RetireUnadmitted, RequestClose, Goto
  <2>6. SingleOwner'
    BY <1>6 DEF SingleOwner, RetireUnadmitted, RequestClose, Goto
  <2>7. (StopInv /\ ConstructionInv /\ CurrentInv)'
    BY <1>6 DEF StopInv, ConstructionInv, CurrentInv, RetireUnadmitted, RequestClose, Goto
  <2> QED
    BY <2>1, <2>2, <2>3, <2>4, <2>5, <2>6, <2>7
<1>7. ASSUME NEW p \in Callers, RetireUnadmittedWait(p) PROVE OwnershipInv'
  <2>1. OwnerInv'
    BY <1>7 DEF OwnerInv, LockInv, RetireUnadmittedWait, AwaitClosed, Goto
  <2>2. (LockInv /\ FreshInv /\ BuildInv /\ DistinctInv /\ StopInv /\ ConstructionInv /\
      CurrentInv /\ SingleOwner)'
    BY <1>7 DEF LockInv, FreshInv, BuildInv, DistinctInv, StopInv, ConstructionInv,
        CurrentInv, SingleOwner, RetireUnadmittedWait, AwaitClosed, Goto
  <2> QED
    BY <2>1, <2>2
<1>8. ASSUME NEW p \in Callers, RetireUnadmittedFail(p) PROVE OwnershipInv'
  <2>1. OwnerInv'
    BY <1>8 DEF OwnerInv, LockInv, RetireUnadmittedFail, Quarantine, Goto
  <2>2. (LockInv /\ FreshInv /\ BuildInv /\ DistinctInv /\ StopInv /\ ConstructionInv /\
      CurrentInv /\ SingleOwner)'
    BY <1>8 DEF LockInv, FreshInv, BuildInv, DistinctInv, StopInv, ConstructionInv,
        CurrentInv, SingleOwner, RetireUnadmittedFail, Quarantine, Goto
  <2> QED
    BY <2>1, <2>2
<1>9. ASSUME NEW p \in Callers, FinishConstruction(p) PROVE OwnershipInv'
  <2>1. FreshInv'
    <3>1. id[p] \in Ids /\ state[id[p]] # "unused"
      BY <1>9 DEF BuildInv, FinishConstruction
    <3> QED
      BY <1>9, <3>1 DEF FreshInv, FinishConstruction, Leave, Goto
  <2>2. BuildInv'
    BY <1>9 DEF BuildInv, DistinctInv, FinishConstruction, Leave, Goto
  <2>3. StopInv'
    <3>1. CASE state[id[p]] = "admitted"
      BY <1>9, <3>1 DEF StopInv, FinishConstruction, Leave, Goto
    <3>2. CASE state[id[p]] # "admitted"
      <4>1. \A q \in Callers : pc[q] \notin StopPcs
        BY <1>9, <3>2 DEF BuildInv, ConstructionInv, FinishConstruction
      <4> QED
        BY <1>9, <4>1 DEF StopInv, FinishConstruction, Leave, Goto
    <3> QED
      BY <3>1, <3>2
  <2>4. CurrentInv'
    BY <1>9 DEF CurrentInv, BuildInv, FinishConstruction, Leave, Goto
  <2>5. OwnerInv'
    BY <1>9 DEF OwnerInv, BuildInv, ConstructionInv, LockInv, FinishConstruction, Leave, Goto
  <2>6. (LockInv /\ DistinctInv /\ ConstructionInv /\ SingleOwner)'
    BY <1>9 DEF LockInv, DistinctInv, ConstructionInv, SingleOwner,
        FinishConstruction, Leave, Goto
  <2> QED
    BY <2>1, <2>2, <2>3, <2>4, <2>5, <2>6
<1>10. ASSUME NEW p \in Callers, CancelConstructions(p) PROVE OwnershipInv'
  <2>1. OwnerInv'
    BY <1>10 DEF OwnerInv, LockInv, CancelConstructions, Goto
  <2>2. (LockInv /\ FreshInv /\ BuildInv /\ DistinctInv /\ StopInv /\ ConstructionInv /\
      CurrentInv /\ SingleOwner)'
    BY <1>10 DEF LockInv, FreshInv, BuildInv, DistinctInv, StopInv, ConstructionInv,
        CurrentInv, SingleOwner, CancelConstructions, Goto
  <2> QED
    BY <2>1, <2>2
<1>11. ASSUME NEW p \in Callers, CancelWait(p) PROVE OwnershipInv'
  <2>1. DistinctInv'
    <3>1. \A q \in Callers : pc'[q] \in BuildPcs => pc[q] \in BuildPcs /\ id'[q] = id[q]
      BY <1>11 DEF CancelWait, Goto
    <3> QED
      BY <3>1 DEF DistinctInv
  <2>2. OwnerInv'
    BY <1>11 DEF OwnerInv, LockInv, CancelWait, Goto
  <2>3. (LockInv /\ FreshInv /\ BuildInv /\ StopInv /\ ConstructionInv /\ CurrentInv /\
      SingleOwner)'
    BY <1>11 DEF LockInv, FreshInv, BuildInv, StopInv, ConstructionInv, CurrentInv,
        SingleOwner, CancelWait, Goto
  <2> QED
    BY <2>1, <2>2, <2>3
<1>12. ASSUME NEW p \in Callers, CancelFail(p) PROVE OwnershipInv'
  <2>1. OwnerInv'
    BY <1>12 DEF OwnerInv, LockInv, CancelFail, Quarantine, Leave, Goto
  <2>2. (LockInv /\ FreshInv /\ BuildInv /\ DistinctInv /\ StopInv /\ ConstructionInv /\
      CurrentInv /\ SingleOwner)'
    BY <1>12 DEF LockInv, FreshInv, BuildInv, DistinctInv, StopInv, ConstructionInv,
        CurrentInv, SingleOwner, CancelFail, Quarantine, Leave, Goto
  <2> QED
    BY <2>1, <2>2
<1>13. ASSUME NEW p \in Callers, LockOperation(p) PROVE OwnershipInv'
  <2>1. OwnerInv'
    BY <1>13 DEF OwnerInv, LockInv, LockOperation, Goto
  <2>2. (LockInv /\ FreshInv /\ BuildInv /\ DistinctInv /\ StopInv /\ ConstructionInv /\
      CurrentInv /\ SingleOwner)'
    BY <1>13 DEF LockInv, FreshInv, BuildInv, DistinctInv, StopInv, ConstructionInv,
        CurrentInv, SingleOwner, LockOperation, Goto
  <2> QED
    BY <2>1, <2>2
<1>14. ASSUME NEW p \in Callers, StopNothing(p) PROVE OwnershipInv'
  <2>1. BuildInv'
    <3>1. \A q \in Callers : pc'[q] \in BuildPcs => pc[q] = pc'[q] /\ id'[q] = id[q]
      BY <1>14 DEF StopNothing, Return, Leave, Goto
    <3> QED
      BY <1>14, <3>1 DEF BuildInv, StopNothing
  <2>2. DistinctInv'
    <3>1. \A q \in Callers : pc'[q] \in BuildPcs => pc[q] \in BuildPcs /\ id'[q] = id[q]
      BY <1>14 DEF StopNothing, Return, Leave, Goto
    <3> QED
      BY <3>1 DEF DistinctInv
  <2>3. StopInv'
    BY <1>14 DEF StopInv, LockInv, StopNothing, Return, Leave, Goto
  <2>4. OwnerInv'
    BY <1>14 DEF OwnerInv, LockInv, StopNothing, Return, Leave, Goto
  <2>5. LockInv'
    BY <1>14 DEF LockInv, StopNothing, Return, Leave, Goto
  <2>6. ConstructionInv'
    BY <1>14 DEF ConstructionInv, StopNothing, Return, Leave, Goto
  <2>7. (FreshInv /\ CurrentInv /\ SingleOwner)'
    BY <1>14 DEF FreshInv, CurrentInv, SingleOwner, StopNothing, Return, Leave, Goto
  <2> QED
    BY <2>1, <2>2, <2>3, <2>4, <2>5, <2>6, <2>7
<1>15. ASSUME NEW p \in Callers, Withdraw(p) PROVE OwnershipInv'
  <2>1. StopInv'
    BY <1>15 DEF StopInv, LockInv, CurrentInv, Withdraw, Goto
  <2>2. ConstructionInv'
    BY <1>15 DEF ConstructionInv, CurrentInv, Withdraw, Goto
  <2>3. OwnerInv'
    BY <1>15 DEF OwnerInv, LockInv, CurrentInv, StopInv, Withdraw, Goto
  <2>4. (LockInv /\ FreshInv /\ BuildInv /\ DistinctInv /\ CurrentInv /\ SingleOwner)'
    BY <1>15 DEF LockInv, FreshInv, BuildInv, DistinctInv, CurrentInv, SingleOwner,
        Withdraw, Goto
  <2> QED
    BY <2>1, <2>2, <2>3, <2>4
<1>16. ASSUME NEW p \in Callers, Drain(p) PROVE OwnershipInv'
  <2>1. DistinctInv'
    <3>1. \A q \in Callers : pc'[q] \in BuildPcs => pc[q] \in BuildPcs /\ id'[q] = id[q]
      BY <1>16 DEF Drain, Goto
    <3> QED
      BY <3>1 DEF DistinctInv
  <2>2. OwnerInv'
    BY <1>16 DEF OwnerInv, LockInv, Drain, Goto
  <2>3. (LockInv /\ FreshInv /\ BuildInv /\ StopInv /\ ConstructionInv /\ CurrentInv /\
      SingleOwner)'
    BY <1>16 DEF LockInv, FreshInv, BuildInv, StopInv, ConstructionInv, CurrentInv,
        SingleOwner, Drain, Goto
  <2> QED
    BY <2>1, <2>2, <2>3
<1>17. ASSUME NEW p \in Callers, DrainCheck(p) PROVE OwnershipInv'
  <2>1. OwnerInv'
    BY <1>17 DEF OwnerInv, LockInv, DrainCheck, Goto
  <2>2. (LockInv /\ FreshInv /\ BuildInv /\ DistinctInv /\ StopInv /\ ConstructionInv /\
      CurrentInv /\ SingleOwner)'
    BY <1>17 DEF LockInv, FreshInv, BuildInv, DistinctInv, StopInv, ConstructionInv,
        CurrentInv, SingleOwner, DrainCheck, Goto
  <2> QED
    BY <2>1, <2>2
<1>18. ASSUME NEW p \in Callers, CloseGeneration(p) PROVE OwnershipInv'
  <2>1. DistinctInv'
    <3>1. \A q \in Callers : pc'[q] \in BuildPcs => pc[q] \in BuildPcs /\ id'[q] = id[q]
      BY <1>18 DEF CloseGeneration, RequestClose, Goto
    <3> QED
      BY <3>1 DEF DistinctInv
  <2>2. OwnerInv'
    BY <1>18 DEF OwnerInv, LockInv, CloseGeneration, RequestClose, Goto
  <2>3. (LockInv /\ FreshInv /\ BuildInv)'
    BY <1>18 DEF LockInv, FreshInv, BuildInv, CloseGeneration, RequestClose, Goto
  <2>4. (StopInv /\ ConstructionInv)'
    BY <1>18 DEF LockInv, StopInv, ConstructionInv, CloseGeneration, RequestClose, Goto
  <2>5. (CurrentInv /\ SingleOwner)'
    BY <1>18 DEF LockInv, CurrentInv, SingleOwner, CloseGeneration, RequestClose, Goto
  <2> QED
    BY <2>1, <2>2, <2>3, <2>4, <2>5
<1>19. ASSUME NEW p \in Callers, CloseGenerationWait(p) PROVE OwnershipInv'
  <2>1. OwnerInv'
    BY <1>19 DEF OwnerInv, LockInv, CloseGenerationWait, AwaitClosed, Goto
  <2>2. BuildInv'
    BY <1>19 DEF BuildInv, CloseGenerationWait, AwaitClosed, Goto
  <2>3. DistinctInv'
    BY <1>19 DEF DistinctInv, CloseGenerationWait, AwaitClosed, Goto
  <2>4. SingleOwner'
    BY <1>19 DEF SingleOwner, CloseGenerationWait, AwaitClosed, Goto
  <2>5. (LockInv /\ FreshInv /\ StopInv /\ ConstructionInv /\ CurrentInv)'
    BY <1>19 DEF LockInv, FreshInv, StopInv, ConstructionInv, CurrentInv,
        CloseGenerationWait, AwaitClosed, Goto
  <2> QED
    BY <2>1, <2>2, <2>3, <2>4, <2>5
<1>20. ASSUME NEW p \in Callers, CloseGenerationFail(p) PROVE OwnershipInv'
  <2>1. OwnerInv'
    BY <1>20 DEF OwnerInv, LockInv, CloseGenerationFail, Quarantine, Return, Leave, Goto
  <2>2. (LockInv /\ FreshInv /\ BuildInv /\ DistinctInv /\ StopInv /\ ConstructionInv /\
      CurrentInv /\ SingleOwner)'
    BY <1>20 DEF LockInv, FreshInv, BuildInv, DistinctInv, StopInv, ConstructionInv,
        CurrentInv, SingleOwner, CloseGenerationFail, Quarantine, Return, Leave, Goto
  <2> QED
    BY <2>1, <2>2
<1>21. ASSUME NEW p \in Callers, ReplaceLate(p) PROVE OwnershipInv'
  <2>1. BuildInv'
    <3>1. \A q \in Callers : pc'[q] \in BuildPcs => q # p /\ pc[q] = pc'[q] /\ id'[q] = id[q]
      BY <1>21 DEF ReplaceLate, Return, Leave, Goto
    <3> QED
      BY <1>21, <3>1 DEF BuildInv, ReplaceLate
  <2>2. DistinctInv'
    <3>1. \A q \in Callers : pc'[q] \in BuildPcs => pc[q] \in BuildPcs /\ id'[q] = id[q]
      BY <1>21 DEF ReplaceLate, Return, Leave, Goto
    <3> QED
      BY <3>1 DEF DistinctInv
  <2>3. OwnerInv'
    BY <1>21 DEF OwnerInv, LockInv, ReplaceLate, Return, Leave, Goto
  <2>4. (LockInv /\ FreshInv /\ StopInv /\ ConstructionInv /\ CurrentInv /\ SingleOwner)'
    BY <1>21 DEF LockInv, FreshInv, StopInv, ConstructionInv, CurrentInv, SingleOwner,
        ReplaceLate, Return, Leave, Goto
  <2> QED
    BY <2>1, <2>2, <2>3, <2>4
<1>22. ASSUME NEW p \in Callers, Unfence(p) PROVE OwnershipInv'
  <2>1. StopInv'
    BY <1>22 DEF StopInv, LockInv, Unfence, Return, Leave, Goto
  <2>2. OwnerInv'
    BY <1>22 DEF OwnerInv, LockInv, Unfence, Return, Leave, Goto
  <2>3. (LockInv /\ FreshInv /\ BuildInv /\ DistinctInv /\ ConstructionInv /\ CurrentInv
      /\ SingleOwner)'
    BY <1>22 DEF LockInv, FreshInv, BuildInv, DistinctInv, ConstructionInv,
        CurrentInv, SingleOwner, Unfence, Return, Leave, Goto
  <2> QED
    BY <2>1, <2>2, <2>3
<1>23. ASSUME NEW p \in Callers, ReplaceRegister(p) PROVE OwnershipInv'
  <2>1. FreshInv'
    <3>1. CASE RegisterRefused(TRUE) /\ Return(p)
               /\ UNCHANGED <<constructionSeq, state, releaseRetiring>>
      BY <1>23, <3>1 DEF FreshInv, ReplaceRegister, Return, Leave, Goto
    <3>2. CASE Register(p, TRUE, TRUE) /\ operationMu' = NoCaller /\ Goto(p, "check")
      BY <1>23, <3>2 DEF FreshInv, ReplaceRegister, Register
    <3> QED
      BY <1>23, <3>1, <3>2 DEF ReplaceRegister
  <2>2. BuildInv'
    <3>1. CASE RegisterRefused(TRUE) /\ Return(p)
               /\ UNCHANGED <<constructionSeq, state, releaseRetiring>>
      BY <1>23, <3>1 DEF BuildInv, ReplaceRegister, Return, Leave, Goto
    <3>2. CASE Register(p, TRUE, TRUE) /\ operationMu' = NoCaller /\ Goto(p, "check")
      <4> SUFFICES ASSUME NEW q \in Callers, pc'[q] \in BuildPcs PROVE BuildStep(q)'
        BY DEF BuildInv
      <4>1. CASE q = p
        BY <1>23, <3>2, RegisterFacts, <4>1 DEF ReplaceRegister, Register, Goto
      <4>2. CASE q # p
        <5>1. pc'[q] = pc[q] /\ id'[q] = id[q] /\ BuildStep(q)
          BY <1>23, <3>2, <4>2 DEF BuildInv, ReplaceRegister, Register, Goto
        <5>2. state'[id[q]] = state[id[q]]
          BY <1>23, <3>2, RegisterFacts, <5>1 DEF ReplaceRegister, Register
        <5> QED
          BY <1>23, <3>2, <5>1, <5>2 DEF ReplaceRegister
      <4> QED
        BY <4>1, <4>2
    <3> QED
      BY <1>23, <3>1, <3>2 DEF ReplaceRegister
  <2>3. DistinctInv'
    <3>1. CASE RegisterRefused(TRUE) /\ Return(p)
               /\ UNCHANGED <<constructionSeq, state, releaseRetiring>>
      BY <1>23, <3>1 DEF DistinctInv, ReplaceRegister, Return, Leave, Goto
    <3>2. CASE Register(p, TRUE, TRUE) /\ operationMu' = NoCaller /\ Goto(p, "check")
      <4>1. \A q \in Callers : q # p /\ pc'[q] \in BuildPcs => id[q] # constructionSeq + 1
        BY <3>2, RegisterFacts DEF BuildInv, Goto
      <4> QED
        BY <1>23, <3>2, <4>1 DEF DistinctInv, ReplaceRegister, Register, Goto
    <3> QED
      BY <1>23, <3>1, <3>2 DEF ReplaceRegister
  <2>4. StopInv'
    <3>1. CASE RegisterRefused(TRUE) /\ Return(p)
               /\ UNCHANGED <<constructionSeq, state, releaseRetiring>>
      BY <1>23, <3>1 DEF StopInv, ReplaceRegister, Return, Leave, Goto
    <3>2. CASE Register(p, TRUE, TRUE) /\ operationMu' = NoCaller /\ Goto(p, "check")
      BY <1>23, <3>2 DEF StopInv, LockInv, ReplaceRegister, Goto
    <3> QED
      BY <1>23, <3>1, <3>2 DEF ReplaceRegister
  <2>5. ConstructionInv'
    <3>1. CASE RegisterRefused(TRUE) /\ Return(p)
               /\ UNCHANGED <<constructionSeq, state, releaseRetiring>>
      BY <1>23, <3>1 DEF ConstructionInv, ReplaceRegister, Return, Leave, Goto
    <3>2. CASE Register(p, TRUE, TRUE) /\ operationMu' = NoCaller /\ Goto(p, "check")
      <4>1. \A q \in Callers : pc'[q] \notin StopPcs
        BY <1>23, <3>2 DEF LockInv, ReplaceRegister, Goto
      <4> QED
        BY <1>23, <3>2, <4>1, RegisterFacts DEF ConstructionInv, ReplaceRegister
    <3> QED
      BY <1>23, <3>1, <3>2 DEF ReplaceRegister
  <2>6. CurrentInv'
    BY <1>23 DEF CurrentInv, FreshInv, ReplaceRegister, Register, RegisterRefused,
        Constructions, Return, Leave, Goto
  <2>7. OwnerInv'
    <3>1. CASE RegisterRefused(TRUE) /\ Return(p)
               /\ UNCHANGED <<constructionSeq, state, releaseRetiring>>
      BY <1>23, <3>1 DEF OwnerInv, LockInv, ReplaceRegister, Return, Leave, Goto
    <3>2. CASE Register(p, TRUE, TRUE) /\ operationMu' = NoCaller /\ Goto(p, "check")
      <4>1. \A c \in Ids : ~Owning(c)
        <5>1. ~quarantined /\ current = 0 /\ \A c \in Ids : ~Provisional(c)
          BY <3>2, RegisterFacts
        <5>2. \A c \in Ids : ~Stopping(c)
          BY <1>23 DEF LockInv, ReplaceRegister
        <5> QED
          BY <5>1, <5>2 DEF OwnerInv
      <4> QED
        BY <1>23, <4>1 DEF OwnerInv, ReplaceRegister
    <3> QED
      BY <1>23, <3>1, <3>2 DEF ReplaceRegister
  <2>8. LockInv'
    BY <1>23, ZenonT(40) DEF LockInv, ReplaceRegister, Register, RegisterRefused, Constructions,
        Return, Leave, Goto
  <2>9. SingleOwner'
    BY <1>23 DEF SingleOwner, ReplaceRegister, Register, RegisterRefused,
        Constructions, Return, Leave, Goto
  <2> QED
    BY <2>1, <2>2, <2>3, <2>4, <2>5, <2>6, <2>7, <2>8, <2>9
<1>24. ASSUME NEW c \in Ids, CallerCancel(c) PROVE OwnershipInv'
  <2>1. (LockInv /\ FreshInv /\ BuildInv /\ DistinctInv /\ StopInv /\ ConstructionInv /\
      CurrentInv /\ OwnerInv /\ SingleOwner)'
    BY <1>24 DEF LockInv, FreshInv, BuildInv, DistinctInv, StopInv, ConstructionInv,
        CurrentInv, OwnerInv, SingleOwner, CallerCancel
  <2> QED
    BY <2>1
<1>25. ASSUME NEW c \in Ids, RequestConstructionCancel(c) PROVE OwnershipInv'
  <2>1. (LockInv /\ FreshInv /\ BuildInv /\ DistinctInv /\ StopInv /\ ConstructionInv /\
      CurrentInv /\ OwnerInv /\ SingleOwner)'
    BY <1>25 DEF LockInv, FreshInv, BuildInv, DistinctInv, StopInv, ConstructionInv,
        CurrentInv, OwnerInv, SingleOwner, RequestConstructionCancel
  <2> QED
    BY <2>1
<1>26. ASSUME NEW c \in Ids, AdapterCloses(c) PROVE OwnershipInv'
  <2>1. (LockInv /\ FreshInv /\ BuildInv /\ DistinctInv /\ StopInv /\ ConstructionInv /\
      CurrentInv /\ OwnerInv /\ SingleOwner)'
    BY <1>26 DEF LockInv, FreshInv, BuildInv, DistinctInv, StopInv, ConstructionInv,
        CurrentInv, OwnerInv, SingleOwner, AdapterCloses
  <2> QED
    BY <2>1
<1>27. CASE UNCHANGED <<runtimeVars, callerVars, buildVars, adapterVars>>
  BY <1>27 DEF LockInv, FreshInv, BuildInv, DistinctInv, StopInv, ConstructionInv,
      CurrentInv, OwnerInv, SingleOwner
<1>28. ASSUME NEW l \in Leases, Lease(l)
      PROVE  UNCHANGED <<runtimeVars, callerVars, buildVars, adapterVars>>
  BY <1>28 DEF Lease, Admit, Invoke, InvokeClaim, CallbackReturns, FinishInvocation,
      Release, ReleaseGeneration
<1> QED
  BY <1>1, <1>2, <1>3, <1>4, <1>5, <1>6, <1>7, <1>8, <1>9, <1>10, <1>11, <1>12, <1>13,
      <1>14, <1>15, <1>16, <1>17, <1>18, <1>19, <1>20, <1>21, <1>22, <1>23, <1>24,
      <1>25, <1>26, <1>27, <1>28 DEF Next, Build, Retire, vars
-----------------------------------------------------------------------------
(* Callbacks.                                                              *)

\* A claim adds its lease to the running callbacks, a return removes it, and no
\* other step changes the count or the set.
LEMMA CallbackStep ==
  ASSUME TypeOK, LeaseInv, CallbackCount, [Next]_vars
  PROVE  LeaseInv' /\ CallbackCount'
<1> DEFINE Running(g) == {k \in Leases : lpc[k] = "callback" /\ leased[k] = g}
<1>0. \A g \in Ids : IsFiniteSet(Running(g))
  BY LeasesAssumption, FS_Subset
<1>1. CASE UNCHANGED <<activeCallbacks, lpc, leased, invoked>>
  BY <1>1 DEF LeaseInv, CallbackCount
<1>2. ASSUME NEW l \in Leases, Admit(l) PROVE LeaseInv' /\ CallbackCount'
  <2>1. \A g \in Ids : Running(g)' = Running(g)
    BY <1>2 DEF Admit, LeaseInv, TypeOK, LeaseType, Ids
  <2> QED
    BY <1>2, <2>1 DEF Admit, LeaseInv, CallbackCount, TypeOK, LeaseType
<1>3. ASSUME NEW l \in Leases, Invoke(l) \/ FinishInvocation(l)
      PROVE  LeaseInv' /\ CallbackCount'
  <2>1. activeCallbacks' = activeCallbacks /\ leased' = leased /\ lpc[l] # "callback"
    BY <1>3 DEF Invoke, FinishInvocation, LeaseInv, genVars, TypeOK, LeaseType
  <2>2. PICK x \in {"claim", "idle"} : lpc' = [lpc EXCEPT ![l] = x]
    BY <1>3 DEF Invoke, FinishInvocation
  <2>3. LeaseInv'
    BY <1>3, <2>1, <2>2 DEF LeaseInv, Invoke, FinishInvocation, TypeOK, LeaseType
  <2>4. \A g \in Ids : Running(g)' = Running(g)
    BY <2>1, <2>2 DEF TypeOK, LeaseType
  <2> QED
    BY <2>1, <2>3, <2>4 DEF CallbackCount
<1>4. ASSUME NEW l \in Leases, InvokeClaim(l) PROVE LeaseInv' /\ CallbackCount'
  <2>1. LeaseInv'
    BY <1>4 DEF InvokeClaim, LeaseInv, TypeOK, LeaseType
  <2>2. CASE ~Effective(l)
    <3>1. \A g \in Ids : Running(g)' = Running(g)
      BY <1>4, <2>2 DEF InvokeClaim, TypeOK, LeaseType
    <3>2. activeCallbacks' = activeCallbacks
      BY <1>4, <2>2 DEF InvokeClaim, TypeOK, GenerationType
    <3> QED
      BY <2>1, <3>1, <3>2 DEF CallbackCount
  <2>3. CASE Effective(l)
    <3>1. leased[l] \in Ids
      BY <1>4 DEF InvokeClaim, LeaseInv, TypeOK, LeaseType
    <3>2. l \notin Running(leased[l]) /\ Running(leased[l])' = Running(leased[l]) \cup {l}
      BY <1>4, <2>3 DEF InvokeClaim, TypeOK, LeaseType
    <3>3. \A g \in Ids \ {leased[l]} : Running(g)' = Running(g) /\ activeCallbacks'[g] = activeCallbacks[g]
      BY <1>4, <2>3 DEF InvokeClaim, TypeOK, LeaseType, GenerationType
    <3>4. activeCallbacks'[leased[l]] = activeCallbacks[leased[l]] + 1
      BY <1>4, <2>3, <3>1 DEF InvokeClaim, TypeOK, GenerationType
    <3>5. Cardinality(Running(leased[l]) \cup {l}) = Cardinality(Running(leased[l])) + 1
      BY <1>0, <3>1, <3>2, FS_AddElement
    <3>6. leased' = leased
      BY <1>4 DEF InvokeClaim
    <3> QED
      BY <2>1, <3>1, <3>2, <3>3, <3>4, <3>5, <3>6 DEF CallbackCount
  <2> QED
    BY <2>2, <2>3
<1>5. ASSUME NEW l \in Leases, CallbackReturns(l) PROVE LeaseInv' /\ CallbackCount'
  <2>1. LeaseInv'
    BY <1>5 DEF CallbackReturns, LeaseInv, TypeOK, LeaseType
  <2>2. leased[l] \in Ids
    BY <1>5 DEF CallbackReturns, LeaseInv, TypeOK, LeaseType
  <2>3. l \in Running(leased[l]) /\ Running(leased[l])' = Running(leased[l]) \ {l}
    BY <1>5 DEF CallbackReturns, TypeOK, LeaseType
  <2>4. \A g \in Ids \ {leased[l]} : Running(g)' = Running(g) /\ activeCallbacks'[g] = activeCallbacks[g]
    BY <1>5 DEF CallbackReturns, TypeOK, LeaseType, GenerationType
  <2>5. activeCallbacks'[leased[l]] = activeCallbacks[leased[l]] - 1
    BY <1>5, <2>2 DEF CallbackReturns, TypeOK, GenerationType
  <2>6. Cardinality(Running(leased[l]) \ {l}) = Cardinality(Running(leased[l])) - 1
    BY <1>0, <2>2, <2>3, FS_RemoveElement
  <2>7. leased' = leased
    BY <1>5 DEF CallbackReturns
  <2> QED
    BY <2>1, <2>2, <2>3, <2>4, <2>5, <2>6, <2>7 DEF CallbackCount
<1>6. ASSUME NEW p \in Callers,
             \/ Start(p) \/ Build(p) \/ CancelConstructions(p) \/ CancelWait(p)
             \/ CancelFail(p) \/ LockOperation(p) \/ Retire(p)
      PROVE  UNCHANGED <<activeCallbacks, lpc, leased, invoked>>
  BY <1>6 DEF Start, Build, StartCheck, FactoryCall, FactoryReturn, AdmitConstruction,
       RetireUnadmitted, RetireUnadmittedWait, RetireUnadmittedFail, FinishConstruction,
       CancelConstructions, CancelWait, CancelFail, LockOperation, Retire, StopNothing,
       Withdraw, Drain, DrainCheck, CloseGeneration, CloseGenerationWait,
       CloseGenerationFail, ReplaceLate, Unfence, ReplaceRegister, RequestClose,
       AwaitClosed, genVars, leaseVars
<1>7. ASSUME NEW c \in Ids, CallerCancel(c) \/ RequestConstructionCancel(c) \/ AdapterCloses(c)
      PROVE  UNCHANGED <<activeCallbacks, lpc, leased, invoked>>
  BY <1>7 DEF CallerCancel, RequestConstructionCancel, AdapterCloses, genVars, leaseVars
<1>8. ASSUME NEW l \in Leases, Release(l) \/ ReleaseGeneration(l)
      PROVE  UNCHANGED <<activeCallbacks, lpc, leased, invoked>>
  BY <1>8 DEF Release, ReleaseGeneration, genVars
<1>9. CASE UNCHANGED vars
  BY <1>1, <1>9 DEF vars, genVars, leaseVars
<1> QED
  BY <1>1, <1>2, <1>3, <1>4, <1>5, <1>6, <1>7, <1>8, <1>9 DEF Next, Lease

-----------------------------------------------------------------------------
(* The theorems.                                                           *)

\* NewDriverRuntime establishes every part of the invariant.
LEMMA InitInv == Init => TypeOK /\ OwnershipInv /\ LeaseInv /\ CallbackCount
<1> SUFFICES ASSUME Init PROVE TypeOK /\ OwnershipInv /\ LeaseInv /\ CallbackCount
  OBVIOUS
<1>1. TypeOK
  <2>1. RuntimeType
    <3>1. generation \in Nat /\ revision \in Nat /\ current \in {0} \cup Ids
      BY DEF Init
    <3>2. constructionSeq \in 0 .. MaxConstructions
      BY MaxConstructionsAssumption DEF Init
    <3> QED
      BY <3>1, <3>2 DEF Init, RuntimeType
  <2>2. CallerType
    BY DEF Init, CallerType, Pcs
  <2>3. BuildType
    BY DEF Init, BuildType, States, AdapterStates
  <2>4. GenerationType
    BY DEF Init, GenerationType
  <2>5. LeaseType
    BY DEF Init, LeaseType
  <2> QED
    BY <2>1, <2>2, <2>3, <2>4, <2>5 DEF TypeOK
<1>2. OwnershipInv
  BY NoCallerAssumption DEF Init, OwnershipInv, LockInv, FreshInv, BuildInv, DistinctInv,
     StopInv, ConstructionInv, CurrentInv, OwnerInv, SingleOwner, Owning, Provisional,
     BuildPcs, StopPcs, LockPcs
<1>3. LeaseInv
  BY DEF Init, LeaseInv
<1>4. CallbackCount
  <2>1. \A g \in Ids : {l \in Leases : lpc[l] = "callback" /\ leased[l] = g} = {}
    BY DEF Init
  <2> QED
    BY <2>1, FS_EmptySet DEF Init, CallbackCount
<1> QED
  BY <1>1, <1>2, <1>3, <1>4

\* TypeOK holds in every reachable state, for any number of callers, leases and
\* constructions: no release or callback return takes a counter below zero.
THEOREM TypeCorrect == Spec => []TypeOK
<1>1. Init => TypeOK /\ LeaseInv /\ CallbackCount
  BY InitInv
<1>2. TypeOK /\ LeaseInv /\ CallbackCount /\ [Next]_vars
        => TypeOK' /\ LeaseInv' /\ CallbackCount'
  BY TypeStep, CallbackStep
<1> QED
  BY <1>1, <1>2, PTL DEF Spec

\* No interleaving of Start, Stop and Replace lets two transports hold the bus.
THEOREM OneOwner == Spec => []SingleOwner
<1>1. Init => OwnershipInv
  BY InitInv
<1>2. TypeOK /\ OwnershipInv /\ [Next]_vars => OwnershipInv'
  BY OwnershipStep
<1>3. OwnershipInv => SingleOwner
  BY DEF OwnershipInv
<1> QED
  BY <1>1, <1>2, <1>3, TypeCorrect, PTL DEF Spec

-----------------------------------------------------------------------------
(* The inductive invariant behind GenerationInUse and DrainAccounting.     *)

\* What a lease owes its generation: nothing before Admit, and a release that is
\* under way has been noted; a callback that may run keeps the lease unreleased.
OwedInv ==
  \A l \in Leases :
    /\ leased[l] = 0 => ~released[l] /\ ~releasing[l]
    /\ leased[l] # 0 => state[leased[l]] = "admitted"
    /\ releasing[l] => released[l]
    /\ lpc[l] # "idle" => ~released[l]

\* The effective generation accepts leases, its context is live and nobody has
\* asked its transport to close.
EffectiveInv ==
  current # 0 => accepting[current] /\ ~ctxDone[current] /\ closeRequests[current] = 0

\* A transport is not asked to close before its construction is given up.
RequestInv ==
  /\ \A c \in Ids : c > constructionSeq => closeRequests[c] = 0
  /\ \A p \in Callers :
       /\ pc[p] \in {"check", "factory", "build", "admit"} => closeRequests[id[p]] = 0
       /\ pc[p] = "build" => adapter[id[p]] = "building"

\* A caller about to ask a generation to close has seen its last callback return.
QuietInv == \A p \in Callers : pc[p] = "close" => activeCallbacks[id[p]] = 0

\* The holder of operationMu has not got past the drain of the generation.
Draining(g) == Stopping(g) /\ pc[operationMu] \in {"drain", "drainCheck", "closeFail"}

\* A callback runs on the effective generation, on one being drained or under
\* quarantine, and keeps every other transport and construction out.
CallbackInv ==
  \A g \in Ids : activeCallbacks[g] > 0 =>
    /\ state[g] = "admitted"
    /\ g = current \/ quarantined \/ Draining(g)
    /\ closeRequests[g] = 0
    /\ current \in {0, g}
    /\ \A h \in Ids : ~Provisional(h) /\ (Owning(h) => h = g)

UseInv == OwedInv /\ EffectiveInv /\ RequestInv /\ QuietInv /\ CallbackInv

-----------------------------------------------------------------------------
(* Steps of the lifecycle calls and of the leases.                         *)

\* What a step of a caller or of the environment is, one named action at a time.
CallerStep(p) ==
  \/ Start(p) \/ Build(p) \/ CancelConstructions(p) \/ CancelWait(p) \/ CancelFail(p)
  \/ LockOperation(p) \/ Retire(p)
OutsideStep(c) == CallerCancel(c) \/ RequestConstructionCancel(c) \/ AdapterCloses(c)

LEMMA NextCases ==
  ASSUME [Next]_vars
  PROVE  \/ \E p \in Callers : CallerStep(p)
         \/ \E c \in Ids : OutsideStep(c)
         \/ \E l \in Leases : Lease(l)
         \/ UNCHANGED vars
  BY DEF Next, CallerStep, OutsideStep

\* The lifecycle calls and the environment leave the leases alone.
LEMMA CallersKeepLeases ==
  ASSUME NEW p, NEW c, CallerStep(p) \/ OutsideStep(c)
  PROVE  UNCHANGED <<leaseVars, inFlight, activeCallbacks>>
<1>1. CASE CallerStep(p)
  BY <1>1 DEF CallerStep, Start, Build, StartCheck, FactoryCall, FactoryReturn, AdmitConstruction,
       RetireUnadmitted, RetireUnadmittedWait, RetireUnadmittedFail, FinishConstruction,
       CancelConstructions, CancelWait, CancelFail, LockOperation, Retire, StopNothing,
       Withdraw, Drain, DrainCheck, CloseGeneration, CloseGenerationWait,
       CloseGenerationFail, ReplaceLate, Unfence, ReplaceRegister, RequestClose,
       AwaitClosed, genVars
<1>2. CASE OutsideStep(c)
  BY <1>2 DEF OutsideStep, CallerCancel, RequestConstructionCancel, AdapterCloses, genVars
<1> QED
  BY <1>1, <1>2

\* A lease changes nothing of the lifecycle.
LEMMA LeasesKeepRuntime ==
  ASSUME NEW l, Lease(l)
  PROVE  UNCHANGED <<runtimeVars, callerVars, buildVars, adapterVars, accepting>>
  BY DEF Lease, Admit, Invoke, InvokeClaim, CallbackReturns, FinishInvocation, Release,
     ReleaseGeneration, genVars

\* A construction that is given out is one that was never used.
LEMMA NewConstruction ==
  ASSUME TypeOK, OwnershipInv, NEW p, NEW a, NEW b, Register(p, a, b)
  PROVE  /\ constructionSeq + 1 \in Ids /\ constructionSeq' = constructionSeq + 1
         /\ state[constructionSeq + 1] = "unused"
         /\ state' = [state EXCEPT ![constructionSeq + 1] = "provisional"]
         /\ \A c \in Ids : ~Provisional(c)
         /\ current = 0 /\ ~quarantined /\ retiring = a
<1>1. constructionSeq + 1 \in Ids /\ constructionSeq + 1 > constructionSeq
  BY MaxConstructionsAssumption DEF Register, TypeOK, RuntimeType, Ids
<1>2. state[constructionSeq + 1] = "unused"
  BY <1>1 DEF OwnershipInv, FreshInv
<1>3. ~RegisterRefused(a)
  BY DEF Register
<1>4. (\A c \in Ids : ~Provisional(c)) /\ current = 0 /\ ~quarantined /\ retiring = a
  BY <1>3 DEF RegisterRefused, Constructions, Provisional
<1> QED
  BY <1>1, <1>2, <1>4 DEF Register

\* Only admitConstruction admits, and an admitted construction stays admitted.
LEMMA AdmittedStep ==
  ASSUME TypeOK, OwnershipInv, [Next]_vars, NEW c \in Ids
  PROVE  /\ state[c] = "admitted" => state'[c] = "admitted"
         /\ state[c] # "admitted" /\ state'[c] = "admitted"
              => \E p \in Callers : AdmitConstruction(p) /\ Admissible(id[p]) /\ c = id[p]
<1> DEFINE Same == (state[c] = "admitted") <=> (state'[c] = "admitted")
<1>1. ASSUME NEW p \in Callers, Start(p) \/ ReplaceRegister(p) PROVE Same
  <2>1. CASE state' = state
    BY <2>1
  <2>2. CASE Register(p, FALSE, FALSE) \/ Register(p, TRUE, TRUE)
    BY <2>2, NewConstruction DEF TypeOK, BuildType
  <2> QED
    BY <1>1, <2>1, <2>2 DEF Start, ReplaceRegister
<1>2. ASSUME NEW p \in Callers, AdmitConstruction(p), Admissible(id[p])
      PROVE  /\ state[c] = "admitted" => state'[c] = "admitted"
             /\ state[c] # "admitted" /\ state'[c] = "admitted" => c = id[p]
  BY <1>2 DEF AdmitConstruction, TypeOK, BuildType
<1>3. ASSUME NEW p \in Callers, FinishConstruction(p) PROVE Same
  BY <1>3 DEF FinishConstruction, TypeOK, BuildType
<1>4. ASSUME NEW p \in Callers, CancelConstructions(p) PROVE Same
  BY <1>4 DEF CancelConstructions, TypeOK, BuildType
<1>5. ASSUME NEW d \in Ids, RequestConstructionCancel(d) PROVE Same
  BY <1>5 DEF RequestConstructionCancel, TypeOK, BuildType
<1>6. ASSUME NEW p \in Callers, CallerStep(p), ~Start(p), ~ReplaceRegister(p), ~FinishConstruction(p),
             ~CancelConstructions(p), ~(AdmitConstruction(p) /\ Admissible(id[p]))
      PROVE  Same
  <2>1. state' = state
    BY <1>6 DEF CallerStep, Build, StartCheck, FactoryCall, FactoryReturn, AdmitConstruction,
       RetireUnadmitted, RetireUnadmittedWait, RetireUnadmittedFail,
       CancelWait, CancelFail, LockOperation, Retire, StopNothing,
       Withdraw, Drain, DrainCheck, CloseGeneration, CloseGenerationWait,
       CloseGenerationFail, ReplaceLate, Unfence, RequestClose,
       AwaitClosed, buildVars
  <2> QED
    BY <2>1
<1>7. ASSUME NEW d \in Ids, CallerCancel(d) \/ AdapterCloses(d) PROVE Same
  BY <1>7 DEF CallerCancel, AdapterCloses, buildVars
<1>8. ASSUME NEW l \in Leases, Lease(l) PROVE Same
  BY <1>8, LeasesKeepRuntime DEF buildVars
<1>9. ASSUME UNCHANGED vars PROVE Same
  BY <1>9 DEF vars, buildVars
<1> HIDE DEF Same
<1>10. CASE \E p \in Callers : CallerStep(p)
  <2>1. PICK p \in Callers : CallerStep(p)
    BY <1>10
  <2>2. Same \/ (AdmitConstruction(p) /\ Admissible(id[p]))
    BY <2>1, <1>1, <1>3, <1>4, <1>6
  <2> QED
    BY <2>2, <1>2 DEF Same
<1>11. ASSUME NEW d \in Ids, OutsideStep(d) PROVE Same
  BY <1>5, <1>7, <1>11 DEF OutsideStep
<1>12. Same \/ \E p \in Callers : CallerStep(p)
  <2>1. (\E l \in Leases : Lease(l)) => Same
    BY <1>8
  <2>2. (\E d \in Ids : OutsideStep(d)) => Same
    BY <1>11
  <2> QED
    BY <1>9, <2>1, <2>2, NextCases
<1> QED
  BY <1>10, <1>12 DEF Same

-----------------------------------------------------------------------------
(* Leases and the drained channel.                                         *)

\* Leases keep their books: OwedInv is kept by every step.
LEMMA OwedStep ==
  ASSUME TypeOK, OwnershipInv, LeaseInv, OwedInv, [Next]_vars
  PROVE  OwedInv'
<1>0. \A c \in Ids : state[c] = "admitted" => state'[c] = "admitted"
  BY AdmittedStep
<1>1. CASE UNCHANGED leaseVars
  BY <1>0, <1>1 DEF OwedInv, leaseVars, TypeOK, LeaseType
<1>2. ASSUME NEW l \in Leases, Admit(l) PROVE OwedInv'
  <2>1. current \in Ids /\ state[current] = "admitted"
    BY <1>2 DEF Admit, TypeOK, RuntimeType, OwnershipInv, CurrentInv
  <2> QED
    BY <1>2, <2>1 DEF Admit, OwedInv, LeaseInv, TypeOK, LeaseType, buildVars, Ids
<1>3. ASSUME NEW l \in Leases, Invoke(l) \/ InvokeClaim(l) \/ CallbackReturns(l) PROVE OwedInv'
  BY <1>3 DEF Invoke, InvokeClaim, CallbackReturns, OwedInv, LeaseInv, TypeOK, LeaseType, buildVars
<1>4. ASSUME NEW l \in Leases, FinishInvocation(l) PROVE OwedInv'
  BY <1>4 DEF FinishInvocation, OwedInv, LeaseInv, TypeOK, LeaseType, buildVars
<1>5. ASSUME NEW l \in Leases, Release(l) PROVE OwedInv'
  BY <1>5 DEF Release, OwedInv, LeaseInv, TypeOK, LeaseType, buildVars
<1>6. ASSUME NEW l \in Leases, ReleaseGeneration(l) PROVE OwedInv'
  BY <1>6 DEF ReleaseGeneration, OwedInv, LeaseInv, TypeOK, LeaseType, buildVars
<1>7. CASE (\E p \in Callers : CallerStep(p)) \/ (\E c \in Ids : OutsideStep(c))
  BY <1>1, <1>7, CallersKeepLeases
<1>8. CASE UNCHANGED vars
  BY <1>1, <1>8 DEF vars
<1> QED
  BY <1>2, <1>3, <1>4, <1>5, <1>6, <1>7, <1>8, NextCases DEF Lease

\* inFlight and the drained channel follow the leases: DrainAccounting is kept.
LEMMA DrainStep ==
  ASSUME TypeOK, OwnershipInv, LeaseInv, OwedInv, EffectiveInv, DrainAccounting, [Next]_vars
  PROVE  DrainAccounting'
<1> DEFINE Owed(g) == {l \in Leases : leased[l] = g /\ (~released[l] \/ releasing[l])}
           Counted(g) == inFlight[g] = Cardinality(Owed(g))
           Closed(g) == drained[g] = IF state[g] = "admitted" /\ ~accepting[g] /\ inFlight[g] = 0 THEN 1 ELSE 0
<1>0. \A g \in Ids : IsFiniteSet(Owed(g)) /\ Counted(g) /\ Closed(g)
  BY LeasesAssumption, FS_Subset DEF DrainAccounting
<1>01. SUFFICES ASSUME NEW g \in Ids PROVE Counted(g)' /\ Closed(g)'
  BY DEF DrainAccounting
<1>02. /\ accepting \in [Ids -> BOOLEAN] /\ drained \in [Ids -> Nat] /\ inFlight \in [Ids -> Nat]
       /\ leased \in [Leases -> {0} \cup Ids] /\ released \in [Leases -> BOOLEAN]
       /\ releasing \in [Leases -> BOOLEAN]
  BY DEF TypeOK, GenerationType, LeaseType
<1>1. CASE UNCHANGED <<leaseVars, inFlight>>
  <2>1. Owed(g)' = Owed(g) /\ inFlight'[g] = inFlight[g]
    BY <1>1 DEF leaseVars
  <2>2. Counted(g)'
    BY <1>0, <2>1
  <2>3. CASE drained' = drained /\ accepting' = accepting /\ (state[g] = "admitted") = (state'[g] = "admitted")
    BY <1>0, <2>1, <2>2, <2>3
  <2>4. ASSUME NEW p \in Callers, AdmitConstruction(p), Admissible(id[p]) PROVE Closed(g)'
    BY <1>0, <1>02, <2>1, <2>4 DEF AdmitConstruction, Admissible, TypeOK, BuildType
  <2>5. ASSUME NEW p \in Callers, Withdraw(p) PROVE Closed(g)'
    <3>1. current \in Ids /\ state[current] = "admitted" /\ accepting[current]
      BY <2>5 DEF Withdraw, TypeOK, RuntimeType, OwnershipInv, CurrentInv, EffectiveInv
    <3>2. /\ accepting' = [accepting EXCEPT ![current] = FALSE] /\ state' = state
          /\ drained' = [drained EXCEPT ![current] = IF inFlight[current] = 0 THEN @ + 1 ELSE @]
      BY <2>5 DEF Withdraw
    <3>3. CASE g = current
      <4>1. drained[g] = 0 /\ ~accepting'[g] /\ state'[g] = "admitted"
        BY <1>0, <1>02, <3>1, <3>2, <3>3
      <4>2. drained'[g] = IF inFlight[g] = 0 THEN 1 ELSE 0
        BY <1>02, <3>2, <3>3, <4>1
      <4> QED
        BY <2>1, <4>1, <4>2
    <3>4. CASE g # current
      BY <1>0, <1>02, <2>1, <3>2, <3>4
    <3> QED
      BY <3>3, <3>4
  <2>6. ASSUME NEW p \in Callers, CallerStep(p), ~Withdraw(p), ~(AdmitConstruction(p) /\ Admissible(id[p]))
        PROVE  drained' = drained /\ accepting' = accepting
    BY <2>6 DEF CallerStep, Start, Build, StartCheck, FactoryCall, FactoryReturn, AdmitConstruction,
       RetireUnadmitted, RetireUnadmittedWait, RetireUnadmittedFail, FinishConstruction,
       CancelConstructions, CancelWait, CancelFail, LockOperation, Retire, StopNothing,
       Drain, DrainCheck, CloseGeneration, CloseGenerationWait,
       CloseGenerationFail, ReplaceLate, Unfence, ReplaceRegister, RequestClose,
       AwaitClosed, genVars
  <2>7. ASSUME NEW c \in Ids, OutsideStep(c) PROVE drained' = drained /\ accepting' = accepting
    BY <2>7 DEF OutsideStep, CallerCancel, RequestConstructionCancel, AdapterCloses, genVars
  <2>8. ASSUME NEW l \in Leases, Lease(l) PROVE drained' = drained /\ accepting' = accepting
    BY <1>1, <2>8 DEF Lease, Admit, Invoke, InvokeClaim, CallbackReturns, FinishInvocation, Release,
       ReleaseGeneration, genVars, leaseVars, TypeOK, LeaseType
  <2>9. UNCHANGED vars => drained' = drained /\ accepting' = accepting
    BY DEF vars, genVars
  <2>10. CASE \E p \in Callers : Withdraw(p) \/ (AdmitConstruction(p) /\ Admissible(id[p]))
    BY <2>2, <2>4, <2>5, <2>10
  <2>11. CASE ~\E p \in Callers : Withdraw(p) \/ (AdmitConstruction(p) /\ Admissible(id[p]))
    <3>1. drained' = drained /\ accepting' = accepting
      BY <2>6, <2>7, <2>8, <2>9, <2>11, NextCases
    <3>2. (state[g] = "admitted") = (state'[g] = "admitted")
      BY <2>11, AdmittedStep
    <3> QED
      BY <2>3, <3>1, <3>2
  <2> QED
    BY <2>10, <2>11
<1>2. ASSUME NEW l \in Leases, Admit(l) PROVE Counted(g)' /\ Closed(g)'
  <2>1. leased[l] = 0 /\ ~released[l] /\ current \in Ids /\ accepting[current]
    BY <1>2 DEF Admit, OwedInv, TypeOK, RuntimeType
  <2>2. /\ leased' = [leased EXCEPT ![l] = current] /\ released' = released /\ releasing' = releasing
        /\ inFlight' = [inFlight EXCEPT ![current] = @ + 1]
        /\ drained' = drained /\ accepting' = accepting /\ state' = state
    BY <1>2 DEF Admit, buildVars
  <2>3. CASE g = current
    <3>1. Owed(g)' = Owed(g) \cup {l} /\ l \notin Owed(g)
      <4>1. l \notin Owed(g)
        BY <2>1 DEF Ids
      <4>2. leased'[l] = g /\ \A k \in Leases \ {l} : leased'[k] = leased[k]
        BY <1>02, <2>2, <2>3
      <4> QED
        BY <2>1, <2>2, <4>1, <4>2
    <3>2. Cardinality(Owed(g) \cup {l}) = Cardinality(Owed(g)) + 1
      BY <1>0, <3>1, FS_AddElement
    <3> HIDE DEF Owed
    <3>3. inFlight'[g] = inFlight[g] + 1
      BY <1>02, <2>2, <2>3
    <3>4. Counted(g)'
      BY <1>0, <3>1, <3>2, <3>3
    <3>5. Closed(g)'
      BY <1>0, <2>1, <2>2, <2>3
    <3> QED
      BY <3>4, <3>5
  <2>4. CASE g # current
    <3>1. Owed(g)' = Owed(g)
      BY <1>02, <2>1, <2>2, <2>4 DEF Ids
    <3>2. inFlight'[g] = inFlight[g]
      BY <1>02, <2>2, <2>4
    <3> QED
      BY <1>0, <2>2, <3>1, <3>2
  <2> QED
    BY <2>3, <2>4
<1>3. ASSUME NEW l \in Leases, Invoke(l) \/ InvokeClaim(l) \/ CallbackReturns(l) PROVE Counted(g)' /\ Closed(g)'
  <2>1. UNCHANGED <<leased, released, releasing, inFlight, drained, accepting, state>>
    BY <1>3 DEF Invoke, InvokeClaim, CallbackReturns, genVars, buildVars
  <2>2. Owed(g)' = Owed(g)
    BY <2>1
  <2> QED
    BY <1>0, <2>1, <2>2
<1>4. ASSUME NEW l \in Leases, FinishInvocation(l) \/ Release(l) PROVE Counted(g)' /\ Closed(g)'
  <2>1. UNCHANGED <<leased, inFlight, drained, accepting, state>>
    BY <1>4 DEF FinishInvocation, Release, genVars, buildVars
  <2>2. Owed(g)' = Owed(g)
    <3>1. ASSUME FinishInvocation(l) PROVE Owed(g)' = Owed(g)
      BY <1>02, <2>1, <3>1 DEF FinishInvocation, OwedInv
    <3>2. ASSUME Release(l) PROVE Owed(g)' = Owed(g)
      BY <1>02, <2>1, <3>2 DEF Release
    <3> QED
      BY <1>4, <3>1, <3>2
  <2> QED
    BY <1>0, <2>1, <2>2
<1>5. ASSUME NEW l \in Leases, ReleaseGeneration(l) PROVE Counted(g)' /\ Closed(g)'
  <2>1. released[l] /\ releasing[l] /\ leased[l] \in Ids /\ state[leased[l]] = "admitted"
    BY <1>5 DEF ReleaseGeneration, OwedInv, TypeOK, LeaseType
  <2>2. /\ leased' = leased /\ released' = released /\ releasing' = [releasing EXCEPT ![l] = FALSE]
        /\ accepting' = accepting /\ state' = state
        /\ inFlight' = [inFlight EXCEPT ![leased[l]] = IF @ > 0 THEN @ - 1 ELSE @]
        /\ drained' = [drained EXCEPT ![leased[l]] =
                         IF inFlight[leased[l]] = 1 /\ ~accepting[leased[l]] THEN @ + 1 ELSE @]
    BY <1>5 DEF ReleaseGeneration, buildVars
  <2>3. CASE g = leased[l]
    <3>1. l \in Owed(g) /\ Owed(g)' = Owed(g) \ {l}
      BY <1>02, <2>1, <2>2, <2>3
    <3>2. Cardinality(Owed(g) \ {l}) = Cardinality(Owed(g)) - 1 /\ Cardinality(Owed(g)) \in Nat
      BY <1>0, <3>1, FS_RemoveElement, FS_CardinalityType
    <3>3. Cardinality(Owed(g)) # 0
      BY <1>0, <3>1, FS_EmptySet
    <3> HIDE DEF Owed
    <3>4. inFlight[g] > 0 /\ inFlight'[g] = inFlight[g] - 1
      BY <1>0, <1>02, <2>2, <2>3, <3>2, <3>3
    <3>5. Counted(g)'
      BY <1>0, <3>1, <3>2, <3>4
    <3>6. Closed(g)'
      BY <1>0, <1>02, <2>1, <2>2, <2>3, <3>4
    <3> QED
      BY <3>5, <3>6
  <2>4. CASE g # leased[l]
    <3>1. Owed(g)' = Owed(g)
      BY <1>02, <2>2, <2>4
    <3>2. inFlight'[g] = inFlight[g] /\ drained'[g] = drained[g]
      BY <1>02, <2>2, <2>4
    <3> QED
      BY <1>0, <2>2, <3>1, <3>2
  <2> QED
    BY <2>3, <2>4
<1>6. CASE (\E p \in Callers : CallerStep(p)) \/ (\E c \in Ids : OutsideStep(c)) \/ UNCHANGED vars
  BY <1>1, <1>6, CallersKeepLeases DEF vars, genVars
<1> QED
  BY <1>2, <1>3, <1>4, <1>5, <1>6, NextCases DEF Lease

-----------------------------------------------------------------------------
(* The effective generation and close requests.                            *)

\* A caller that builds keeps every generation out of effect until it admits one.
LEMMA Building ==
  ASSUME TypeOK, OwnershipInv, NEW p \in Callers, pc[p] \in BuildPcs, pc[p] # "finish"
  PROVE  id[p] \in Ids /\ Provisional(id[p]) /\ current = 0 /\ state[id[p]] # "admitted"
<1>1. id[p] \in Ids /\ Provisional(id[p])
  BY DEF OwnershipInv, BuildInv, BuildStep
<1> QED
  BY <1>1 DEF OwnershipInv, ConstructionInv, Provisional

\* A caller that stops a generation has taken it out of effect.
LEMMA Closing ==
  ASSUME TypeOK, OwnershipInv, NEW p \in Callers, pc[p] \in StopPcs
  PROVE  id[p] \in Ids /\ state[id[p]] = "admitted" /\ current = 0 /\ retiring /\ operationMu = p
  BY DEF OwnershipInv, StopInv, LockInv, LockPcs

LEMMA EffectiveStep ==
  ASSUME TypeOK, OwnershipInv, EffectiveInv, RequestInv, [Next]_vars
  PROVE  EffectiveInv'
<1>0. ctxDone \in [Ids -> BOOLEAN] /\ closeRequests \in [Ids -> Nat] /\ state \in [Ids -> States]
  BY DEF TypeOK, BuildType
<1>1. CASE current' = 0
  BY <1>1 DEF EffectiveInv
<1>2. CASE UNCHANGED <<current, accepting, ctxDone, closeRequests>>
  BY <1>2 DEF EffectiveInv
<1>3. ASSUME NEW p \in Callers, StartCheck(p) \/ FactoryReturn(p) \/ RetireUnadmitted(p) PROVE current' = 0
  <2>1. pc[p] \in {"check", "build", "retire"} /\ current' = current
    BY <1>3 DEF StartCheck, FactoryReturn, RetireUnadmitted, RequestClose, runtimeVars
  <2> QED
    BY <2>1, Building DEF BuildPcs
<1>4. ASSUME NEW p \in Callers, CloseGeneration(p) PROVE current' = 0
  <2>1. pc[p] = "close" /\ current' = current
    BY <1>4 DEF CloseGeneration, RequestClose, runtimeVars
  <2> QED
    BY <2>1, Closing DEF StopPcs
<1>5. ASSUME NEW p \in Callers, AdmitConstruction(p) PROVE EffectiveInv'
  <2>1. CASE Admissible(id[p])
    <3>1. id[p] \in Ids /\ ~ctxDone[id[p]] /\ closeRequests[id[p]] = 0
      BY <1>5, <2>1, Building DEF AdmitConstruction, Admissible, RequestInv, BuildPcs
    <3>2. current' = id[p] /\ accepting' = [accepting EXCEPT ![id[p]] = TRUE] /\ UNCHANGED <<ctxDone, closeRequests>>
      BY <1>5, <2>1 DEF AdmitConstruction, adapterVars
    <3> QED
      BY <3>1, <3>2 DEF EffectiveInv, TypeOK, GenerationType
  <2>2. CASE ~Admissible(id[p])
    BY <1>2, <1>5, <2>2 DEF AdmitConstruction, adapterVars
  <2> QED
    BY <2>1, <2>2
<1>6. ASSUME NEW p \in Callers, Withdraw(p) PROVE current' = 0
  BY <1>6 DEF Withdraw
<1>7. ASSUME NEW p \in Callers, CancelConstructions(p) PROVE EffectiveInv'
  <2>1. UNCHANGED <<current, accepting, closeRequests>> /\ \A c \in Ids : state[c] = "admitted" => ctxDone'[c] = ctxDone[c]
    BY <1>0, <1>7 DEF CancelConstructions, runtimeVars, genVars, adapterVars
  <2> QED
    BY <2>1 DEF EffectiveInv, OwnershipInv, CurrentInv, TypeOK, RuntimeType
<1>8. ASSUME NEW d \in Ids, RequestConstructionCancel(d) PROVE EffectiveInv'
  <2>1. UNCHANGED <<current, accepting, closeRequests>> /\ \A c \in Ids : state[c] = "admitted" => ctxDone'[c] = ctxDone[c]
    BY <1>0, <1>8 DEF RequestConstructionCancel, runtimeVars, genVars, adapterVars
  <2> QED
    BY <2>1 DEF EffectiveInv, OwnershipInv, CurrentInv, TypeOK, RuntimeType
<1>9. ASSUME NEW p \in Callers,
             \/ Start(p) \/ FactoryCall(p) \/ RetireUnadmittedWait(p) \/ RetireUnadmittedFail(p)
             \/ FinishConstruction(p) \/ CancelWait(p) \/ CancelFail(p) \/ LockOperation(p)
             \/ StopNothing(p) \/ Drain(p) \/ DrainCheck(p) \/ CloseGenerationWait(p)
             \/ CloseGenerationFail(p) \/ ReplaceLate(p) \/ Unfence(p) \/ ReplaceRegister(p)
      PROVE  UNCHANGED <<current, accepting, ctxDone, closeRequests>>
  BY <1>9 DEF Start, FactoryCall, RetireUnadmittedWait, RetireUnadmittedFail, FinishConstruction,
       CancelWait, CancelFail, LockOperation, StopNothing, Drain, DrainCheck, CloseGenerationWait,
       CloseGenerationFail, ReplaceLate, Unfence, ReplaceRegister, Quarantine, AwaitClosed,
       runtimeVars, genVars, adapterVars, buildVars
<1>10. ASSUME NEW d \in Ids, CallerCancel(d) \/ AdapterCloses(d)
       PROVE  UNCHANGED <<current, accepting, ctxDone, closeRequests>>
  BY <1>10 DEF CallerCancel, AdapterCloses, runtimeVars, genVars, adapterVars, buildVars
<1>11. ASSUME NEW l \in Leases, Lease(l) PROVE UNCHANGED <<current, accepting, ctxDone, closeRequests>>
  BY <1>11, LeasesKeepRuntime DEF runtimeVars, adapterVars, buildVars
<1>12. UNCHANGED vars => UNCHANGED <<current, accepting, ctxDone, closeRequests>>
  BY DEF vars, runtimeVars, genVars, adapterVars, buildVars
<1>13. ASSUME NEW p \in Callers, CallerStep(p) PROVE EffectiveInv'
  BY <1>1, <1>2, <1>3, <1>4, <1>5, <1>6, <1>7, <1>9, <1>13 DEF CallerStep, Build, Retire
<1>14. ASSUME NEW d \in Ids, OutsideStep(d) PROVE EffectiveInv'
  BY <1>2, <1>8, <1>10, <1>14 DEF OutsideStep
<1> QED
  BY <1>2, <1>11, <1>12, <1>13, <1>14, NextCases

LEMMA RequestStep ==
  ASSUME TypeOK, OwnershipInv, RequestInv, [Next]_vars
  PROVE  RequestInv'
<1> DEFINE Early == {"check", "factory", "build", "admit"}
           Fresh == \A c \in Ids : c > constructionSeq => closeRequests[c] = 0
           Unasked(q) == pc[q] \in Early => closeRequests[id[q]] = 0
           Opened(q) == pc[q] = "build" => adapter[id[q]] = "building"
<1>0. /\ Fresh /\ \A q \in Callers : Unasked(q) /\ Opened(q)
      /\ closeRequests \in [Ids -> Nat] /\ pc \in [Callers -> Pcs] /\ id \in [Callers -> {0} \cup Ids]
      /\ adapter \in [Ids -> AdapterStates] /\ constructionSeq \in Nat
  BY MaxConstructionsAssumption DEF RequestInv, TypeOK, BuildType, CallerType, RuntimeType
<1>01. SUFFICES Fresh' /\ \A q \in Callers : Unasked(q)' /\ Opened(q)'
  BY DEF RequestInv
<1>1. CASE UNCHANGED <<constructionSeq, closeRequests, adapter>> /\
           \A q \in Callers : /\ pc'[q] \in Early => pc[q] \in Early /\ id'[q] = id[q]
                              /\ pc'[q] = "build" => pc[q] = "build"
  BY <1>0, <1>1
<1>2. ASSUME NEW p \in Callers, NEW a, NEW b, Register(p, a, b), pc' = [pc EXCEPT ![p] = "check"],
             UNCHANGED <<closeRequests, adapter>>
      PROVE  Fresh' /\ \A q \in Callers : Unasked(q)' /\ Opened(q)'
  <2>1. constructionSeq' = constructionSeq + 1 /\ constructionSeq + 1 \in Ids /\ id' = [id EXCEPT ![p] = constructionSeq + 1]
    BY <1>2, NewConstruction DEF Register
  <2>2. closeRequests[constructionSeq + 1] = 0
    BY <1>0, <2>1 DEF Ids
  <2>3. Fresh'
    BY <1>0, <1>2, <2>1 DEF Ids
  <2>4. \A q \in Callers : Unasked(q)' /\ Opened(q)'
    BY <1>0, <1>2, <2>1, <2>2
  <2> QED
    BY <2>3, <2>4
<1>3. ASSUME NEW p \in Callers, RetireUnadmitted(p) \/ CloseGeneration(p)
      PROVE  Fresh' /\ \A q \in Callers : Unasked(q)' /\ Opened(q)'
  <2>1. pc[p] \in {"retire", "close"} /\ constructionSeq' = constructionSeq /\ id' = id
    BY <1>3 DEF RetireUnadmitted, CloseGeneration, RequestClose, runtimeVars
  <2>2. \A c \in Ids : c # id[p] => closeRequests'[c] = closeRequests[c] /\ adapter'[c] = adapter[c]
    BY <1>0, <1>3 DEF RetireUnadmitted, CloseGeneration, RequestClose, adapterVars
  <2>3. PICK x \in {"retireWait", "retireFail", "closeWait", "closeFail"} : pc' = [pc EXCEPT ![p] = x]
    BY <1>3 DEF RetireUnadmitted, CloseGeneration, RequestClose, Goto
  <2>4. id[p] \in Ids /\ ~(id[p] > constructionSeq)
    BY <2>1, Building, Closing DEF BuildPcs, StopPcs, OwnershipInv, FreshInv, Provisional
  <2>5. ASSUME NEW q \in Callers, pc'[q] \in Early PROVE q # p /\ pc[q] \in Early /\ id[q] \in Ids /\ id[q] # id[p]
    <3>1. q # p /\ pc[q] \in Early
      BY <1>0, <2>3, <2>5
    <3>2. id[q] \in Ids /\ Provisional(id[q])
      BY <3>1, Building DEF BuildPcs
    <3>3. CASE pc[p] = "retire"
      BY <3>1, <3>2, <3>3 DEF OwnershipInv, DistinctInv, BuildPcs
    <3>4. CASE pc[p] = "close"
      BY <3>1, <3>2, <3>4, Closing DEF StopPcs, Provisional
    <3> QED
      BY <2>1, <3>1, <3>2, <3>3, <3>4
  <2>6. Fresh'
    BY <1>0, <2>1, <2>2, <2>4
  <2>7. \A q \in Callers : Unasked(q)' /\ Opened(q)'
    BY <1>0, <2>1, <2>2, <2>5, <2>3
  <2> QED
    BY <2>6, <2>7
<1>4. ASSUME NEW p \in Callers, FactoryCall(p)
      PROVE  Fresh' /\ \A q \in Callers : Unasked(q)' /\ Opened(q)'
  <2>1. pc[p] = "factory" /\ pc' = [pc EXCEPT ![p] = "build"] /\ adapter' = [adapter EXCEPT ![id[p]] = "building"]
        /\ UNCHANGED <<id, closeRequests, constructionSeq>>
    BY <1>4 DEF FactoryCall, Goto, runtimeVars
  <2>2. id[p] \in Ids
    BY <2>1, Building DEF BuildPcs
  <2> QED
    BY <1>0, <2>1, <2>2
<1>5. ASSUME NEW p \in Callers, FactoryReturn(p)
      PROVE  Fresh' /\ \A q \in Callers : Unasked(q)' /\ Opened(q)'
  <2>1. /\ pc[p] = "build" /\ UNCHANGED <<id, closeRequests, constructionSeq>>
        /\ \A c \in Ids : c # id[p] => adapter'[c] = adapter[c]
    BY <1>0, <1>5 DEF FactoryReturn, runtimeVars
  <2>2. PICK x \in {"finish", "retire", "retireFail", "admit"} : pc' = [pc EXCEPT ![p] = x]
    BY <1>5 DEF FactoryReturn, Goto
  <2>3. ASSUME NEW q \in Callers, pc'[q] = "build" PROVE q # p /\ pc[q] = "build" /\ id[q] \in Ids /\ id[q] # id[p]
    <3>1. q # p /\ pc[q] = "build"
      BY <1>0, <2>2, <2>3
    <3> QED
      BY <2>1, <3>1, Building DEF BuildPcs, OwnershipInv, DistinctInv
  <2> QED
    BY <1>0, <2>1, <2>2, <2>3
<1>6. ASSUME NEW d \in Ids, AdapterCloses(d)
      PROVE  Fresh' /\ \A q \in Callers : Unasked(q)' /\ Opened(q)'
  BY <1>0, <1>6 DEF AdapterCloses, runtimeVars, callerVars
<1>7. ASSUME NEW p \in Callers, StartCheck(p) \/ AdmitConstruction(p)
      PROVE  Fresh' /\ \A q \in Callers : Unasked(q)' /\ Opened(q)'
  <2>1. pc[p] \in Early /\ UNCHANGED <<id, closeRequests, constructionSeq, adapter>>
    BY <1>7 DEF StartCheck, AdmitConstruction, runtimeVars, adapterVars
  <2>2. PICK x \in {"factory", "finish", "retire"} : pc' = [pc EXCEPT ![p] = x]
    BY <1>7 DEF StartCheck, AdmitConstruction, Goto
  <2> QED
    BY <1>0, <2>1, <2>2
<1>8. ASSUME NEW p \in Callers, Start(p) \/ ReplaceRegister(p)
      PROVE  Fresh' /\ \A q \in Callers : Unasked(q)' /\ Opened(q)'
  <2>1. CASE Start(p)
    BY <1>2, <2>1 DEF Start, Goto, adapterVars
  <2>2. CASE ReplaceRegister(p) /\ ~RegisterRefused(TRUE)
    BY <1>2, <2>2 DEF ReplaceRegister, Goto, adapterVars
  <2>3. CASE ReplaceRegister(p) /\ RegisterRefused(TRUE)
    <3>1. UNCHANGED <<constructionSeq, closeRequests, adapter>> /\ pc' = [pc EXCEPT ![p] = "idle"]
          /\ id' = [id EXCEPT ![p] = 0]
      BY <2>3 DEF ReplaceRegister, Register, Return, Leave, Goto, adapterVars
    <3> QED
      BY <1>0, <3>1
  <2> QED
    BY <1>8, <2>1, <2>2, <2>3
<1>9. ASSUME NEW p \in Callers,
             \/ RetireUnadmittedWait(p) \/ RetireUnadmittedFail(p)
             \/ FinishConstruction(p) \/ CancelConstructions(p) \/ CancelWait(p) \/ CancelFail(p) \/ LockOperation(p)
             \/ StopNothing(p) \/ Withdraw(p) \/ Drain(p) \/ DrainCheck(p) \/ CloseGenerationWait(p)
             \/ CloseGenerationFail(p) \/ ReplaceLate(p) \/ Unfence(p)
      PROVE  Fresh' /\ \A q \in Callers : Unasked(q)' /\ Opened(q)'
  <2>1. UNCHANGED <<constructionSeq, closeRequests, adapter>>
    BY <1>9 DEF RetireUnadmittedWait, RetireUnadmittedFail, FinishConstruction, CancelConstructions,
       CancelWait, CancelFail, LockOperation, StopNothing, Withdraw, Drain, DrainCheck, CloseGenerationWait,
       CloseGenerationFail, ReplaceLate, Unfence, Quarantine, AwaitClosed, runtimeVars, adapterVars
  <2>2. \E x \in Pcs \ Early : pc' = [pc EXCEPT ![p] = x]
    BY <1>9 DEF RetireUnadmittedWait, RetireUnadmittedFail, FinishConstruction, CancelConstructions,
       CancelWait, CancelFail, LockOperation, StopNothing, Withdraw, Drain, DrainCheck, CloseGenerationWait,
       CloseGenerationFail, ReplaceLate, Unfence, AwaitClosed, Return, Leave, Goto, Pcs, BuildPcs, LockPcs, StopPcs
  <2>3. \A q \in Callers : q # p => id'[q] = id[q]
    BY <1>0, <1>9 DEF RetireUnadmittedWait, RetireUnadmittedFail, FinishConstruction, CancelConstructions,
       CancelWait, CancelFail, LockOperation, StopNothing, Withdraw, Drain, DrainCheck, CloseGenerationWait,
       CloseGenerationFail, ReplaceLate, Unfence, AwaitClosed, Return, Leave
  <2> QED
    BY <1>0, <1>1, <2>1, <2>2, <2>3
<1>10. ASSUME NEW d \in Ids, CallerCancel(d) \/ RequestConstructionCancel(d)
       PROVE  Fresh' /\ \A q \in Callers : Unasked(q)' /\ Opened(q)'
  BY <1>0, <1>10 DEF CallerCancel, RequestConstructionCancel, runtimeVars, callerVars, adapterVars
<1>11. ASSUME NEW l \in Leases, Lease(l)
       PROVE  Fresh' /\ \A q \in Callers : Unasked(q)' /\ Opened(q)'
  <2>1. UNCHANGED <<constructionSeq, closeRequests, adapter, pc, id>>
    BY <1>11, LeasesKeepRuntime DEF runtimeVars, callerVars, adapterVars
  <2> QED
    BY <1>0, <2>1
<1>12. CASE UNCHANGED vars
  <2>1. UNCHANGED <<constructionSeq, closeRequests, adapter, pc, id>>
    BY <1>12 DEF vars, runtimeVars, callerVars, adapterVars
  <2> QED
    BY <1>0, <2>1
<1> HIDE DEF Fresh, Unasked, Opened
<1>13. ASSUME NEW p \in Callers, CallerStep(p) PROVE Fresh' /\ \A q \in Callers : Unasked(q)' /\ Opened(q)'
  BY <1>3, <1>4, <1>5, <1>7, <1>8, <1>9, <1>13 DEF CallerStep, Build, Retire
<1>14. ASSUME NEW d \in Ids, OutsideStep(d) PROVE Fresh' /\ \A q \in Callers : Unasked(q)' /\ Opened(q)'
  BY <1>6, <1>10, <1>14 DEF OutsideStep
<1> QED
  BY <1>11, <1>12, <1>13, <1>14, NextCases

-----------------------------------------------------------------------------
(* Callbacks and the bus.                                                  *)

\* A generation whose drained channel is closed has no callback running.
LEMMA DrainedIsQuiet ==
  ASSUME TypeOK, CallbackCount, OwedInv, DrainAccounting, NEW g \in Ids, drained[g] > 0
  PROVE  activeCallbacks[g] = 0
<1> DEFINE Running == {l \in Leases : lpc[l] = "callback" /\ leased[l] = g}
           Owed == {l \in Leases : leased[l] = g /\ (~released[l] \/ releasing[l])}
<1>1. inFlight[g] = Cardinality(Owed) /\ inFlight[g] = 0
  BY DEF DrainAccounting
<1>2. Owed = {}
  BY <1>1, LeasesAssumption, FS_Subset, FS_EmptySet
<1>3. Running \subseteq Owed
  BY DEF OwedInv
<1>4. activeCallbacks[g] = Cardinality(Running)
  BY DEF CallbackCount
<1> QED
  BY <1>2, <1>3, <1>4, FS_EmptySet

\* Only a claim adds a callback.
LEMMA CallbackStarts ==
  ASSUME TypeOK, [Next]_vars, NEW g \in Ids
  PROVE  \/ activeCallbacks'[g] <= activeCallbacks[g]
         \/ \E l \in Leases : InvokeClaim(l) /\ Effective(l) /\ g = leased[l]
<1>0. activeCallbacks \in [Ids -> Nat]
  BY DEF TypeOK, GenerationType
<1>1. ASSUME NEW l \in Leases, Lease(l), ~(InvokeClaim(l) /\ Effective(l) /\ g = leased[l])
      PROVE  activeCallbacks'[g] <= activeCallbacks[g]
  <2>1. CASE InvokeClaim(l)
    BY <1>0, <1>1, <2>1 DEF InvokeClaim
  <2>2. CASE CallbackReturns(l)
    BY <1>0, <2>2 DEF CallbackReturns
  <2>3. CASE Admit(l) \/ Invoke(l) \/ FinishInvocation(l) \/ Release(l) \/ ReleaseGeneration(l)
    <3>1. activeCallbacks' = activeCallbacks
      BY <2>3 DEF Admit, Invoke, FinishInvocation, Release, ReleaseGeneration, genVars
    <3> QED
      BY <1>0, <3>1
  <2> QED
    BY <1>1, <2>1, <2>2, <2>3 DEF Lease
<1>2. CASE activeCallbacks' = activeCallbacks
  BY <1>0, <1>2
<1>3. (\E p \in Callers : CallerStep(p)) \/ (\E c \in Ids : OutsideStep(c)) => activeCallbacks' = activeCallbacks
  BY CallersKeepLeases
<1>4. UNCHANGED vars => activeCallbacks' = activeCallbacks
  BY DEF vars, genVars
<1> QED
  BY <1>1, <1>2, <1>3, <1>4, NextCases

LEMMA QuietStep ==
  ASSUME TypeOK, OwnershipInv, CallbackCount, OwedInv, DrainAccounting, QuietInv, TypeOK', [Next]_vars
  PROVE  QuietInv'
<1> SUFFICES ASSUME NEW q \in Callers, pc'[q] = "close" PROVE activeCallbacks'[id'[q]] = 0
  BY DEF QuietInv
<1>0. pc \in [Callers -> Pcs] /\ id \in [Callers -> {0} \cup Ids] /\ activeCallbacks \in [Ids -> Nat] /\ activeCallbacks' \in [Ids -> Nat]
  BY DEF TypeOK, CallerType, GenerationType
<1>1. ASSUME NEW p \in Callers, CallerStep(p) PROVE activeCallbacks'[id'[q]] = 0
  <2>1. activeCallbacks' = activeCallbacks
    BY <1>1, CallersKeepLeases
  <2>2. CASE pc[q] = "close" /\ id'[q] = id[q]
    BY <2>1, <2>2 DEF QuietInv
  <2>3. CASE Drain(p) /\ p = q
    <3>1. pc[q] = "drain" /\ id' = id /\ drained[id[q]] > 0
      BY <1>0, <2>3 DEF Drain, Goto
    <3> QED
      BY <2>1, <3>1, DrainedIsQuiet, Closing DEF StopPcs
  <2>4. CASE DrainCheck(p) /\ p = q
    <3>1. pc[q] = "drainCheck" /\ id' = id /\ ~(activeCallbacks[id[q]] > 0)
      BY <1>0, <2>4 DEF DrainCheck, Goto
    <3>2. id[q] \in Ids
      BY <3>1, Closing DEF StopPcs
    <3> QED
      BY <1>0, <2>1, <3>1, <3>2
  <2>5. CASE Withdraw(p) /\ p = q
    BY <1>0, <2>5 DEF Withdraw, Goto
  <2>6. CASE p # q
    <3>1. pc'[q] = pc[q] /\ id'[q] = id[q]
      BY <1>0, <1>1, <2>6 DEF CallerStep, Start, Build, StartCheck, FactoryCall, FactoryReturn, AdmitConstruction,
       RetireUnadmitted, RetireUnadmittedWait, RetireUnadmittedFail, FinishConstruction,
       CancelConstructions, CancelWait, CancelFail, LockOperation, Retire, StopNothing,
       Withdraw, Drain, DrainCheck, CloseGeneration, CloseGenerationWait,
       CloseGenerationFail, ReplaceLate, Unfence, ReplaceRegister, RequestClose, Register,
       AwaitClosed, Return, Leave, Goto
    <3> QED
      BY <2>2, <3>1
  <2>7. CASE p = q /\ ~Drain(p) /\ ~DrainCheck(p) /\ ~Withdraw(p)
    <3>1. pc'[q] # "close"
      BY <1>0, <1>1, <2>7 DEF CallerStep, Start, Build, StartCheck, FactoryCall, FactoryReturn, AdmitConstruction,
       RetireUnadmitted, RetireUnadmittedWait, RetireUnadmittedFail, FinishConstruction,
       CancelConstructions, CancelWait, CancelFail, LockOperation, Retire, StopNothing,
       CloseGeneration, CloseGenerationWait,
       CloseGenerationFail, ReplaceLate, Unfence, ReplaceRegister, RequestClose,
       AwaitClosed, Return, Leave, Goto
    <3> QED
      BY <3>1
  <2> QED
    BY <2>3, <2>4, <2>5, <2>6, <2>7
<1>2. CASE UNCHANGED <<pc, id>>
  <2>1. pc[q] = "close" /\ id'[q] = id[q] /\ activeCallbacks[id[q]] = 0
    BY <1>2 DEF QuietInv
  <2>2. id[q] \in Ids /\ current = 0
    BY <2>1, Closing DEF StopPcs
  <2>3. ~\E l \in Leases : InvokeClaim(l) /\ Effective(l) /\ id[q] = leased[l]
    BY <2>2 DEF Effective, Ids
  <2> QED
    BY <1>0, <2>1, <2>2, <2>3, CallbackStarts
<1>3. ASSUME NEW c \in Ids, OutsideStep(c) PROVE UNCHANGED <<pc, id>>
  BY <1>3 DEF OutsideStep, CallerCancel, RequestConstructionCancel, AdapterCloses, callerVars
<1>4. ASSUME NEW l \in Leases, Lease(l) PROVE UNCHANGED <<pc, id>>
  BY <1>4, LeasesKeepRuntime DEF callerVars
<1>5. UNCHANGED vars => UNCHANGED <<pc, id>>
  BY DEF vars, callerVars
<1> QED
  BY <1>1, <1>2, <1>3, <1>4, <1>5, NextCases

\* While a callback runs no construction is under way and none can be reserved.
LEMMA CallbackKeepsOut ==
  ASSUME TypeOK, OwnershipInv, CallbackInv, NEW g \in Ids, activeCallbacks[g] > 0, NEW p \in Callers
  PROVE  /\ pc[p] \in BuildPcs => pc[p] = "finish"
         /\ ~Register(p, FALSE, FALSE)
         /\ pc[p] = "register" => ~Register(p, TRUE, TRUE)
<1>1. (\A h \in Ids : ~Provisional(h)) /\ (g = current \/ quarantined \/ Draining(g))
  BY DEF CallbackInv
<1>2. pc[p] \in BuildPcs => pc[p] = "finish"
  BY <1>1, Building
<1>3. CASE g = current \/ quarantined
  <2>1. quarantined \/ current # 0
    BY <1>3 DEF Ids
  <2>2. ~Register(p, FALSE, FALSE) /\ ~Register(p, TRUE, TRUE)
    BY <2>1, NewConstruction
  <2> QED
    BY <1>2, <2>2
<1>4. CASE Draining(g)
  <2>1. operationMu \in Callers /\ pc[operationMu] \in StopPcs
    BY <1>4 DEF Draining, Stopping
  <2>2. retiring
    BY <2>1, Closing
  <2>3. pc[p] # "register"
    BY <2>1 DEF OwnershipInv, LockInv, LockPcs, StopPcs
  <2> QED
    BY <1>2, <2>2, <2>3, NewConstruction
<1> QED
  BY <1>1, <1>3, <1>4

\* The bus stays with the generation of a running callback.
LEMMA CallbackInvStep ==
  ASSUME TypeOK, OwnershipInv, CallbackCount, OwedInv, DrainAccounting, EffectiveInv, RequestInv, QuietInv,
         CallbackInv, TypeOK', [Next]_vars
  PROVE  CallbackInv'
<1> SUFFICES ASSUME NEW g \in Ids, activeCallbacks'[g] > 0
             PROVE  /\ state'[g] = "admitted"
                    /\ g = current' \/ quarantined' \/ Draining(g)'
                    /\ closeRequests'[g] = 0
                    /\ current' \in {0, g}
                    /\ \A h \in Ids : ~Provisional(h)' /\ (Owning(h)' => h = g)
  BY DEF CallbackInv
<1>0. /\ pc \in [Callers -> Pcs] /\ id \in [Callers -> {0} \cup Ids] /\ activeCallbacks \in [Ids -> Nat]
      /\ activeCallbacks'[g] \in Nat /\ state \in [Ids -> States] /\ closeRequests \in [Ids -> Nat]
      /\ adapter \in [Ids -> AdapterStates]
  BY DEF TypeOK, CallerType, GenerationType, BuildType
<1>1. ASSUME NEW l \in Leases, InvokeClaim(l), Effective(l), g = leased[l]
      PROVE  /\ state[g] = "admitted" /\ g = current /\ closeRequests[g] = 0
             /\ \A h \in Ids : ~Provisional(h) /\ (Owning(h) => h = g)
  <2>1. g = current /\ g # 0 /\ ~quarantined
    BY <1>1 DEF Effective, Ids
  <2>2. state[g] = "admitted" /\ closeRequests[g] = 0
    BY <2>1 DEF OwnershipInv, CurrentInv, EffectiveInv
  <2>3. \A h \in Ids : ~Provisional(h)
    BY <2>1 DEF OwnershipInv, ConstructionInv
  <2>4. ASSUME NEW h \in Ids, Stopping(h) PROVE FALSE
    BY <2>1, <2>4, Closing DEF Stopping
  <2>5. \A h \in Ids : Owning(h) => h = g
    BY <2>1, <2>3, <2>4 DEF OwnershipInv, OwnerInv
  <2> QED
    BY <2>1, <2>2, <2>3, <2>5
<1>2. CASE \E l \in Leases : InvokeClaim(l) /\ Effective(l) /\ g = leased[l]
  <2>1. UNCHANGED <<state, current, closeRequests, adapter>>
    BY <1>2 DEF InvokeClaim, runtimeVars, buildVars, adapterVars
  <2> QED
    BY <1>1, <1>2, <2>1 DEF Provisional, Owning
<1>3. CASE activeCallbacks'[g] <= activeCallbacks[g]
  <2>0. activeCallbacks[g] > 0
    BY <1>0, <1>3
  <2>1. /\ state[g] = "admitted"
        /\ g = current \/ quarantined \/ Draining(g)
        /\ closeRequests[g] = 0 /\ current \in {0, g}
        /\ \A h \in Ids : ~Provisional(h) /\ (Owning(h) => h = g)
    BY <2>0 DEF CallbackInv
  <2>2. state'[g] = "admitted"
    BY <2>1, AdmittedStep
  <2>3. \A p \in Callers : /\ pc[p] \in BuildPcs => pc[p] = "finish"
                           /\ ~Register(p, FALSE, FALSE)
                           /\ pc[p] = "register" => ~Register(p, TRUE, TRUE)
    BY <2>0, CallbackKeepsOut
  <2>4. ASSUME NEW p \in Callers, Build(p) PROVE FinishConstruction(p)
    BY <2>3, <2>4 DEF Build, StartCheck, FactoryCall, FactoryReturn, AdmitConstruction,
       RetireUnadmitted, RetireUnadmittedWait, RetireUnadmittedFail, BuildPcs
  <2>5. ASSUME NEW p \in Callers, Start(p) PROVE FALSE
    BY <2>3, <2>5 DEF Start
  <2>6. ASSUME NEW p \in Callers, ReplaceRegister(p)
        PROVE  UNCHANGED <<state, current, quarantined, closeRequests, adapter>>
    BY <2>3, <2>6 DEF ReplaceRegister, adapterVars
  <2>7. \A h \in Ids : ~Provisional(h)'
    <3>1. ASSUME NEW h \in Ids, state'[h] = state[h] PROVE ~Provisional(h)'
      BY <2>1, <3>1 DEF Provisional
    <3>2. ASSUME NEW p \in Callers, CallerStep(p), ~CancelConstructions(p), ~FinishConstruction(p) PROVE state' = state
      BY <2>4, <2>5, <2>6, <3>2 DEF CallerStep, CancelWait, CancelFail, LockOperation, Retire, StopNothing,
       Withdraw, Drain, DrainCheck, CloseGeneration, CloseGenerationWait,
       CloseGenerationFail, ReplaceLate, Unfence, RequestClose, AwaitClosed, buildVars
    <3>3. ASSUME NEW p \in Callers, FinishConstruction(p), NEW h \in Ids PROVE ~Provisional(h)'
      BY <1>0, <2>1, <3>3 DEF FinishConstruction, Provisional
    <3>4. ASSUME NEW p \in Callers, CancelConstructions(p), NEW h \in Ids PROVE ~Provisional(h)'
      BY <1>0, <2>1, <3>4 DEF CancelConstructions, Provisional
    <3>5. ASSUME NEW d \in Ids, OutsideStep(d) PROVE state' = state
      BY <2>1, <3>5 DEF OutsideStep, CallerCancel, RequestConstructionCancel, AdapterCloses, Provisional, buildVars
    <3>6. ASSUME NEW l \in Leases, Lease(l) PROVE state' = state
      BY <3>6, LeasesKeepRuntime DEF buildVars
    <3>7. UNCHANGED vars => state' = state
      BY DEF vars, buildVars
    <3> QED
      BY <3>1, <3>2, <3>3, <3>4, <3>5, <3>6, <3>7, NextCases
  <2>8. ASSUME NEW p \in Callers, CloseGeneration(p)
        PROVE  UNCHANGED <<current, quarantined>> /\ closeRequests'[g] = 0
               /\ (\A h \in Ids : Owning(h)' => Owning(h)) /\ quarantined
    <3>1. pc[p] = "close"
      BY <2>8 DEF CloseGeneration
    <3>2. id[p] \in Ids /\ current = 0 /\ operationMu = p
      BY <3>1, Closing DEF StopPcs
    <3>3. id[p] # g
      BY <2>0, <3>1, <3>2 DEF QuietInv
    <3>4. UNCHANGED <<current, quarantined>> /\ closeRequests'[g] = closeRequests[g]
          /\ \A h \in Ids : Owning(h)' => Owning(h)
      BY <1>0, <2>8, <3>2, <3>3 DEF CloseGeneration, RequestClose, Owning, runtimeVars, adapterVars
    <3>5. ~Draining(g) /\ g # current
      BY <3>1, <3>2 DEF Draining, Ids
    <3> QED
      BY <2>1, <3>4, <3>5
  <2>9. closeRequests'[g] = 0 /\ \A h \in Ids : Owning(h)' => Owning(h)
    <3>1. ASSUME NEW p \in Callers, CallerStep(p), ~CloseGeneration(p) PROVE UNCHANGED <<closeRequests, adapter>>
      BY <2>4, <2>5, <2>6, <3>1 DEF CallerStep, FinishConstruction, CancelConstructions, CancelWait, CancelFail,
       LockOperation, Retire, StopNothing,
       Withdraw, Drain, DrainCheck, CloseGenerationWait,
       CloseGenerationFail, ReplaceLate, Unfence, AwaitClosed, adapterVars
    <3>2. CASE UNCHANGED <<closeRequests, adapter>>
      BY <2>1, <3>2 DEF Owning
    <3>3. ASSUME NEW d \in Ids, OutsideStep(d) PROVE closeRequests' = closeRequests /\ \A h \in Ids : Owning(h)' => Owning(h)
      BY <1>0, <3>3 DEF OutsideStep, CallerCancel, RequestConstructionCancel, AdapterCloses, Owning, adapterVars
    <3>4. ASSUME NEW l \in Leases, Lease(l) PROVE UNCHANGED <<closeRequests, adapter>>
      BY <3>4, LeasesKeepRuntime DEF adapterVars
    <3>5. UNCHANGED vars => UNCHANGED <<closeRequests, adapter>>
      BY DEF vars, adapterVars
    <3> QED
      BY <2>1, <2>8, <3>1, <3>2, <3>3, <3>4, <3>5, NextCases
  <2>10. /\ g = current' \/ quarantined' \/ Draining(g)'
         /\ current' \in {0, g}
    <3>1. CASE UNCHANGED <<current, quarantined, operationMu, id, pc>>
      BY <2>1, <3>1 DEF Draining, Stopping
    <3>2. ASSUME NEW p \in Callers, Withdraw(p) PROVE Draining(g)' /\ current' = 0
      <4>1. g = current
        BY <2>1, <3>2 DEF Withdraw
      <4>2. operationMu = p /\ operationMu' = p /\ current' = 0
        BY <3>2 DEF Withdraw, OwnershipInv, LockInv, LockPcs
      <4>3. pc'[p] = "drain" /\ id'[p] = g
        BY <1>0, <3>2, <4>1 DEF Withdraw, Goto
      <4> QED
        BY <4>2, <4>3 DEF Draining, Stopping, StopPcs
    <3>3. ASSUME NEW p \in Callers, Drain(p) \/ DrainCheck(p)
          PROVE  UNCHANGED <<current, quarantined>> /\ (Draining(g) => Draining(g)')
      <4>1. UNCHANGED <<current, quarantined, operationMu, id>> /\ operationMu = p
        BY <3>3 DEF Drain, DrainCheck, runtimeVars, OwnershipInv, LockInv, LockPcs, StopPcs
      <4>2. ASSUME Draining(g) PROVE pc'[p] \in {"drainCheck", "closeFail"}
        <5>1. id[p] = g
          BY <4>1, <4>2 DEF Draining, Stopping
        <5>2. ~(drained[g] > 0)
          BY <2>0, <1>0, DrainedIsQuiet
        <5> QED
          BY <1>0, <2>0, <3>3, <5>1, <5>2 DEF Drain, DrainCheck, Goto
      <4> QED
        BY <4>1, <4>2 DEF Draining, Stopping, StopPcs
    <3>4. ASSUME NEW p \in Callers, CloseGenerationFail(p) \/ CancelFail(p) PROVE quarantined' /\ current' = current
      BY <3>4 DEF CloseGenerationFail, CancelFail, Quarantine
    <3>5. ASSUME NEW p \in Callers,
                 \/ FinishConstruction(p) \/ CancelConstructions(p) \/ CancelWait(p) \/ LockOperation(p)
                 \/ StopNothing(p) \/ CloseGenerationWait(p) \/ ReplaceLate(p) \/ Unfence(p) \/ ReplaceRegister(p)
          PROVE  UNCHANGED <<current, quarantined>> /\ (Draining(g) => Draining(g)')
      <4>1. UNCHANGED <<current, quarantined>>
        BY <2>6, <3>5 DEF FinishConstruction, CancelConstructions, CancelWait, LockOperation, StopNothing,
           CloseGenerationWait, ReplaceLate, Unfence, AwaitClosed, runtimeVars
      <4>2. ASSUME Draining(g) PROVE operationMu # p /\ operationMu' = operationMu
        <5>1. operationMu \in Callers /\ pc[operationMu] \in {"drain", "drainCheck", "closeFail"}
          BY <4>2 DEF Draining, Stopping
        <5>2. pc[p] \notin {"drain", "drainCheck", "closeFail"}
          BY <3>5 DEF FinishConstruction, CancelConstructions, CancelWait, LockOperation, StopNothing,
           CloseGenerationWait, ReplaceLate, Unfence, ReplaceRegister
        <5>3. operationMu # NoCaller
          BY <5>1, NoCallerAssumption
        <5>4. pc[p] \notin LockPcs
          BY <5>1, <5>2 DEF OwnershipInv, LockInv
        <5>5. operationMu' = operationMu
          BY <3>5, <5>3, <5>4 DEF FinishConstruction, CancelConstructions, CancelWait, LockOperation, StopNothing,
           CloseGenerationWait, ReplaceLate, Unfence, ReplaceRegister, LockPcs, StopPcs
        <5> QED
          BY <5>1, <5>2, <5>5
      <4>3. \A q \in Callers \ {p} : pc'[q] = pc[q] /\ id'[q] = id[q]
        BY <1>0, <3>5 DEF FinishConstruction, CancelConstructions, CancelWait, LockOperation, StopNothing,
           CloseGenerationWait, ReplaceLate, Unfence, ReplaceRegister, Register, AwaitClosed, Return, Leave, Goto
      <4> QED
        BY <4>1, <4>2, <4>3 DEF Draining, Stopping
    <3>6. ASSUME NEW p \in Callers, CallerStep(p) PROVE (g = current' \/ quarantined' \/ Draining(g)') /\ current' \in {0, g}
      BY <2>1, <2>4, <2>5, <2>8, <3>2, <3>3, <3>4, <3>5, <3>6 DEF CallerStep, Retire
    <3>7. ASSUME NEW d \in Ids, OutsideStep(d) PROVE UNCHANGED <<current, quarantined, operationMu, id, pc>>
      BY <3>7 DEF OutsideStep, CallerCancel, RequestConstructionCancel, AdapterCloses, runtimeVars, callerVars
    <3>8. ASSUME NEW l \in Leases, Lease(l) PROVE UNCHANGED <<current, quarantined, operationMu, id, pc>>
      BY <3>8, LeasesKeepRuntime DEF runtimeVars, callerVars
    <3>9. UNCHANGED vars => UNCHANGED <<current, quarantined, operationMu, id, pc>>
      BY DEF vars, runtimeVars, callerVars
    <3>10. CASE \E p \in Callers : CallerStep(p)
      BY <3>6, <3>10
    <3>11. CASE ~\E p \in Callers : CallerStep(p)
      BY <3>1, <3>7, <3>8, <3>9, <3>11, NextCases
    <3> QED
      BY <3>10, <3>11
  <2> QED
    BY <2>1, <2>2, <2>7, <2>9, <2>10
<1> QED
  BY <1>2, <1>3, CallbackStarts

-----------------------------------------------------------------------------
(* The theorems about leases, callbacks and quarantine.                    *)

RuntimeInv == TypeOK /\ OwnershipInv /\ LeaseInv /\ CallbackCount /\ UseInv /\ DrainAccounting

\* NewDriverRuntime establishes the rest of the invariant.
LEMMA InitUse == Init => UseInv /\ DrainAccounting
<1> SUFFICES ASSUME Init PROVE UseInv /\ DrainAccounting
  OBVIOUS
<1>1. OwedInv /\ EffectiveInv /\ CallbackInv
  BY DEF Init, OwedInv, EffectiveInv, CallbackInv
<1>2. RequestInv /\ QuietInv
  BY DEF Init, RequestInv, QuietInv
<1>3. DrainAccounting
  <2>1. \A g \in Ids : {l \in Leases : leased[l] = g /\ (~released[l] \/ releasing[l])} = {}
    BY DEF Init, Ids
  <2>2. \A g \in Ids : inFlight[g] = 0 /\ drained[g] = 0 /\ state[g] # "admitted"
    BY DEF Init
  <2> QED
    BY <2>1, <2>2, FS_EmptySet DEF DrainAccounting
<1> QED
  BY <1>1, <1>2, <1>3 DEF UseInv

LEMMA RuntimeInvHolds == Spec => []RuntimeInv
<1>1. Init => RuntimeInv
  BY InitInv, InitUse DEF RuntimeInv
<1>2. RuntimeInv /\ [Next]_vars => RuntimeInv'
  <2> SUFFICES ASSUME RuntimeInv, [Next]_vars PROVE RuntimeInv'
    OBVIOUS
  <2>1. TypeOK' /\ OwnershipInv' /\ LeaseInv' /\ CallbackCount'
    BY TypeStep, OwnershipStep, CallbackStep DEF RuntimeInv
  <2>2. OwedInv' /\ EffectiveInv' /\ RequestInv' /\ DrainAccounting'
    BY OwedStep, EffectiveStep, RequestStep, DrainStep DEF RuntimeInv, UseInv
  <2>3. QuietInv' /\ CallbackInv'
    BY <2>1, QuietStep, CallbackInvStep DEF RuntimeInv, UseInv
  <2> QED
    BY <2>1, <2>2, <2>3 DEF RuntimeInv, UseInv
<1> QED
  BY <1>1, <1>2, PTL DEF Spec

\* A callback that driverLease.Invoke runs has the bus to itself until it returns,
\* also when Stop or Replace gives up draining it, and no cancellation requested
\* before admission reaches the context of the effective generation.
THEOREM InUseIsFit == Spec => []GenerationInUse
<1>1. RuntimeInv => GenerationInUse
  BY DEF RuntimeInv, UseInv, CallbackInv, EffectiveInv, GenerationInUse, CallbackOwnsBus, EffectiveContextLive
<1> QED
  BY <1>1, RuntimeInvHolds, PTL

\* However Release, the end of a callback and Stop interleave, inFlight is the
\* number of leases that owe releaseGeneration, and the drained channel of a
\* generation is closed once, when it is withdrawn and the last of them returns.
THEOREM DrainIsExact == Spec => []DrainAccounting
<1>1. RuntimeInv => DrainAccounting
  BY DEF RuntimeInv
<1> QED
  BY <1>1, RuntimeInvHolds, PTL

\* quarantine() is for the life of the process: no construction that was under
\* way is admitted after it and no lease that was handed out starts a callback.
THEOREM QuarantineHolds == Spec => QuarantineIsFinal
<1> DEFINE Kept == quarantined => /\ quarantined'
                                  /\ generation' = generation
                                  /\ \A g \in Ids : activeCallbacks'[g] <= activeCallbacks[g]
<1>1. TypeOK /\ [Next]_vars => [Kept]_vars
  <2> SUFFICES ASSUME TypeOK, [Next]_vars, quarantined
               PROVE  /\ quarantined'
                      /\ generation' = generation
                      /\ \A g \in Ids : activeCallbacks'[g] <= activeCallbacks[g]
    OBVIOUS
  <2>1. \A g \in Ids : activeCallbacks'[g] <= activeCallbacks[g]
    BY CallbackStarts DEF Effective
  <2>2. ASSUME NEW p \in Callers, CallerStep(p) PROVE quarantined' /\ generation' = generation
    BY <2>2 DEF CallerStep, Start, Build, StartCheck, FactoryCall, FactoryReturn, AdmitConstruction, Admissible,
       RetireUnadmitted, RetireUnadmittedWait, RetireUnadmittedFail, FinishConstruction,
       CancelConstructions, CancelWait, CancelFail, LockOperation, Retire, StopNothing,
       Withdraw, Drain, DrainCheck, CloseGeneration, CloseGenerationWait,
       CloseGenerationFail, ReplaceLate, Unfence, ReplaceRegister, RequestClose,
       AwaitClosed, Quarantine, runtimeVars
  <2>3. ASSUME NEW c \in Ids, OutsideStep(c) PROVE quarantined' /\ generation' = generation
    BY <2>3 DEF OutsideStep, CallerCancel, RequestConstructionCancel, AdapterCloses, runtimeVars
  <2>4. ASSUME NEW l \in Leases, Lease(l) PROVE quarantined' /\ generation' = generation
    BY <2>4, LeasesKeepRuntime DEF runtimeVars
  <2>5. UNCHANGED vars => quarantined' /\ generation' = generation
    BY DEF vars, runtimeVars
  <2>6. quarantined' /\ generation' = generation
    BY <2>2, <2>3, <2>4, <2>5, NextCases
  <2> QED
    BY <2>1, <2>6
<1> QED
  BY <1>1, TypeCorrect, PTL DEF Spec, QuarantineIsFinal

-----------------------------------------------------------------------------
(* The refinement.                                                         *)

\* A step that leaves who holds the bus, the effective generation and quarantine
\* alone is a stutter of DriverOwnership.
LEMMA OwnershipStutters ==
  ASSUME UNCHANGED <<current, quarantined>>, \A c \in Ids : Owning(c)' <=> Owning(c)
  PROVE  UNCHANGED Ownership!vars
<1>1. {c \in Ids : Owning(c)}' = {c \in Ids : Owning(c)}
  OBVIOUS
<1> QED
  BY <1>1 DEF Ownership!vars

\* quarantine() seals the bus, once.
LEMMA QuarantineSeals ==
  ASSUME Quarantine, adapter' = adapter
  PROVE  Ownership!Seal \/ UNCHANGED Ownership!vars
<1>1. current' = current /\ quarantined' /\ {c \in Ids : Owning(c)}' = {c \in Ids : Owning(c)}
  BY DEF Quarantine, Owning
<1>2. CASE quarantined = TRUE
  BY <1>1, <1>2 DEF Ownership!vars, Quarantine
<1>3. CASE ~quarantined
  BY <1>1, <1>3 DEF Ownership!Seal, Quarantine
<1> QED
  BY <1>2, <1>3

LEMMA OwnershipRefined ==
  ASSUME RuntimeInv, [Next]_vars
  PROVE  [Ownership!Next]_(Ownership!vars)
<1> DEFINE Holding == {c \in Ids : Owning(c)}
<1>0. /\ TypeOK /\ OwnershipInv /\ RequestInv /\ adapter \in [Ids -> AdapterStates]
      /\ quarantined \in BOOLEAN
  BY DEF RuntimeInv, UseInv, TypeOK, BuildType, RuntimeType
<1>1. ASSUME NEW p \in Callers, FactoryCall(p) PROVE Ownership!Next
  <2>1. pc[p] = "factory" /\ adapter' = [adapter EXCEPT ![id[p]] = "building"] /\ UNCHANGED <<current, quarantined>>
    BY <1>1 DEF FactoryCall, runtimeVars
  <2>2. id[p] \in Ids /\ Provisional(id[p]) /\ current = 0 /\ ~Owning(id[p])
    BY <1>0, <2>1, Building DEF BuildPcs, OwnershipInv, BuildInv, BuildStep, Owning
  <2>3. Holding = {}
    BY <1>0, <2>2 DEF OwnershipInv, OwnerInv
  <2>4. Holding' = {id[p]}
    BY <1>0, <2>1, <2>2, <2>3 DEF Owning
  <2>5. Ownership!Open(id[p])
    BY <2>1, <2>2, <2>3, <2>4 DEF Ownership!Open
  <2> QED
    BY <2>2, <2>5 DEF Ownership!Next
<1>2. ASSUME NEW p \in Callers, FactoryReturn(p) PROVE Ownership!Next \/ UNCHANGED Ownership!vars
  <2>1. PICK made \in {"none", "open", "invalid"} : adapter' = [adapter EXCEPT ![id[p]] = made]
    BY <1>2 DEF FactoryReturn
  <2>2. UNCHANGED <<current, quarantined>> /\ pc[p] = "build" /\ id[p] \in Ids /\ adapter[id[p]] = "building"
    BY <1>0, <1>2, Building DEF FactoryReturn, BuildPcs, RequestInv, runtimeVars
  <2>3. CASE made = "none"
    <3>1. id[p] \in Holding /\ Holding' = Holding \ {id[p]}
      BY <1>0, <2>1, <2>2, <2>3 DEF Owning
    <3>2. Ownership!Close(id[p])
      BY <2>2, <3>1 DEF Ownership!Close
    <3> QED
      BY <2>2, <3>2 DEF Ownership!Next
  <2>4. CASE made # "none"
    <3>1. \A c \in Ids : Owning(c)' <=> Owning(c)
      BY <1>0, <2>1, <2>2, <2>4 DEF Owning
    <3> QED
      BY <2>2, <3>1, OwnershipStutters
  <2> QED
    BY <2>3, <2>4
<1>3. ASSUME NEW p \in Callers, AdmitConstruction(p) PROVE Ownership!Next \/ UNCHANGED Ownership!vars
  <2>1. adapter' = adapter /\ quarantined' = quarantined /\ \A c \in Ids : Owning(c)' <=> Owning(c)
    BY <1>3 DEF AdmitConstruction, adapterVars, Owning
  <2>2. CASE Admissible(id[p])
    <3>1. id[p] \in Ids /\ Provisional(id[p]) /\ current = 0
      BY <1>0, <1>3, Building DEF AdmitConstruction, BuildPcs
    <3>2. Holding \subseteq {id[p]} /\ Holding' = Holding
      BY <1>0, <2>1, <3>1 DEF OwnershipInv, OwnerInv
    <3>3. ~quarantined /\ current' = id[p]
      BY <1>3, <2>2 DEF AdmitConstruction, Admissible
    <3>4. Ownership!Publish(id[p])
      BY <2>1, <3>1, <3>2, <3>3 DEF Ownership!Publish
    <3> QED
      BY <3>1, <3>4 DEF Ownership!Next
  <2>3. CASE ~Admissible(id[p])
    BY <1>3, <2>1, <2>3, OwnershipStutters DEF AdmitConstruction
  <2> QED
    BY <2>2, <2>3
<1>4. ASSUME NEW p \in Callers, RetireUnadmitted(p) \/ CloseGeneration(p) PROVE UNCHANGED Ownership!vars
  <2>1. UNCHANGED <<current, quarantined>> /\ \A c \in Ids : Owning(c)' <=> Owning(c)
    BY <1>0, <1>4 DEF RetireUnadmitted, CloseGeneration, RequestClose, Owning, runtimeVars, adapterVars
  <2> QED
    BY <2>1, OwnershipStutters
<1>5. ASSUME NEW p \in Callers, RetireUnadmittedFail(p) \/ CancelFail(p) \/ CloseGenerationFail(p)
      PROVE  Ownership!Next \/ UNCHANGED Ownership!vars
  <2>1. Quarantine /\ adapter' = adapter
    BY <1>5 DEF RetireUnadmittedFail, CancelFail, CloseGenerationFail, adapterVars
  <2> QED
    BY <2>1, QuarantineSeals DEF Ownership!Next
<1>6. ASSUME NEW p \in Callers, Withdraw(p) PROVE Ownership!Next
  <2>1. current # 0 /\ ~quarantined /\ current' = 0 /\ quarantined' = quarantined /\ Holding' = Holding
    BY <1>6 DEF Withdraw, adapterVars, Owning
  <2> QED
    BY <2>1 DEF Ownership!Next, Ownership!Withdraw
<1>7. ASSUME NEW p \in Callers,
             \/ Start(p) \/ StartCheck(p) \/ RetireUnadmittedWait(p) \/ FinishConstruction(p)
             \/ CancelConstructions(p) \/ CancelWait(p) \/ LockOperation(p) \/ StopNothing(p)
             \/ Drain(p) \/ DrainCheck(p) \/ CloseGenerationWait(p) \/ ReplaceLate(p) \/ Unfence(p)
             \/ ReplaceRegister(p)
      PROVE  UNCHANGED Ownership!vars
  <2>1. UNCHANGED <<current, quarantined, adapter>>
    BY <1>7 DEF Start, StartCheck, RetireUnadmittedWait, FinishConstruction, CancelConstructions, CancelWait,
       LockOperation, StopNothing, Drain, DrainCheck, CloseGenerationWait, ReplaceLate, Unfence,
       ReplaceRegister, AwaitClosed, runtimeVars, adapterVars
  <2> QED
    BY <2>1, OwnershipStutters DEF Owning
<1>8. ASSUME NEW d \in Ids, AdapterCloses(d) PROVE Ownership!Next
  <2>1. UNCHANGED <<current, quarantined>> /\ d \in Holding /\ Holding' = Holding \ {d}
    BY <1>0, <1>8 DEF AdapterCloses, Owning, runtimeVars
  <2> QED
    BY <2>1 DEF Ownership!Next, Ownership!Close
<1>9. ASSUME NEW d \in Ids, CallerCancel(d) \/ RequestConstructionCancel(d) PROVE UNCHANGED Ownership!vars
  <2>1. UNCHANGED <<current, quarantined, adapter>>
    BY <1>9 DEF CallerCancel, RequestConstructionCancel, runtimeVars, adapterVars
  <2> QED
    BY <2>1, OwnershipStutters DEF Owning
<1>10. ASSUME NEW l \in Leases, Lease(l) PROVE UNCHANGED Ownership!vars
  <2>1. UNCHANGED <<current, quarantined, adapter>>
    BY <1>10, LeasesKeepRuntime DEF runtimeVars, adapterVars
  <2> QED
    BY <2>1, OwnershipStutters DEF Owning
<1>11. CASE UNCHANGED vars
  <2>1. UNCHANGED <<current, quarantined, adapter>>
    BY <1>11 DEF vars, runtimeVars, adapterVars
  <2> QED
    BY <2>1, OwnershipStutters DEF Owning
<1>12. ASSUME NEW p \in Callers, CallerStep(p) PROVE Ownership!Next \/ UNCHANGED Ownership!vars
  BY <1>1, <1>2, <1>3, <1>4, <1>5, <1>6, <1>7, <1>12 DEF CallerStep, Build, Retire
<1>13. ASSUME NEW d \in Ids, OutsideStep(d) PROVE Ownership!Next \/ UNCHANGED Ownership!vars
  BY <1>8, <1>9, <1>13 DEF OutsideStep
<1> QED
  BY <1>10, <1>11, <1>12, <1>13, NextCases

\* driver_runtime.go keeps the ownership contract: whatever its callers, adapters
\* and leases do, transports are opened one at a time, only the sole one that may
\* hold the bus is published, and nothing is once the process is quarantined.
THEOREM RuntimeImplementsOwnership == Spec => ImplementsOwnership
<1>1. Init => Ownership!Init
  BY DEF Init, Ownership!Init, Owning
<1>2. RuntimeInv /\ [Next]_vars => [Ownership!Next]_(Ownership!vars)
  BY OwnershipRefined
<1> QED
  BY <1>1, <1>2, RuntimeInvHolds, PTL DEF Spec, ImplementsOwnership, Ownership!Spec
=============================================================================
