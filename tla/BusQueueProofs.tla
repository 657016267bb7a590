--------------------------- MODULE BusQueueProofs ---------------------------
(***************************************************************************)
(* Machine-checked proofs about BusQueue, for any set of requests, any     *)
(* priorities, any capacity and any starvation threshold above 1.          *)
(***************************************************************************)
EXTENDS BusQueue, SequenceTheorems, TLAPS

-----------------------------------------------------------------------------
(* The queue operations.                                                   *)

\* Arithmetic on its own, where the solver does not meet sequences.
LEMMA SumBelow ==
  ASSUME NEW n \in Int, NEW i \in Int, NEW t \in Int, NEW c \in Int, n < t, i <= c - 1
  PROVE  n + i < t + c - 1
  OBVIOUS

LEMMA Successor ==
  ASSUME NEW i \in Int, NEW j \in Int, NEW k \in Int,
         j = IF i < k THEN i ELSE i + 1, k <= j
  PROVE  j = i + 1
  OBVIOUS

LEMMA Halves ==
  ASSUME NEW n \in Int, NEW k \in Int, NEW a \in Int, NEW b \in Int, a = k - 1, b = n - k
  PROVE  a + b = n - 1
  OBVIOUS

LEMMA UpperHalf ==
  ASSUME NEW n \in Int, NEW k \in Int, NEW i \in 1 .. n - 1, ~(i < k), NEW a, a = k - 1
  PROVE  ~(i <= a) /\ i - a \in 1 .. n - k /\ k + (i - a) = i + 1
  OBVIOUS

\* Taking position k out of a sequence.
LEMMA RemoveLemma ==
  ASSUME NEW S, NEW s \in Seq(S), NEW k \in 1 .. Len(s), NEW t,
         t = SubSeq(s, 1, k - 1) \o SubSeq(s, k + 1, Len(s))
  PROVE  /\ t \in Seq(S)
         /\ Len(t) = Len(s) - 1
         /\ \A i \in 1 .. Len(t) : t[i] = IF i < k THEN s[i] ELSE s[i + 1]
<1> DEFINE a == SubSeq(s, 1, k - 1)
           b == SubSeq(s, k + 1, Len(s))
<1>1. a \in Seq(S) /\ Len(a) = k - 1 /\ \A i \in 1 .. k - 1 : a[i] = s[i]
  OBVIOUS
<1>2. b \in Seq(S) /\ Len(b) = Len(s) - k /\ \A i \in 1 .. Len(s) - k : b[i] = s[k + i]
  OBVIOUS
<1> HIDE DEF a, b
<1>3. /\ a \o b \in Seq(S)
      /\ Len(a \o b) = Len(a) + Len(b)
      /\ \A i \in 1 .. Len(a) + Len(b) : (a \o b)[i] = IF i <= Len(a) THEN a[i] ELSE b[i - Len(a)]
  BY <1>1, <1>2, ConcatProperties
<1>4. t = a \o b
  BY DEF a, b
<1>0. Len(s) \in Nat /\ k \in Nat /\ 1 <= k /\ k <= Len(s)
  OBVIOUS
<1>5. Len(t) = Len(a) + Len(b)
  BY <1>3, <1>4
<1>6. Len(a) \in Int /\ Len(b) \in Int
  BY <1>0, <1>1, <1>2
<1>7. Len(a) + Len(b) = Len(s) - 1
  BY <1>0, <1>1, <1>2, <1>6, Halves
<1>8. \A i \in 1 .. Len(s) - 1 : t[i] = IF i <= Len(a) THEN a[i] ELSE b[i - Len(a)]
  BY <1>3, <1>4, <1>7
<1> HIDE DEF a, b
<1>9. ASSUME NEW i \in 1 .. Len(s) - 1, i < k PROVE t[i] = s[i]
  <2>1. i \in 1 .. k - 1 /\ i <= Len(a)
    BY <1>0, <1>1, <1>9
  <2> QED
    BY <1>1, <1>8, <2>1
<1>10. ASSUME NEW i \in 1 .. Len(s) - 1, ~(i < k) PROVE t[i] = s[i + 1]
  <2>1. ~(i <= Len(a)) /\ i - Len(a) \in 1 .. Len(s) - k /\ k + (i - Len(a)) = i + 1
    BY <1>0, <1>1, <1>10, UpperHalf
  <2> QED
    BY <1>2, <1>8, <2>1
<1> QED
  BY <1>3, <1>4, <1>5, <1>7, <1>9, <1>10

\* What a pop does: it takes out position k, the first of the promoted queue.
LEMMA PopLemma ==
  ASSUME TypeOK, NEW r, Pop(r)
  PROVE  \E k \in 1 .. Len(queue) :
           /\ First(k, Promoted) /\ r = queue[k] /\ r \in Requests
           /\ queue' \in Seq(Requests)
           /\ Len(queue') = Len(queue) - 1
           /\ \A i \in 1 .. Len(queue') : queue'[i] = IF i < k THEN queue[i] ELSE queue[i + 1]
<1>1. PICK k \in 1 .. Len(queue) :
        /\ First(k, Promoted)
        /\ r = queue[k]
        /\ queue' = SubSeq(queue, 1, k - 1) \o SubSeq(queue, k + 1, Len(queue))
  BY DEF Pop
<1>2. queue \in Seq(Requests)
  BY DEF TypeOK
<1>3. r \in Requests
  BY <1>1, <1>2
<1>4. /\ queue' \in Seq(Requests)
      /\ Len(queue') = Len(queue) - 1
      /\ \A i \in 1 .. Len(queue') : queue'[i] = IF i < k THEN queue[i] ELSE queue[i + 1]
  BY <1>1, <1>2, RemoveLemma, ZenonT(40)
<1> QED
  BY <1>1, <1>3, <1>4

\* Pop keeps the types of the queue.
LEMMA PopType ==
  ASSUME TypeOK, NEW r, Pop(r)
  PROVE  /\ r \in Requests
         /\ queue' \in Seq(Requests) /\ Len(queue') <= outCap
         /\ priority' \in [Requests -> Nat]
         /\ age' \in [Requests -> Nat]
<1>1. /\ r \in Requests
      /\ queue' \in Seq(Requests) /\ Len(queue') <= outCap
  BY PopLemma, BoundsAssumption DEF TypeOK
<1>2. Promoted \in [Requests -> Nat]
  BY DEF TypeOK, Promoted
<1>3. priority' = [Promoted EXCEPT ![r] = 0]
  BY DEF Pop
<1>4. priority' \in [Requests -> Nat]
  BY <1>2, <1>3
<1>5. age' \in [Requests -> Nat]
  BY DEF Pop, TypeOK
<1> QED
  BY <1>1, <1>4, <1>5

\* Push keeps the types of the queue.
LEMMA PushType ==
  ASSUME TypeOK, NEW r \in Requests, NEW p \in Nat, Push(r, p), Accepted(r)
  PROVE  /\ queue' \in Seq(Requests) /\ Len(queue') = Len(queue) + 1 /\ Len(queue') <= outCap
         /\ priority' \in [Requests -> Nat]
         /\ age' \in [Requests -> Nat]
  BY BoundsAssumption DEF TypeOK, Push, Accepted

-----------------------------------------------------------------------------
(* Types.                                                                  *)

LEMMA TypeInit == Init => TypeOK
<1> SUFFICES ASSUME Init PROVE TypeOK
  OBVIOUS
<1>1. queue \in Seq(Requests) /\ Len(queue) <= outCap
  BY BoundsAssumption DEF Init
<1> QED
  BY <1>1 DEF Init, TypeOK, LoopPcs

LEMMA TypeNext == TypeOK /\ [Next]_vars => TypeOK'
<1> SUFFICES ASSUME TypeOK, [Next]_vars PROVE TypeOK'
  OBVIOUS
<1>1. CASE UNCHANGED vars
  BY <1>1 DEF vars, queueVars, loopVars, clientVars, TypeOK
<1>2. ASSUME NEW r \in Requests, Enqueue(r) PROVE TypeOK'
  <2>1. PICK k \in {"frame", "op"} :
          /\ kind' = [kind EXCEPT ![r] = k]
          /\ \E p \in IF k = "op" THEN {transportOpPriority} ELSE Sources : Push(r, p)
    BY <1>2 DEF Enqueue
  <2>2. PICK p \in Nat : Push(r, p)
    BY <2>1, PriorityAssumption
  <2>3. /\ queue' \in Seq(Requests) /\ Len(queue') <= outCap
        /\ priority' \in [Requests -> Nat]
        /\ age' \in [Requests -> Nat]
    BY <1>2, <2>2, PushType DEF Enqueue
  <2>4. kind' \in [Requests -> {"frame", "op"}]
    BY <2>1 DEF TypeOK
  <2> QED
    BY <1>2, <2>3, <2>4 DEF Enqueue, loopVars, TypeOK
<1>3. ASSUME NEW r \in Requests,
             Notify(r) \/ ContextDone(r) \/ Receive(r) \/ GiveUp(r)
      PROVE  TypeOK'
  BY <1>3 DEF Notify, ContextDone, Receive, GiveUp, queueVars, loopVars, TypeOK
<1>4. ASSUME NEW r \in Requests, Dequeue(r) \/ DrainQueue(r)
      PROVE  TypeOK'
  <2>1. Pop(r)
    BY <1>4 DEF Dequeue, DrainQueue
  <2>2. /\ queue' \in Seq(Requests) /\ Len(queue') <= outCap
        /\ priority' \in [Requests -> Nat]
        /\ age' \in [Requests -> Nat]
    BY <2>1, PopType
  <2>3. CASE Dequeue(r)
    BY <2>2, <2>3 DEF Dequeue, clientVars, TypeOK, LoopPcs
  <2>4. CASE DrainQueue(r)
    BY <2>2, <2>4 DEF DrainQueue, clientVars, TypeOK, LoopPcs
  <2> QED
    BY <1>4, <2>3, <2>4
<1>5. ASSUME NEW r \in Requests,
             CheckOp(r) \/ FinishOp(r) \/ CheckFrame(r) \/ FinishFrame(r) \/ DrainAnswer(r)
      PROVE  TypeOK'
  <2>1. CASE CheckOp(r)
    BY <2>1 DEF CheckOp, Answer, queueVars, clientVars, TypeOK, LoopPcs
  <2>2. CASE FinishOp(r)
    BY <2>2 DEF FinishOp, Answer, queueVars, clientVars, TypeOK, LoopPcs
  <2>3. CASE CheckFrame(r)
    BY <2>3 DEF CheckFrame, Answer, queueVars, clientVars, TypeOK, LoopPcs
  <2>4. CASE FinishFrame(r)
    BY <2>4 DEF FinishFrame, Answer, queueVars, clientVars, TypeOK, LoopPcs
  <2>5. CASE DrainAnswer(r)
    BY <2>5 DEF DrainAnswer, Answer, queueVars, clientVars, TypeOK, LoopPcs
  <2> QED
    BY <1>5, <2>1, <2>2, <2>3, <2>4, <2>5
<1>6. ASSUME NEW r \in Requests, StartOp(r) PROVE TypeOK'
  BY <1>6 DEF StartOp, queueVars, clientVars, TypeOK, LoopPcs
<1>7. CASE Run \/ DequeueEmpty \/ SelectNotify \/ SelectDone \/ MarkClosed \/ DrainDone \/ RunDone
  BY <1>7 DEF Run, DequeueEmpty, SelectNotify, SelectDone, MarkClosed, DrainDone, RunDone,
              queueVars, clientVars, TypeOK, LoopPcs
<1> QED
  BY <1>1, <1>2, <1>3, <1>4, <1>5, <1>6, <1>7 DEF Next, Loop

\* Every field of the bus, its queue and its requests keeps its type, and the
\* queue never outgrows outCap, whatever Send, RawTransportOp and runLoop do.
THEOREM TypeCorrect == Spec => []TypeOK
  BY TypeInit, TypeNext, PTL DEF Spec

-----------------------------------------------------------------------------
(* Bounded overtaking.                                                     *)

\* A request passed over by a pop either is not starved yet, or was promoted and
\* then the popped one was ahead of it.
LEMMA PassedOver ==
  ASSUME TypeOK, BoundedOvertaking, NEW r, Pop(r)
  PROVE  BoundedOvertaking'
<1>1. PICK k \in 1 .. Len(queue) :
        /\ First(k, Promoted) /\ r = queue[k] /\ r \in Requests
        /\ queue' \in Seq(Requests)
        /\ Len(queue') = Len(queue) - 1
        /\ \A i \in 1 .. Len(queue') : queue'[i] = IF i < k THEN queue[i] ELSE queue[i + 1]
  BY PopLemma
<1>2. age' = [q \in Requests |-> IF Queued(q) /\ q # r THEN age[q] + 1 ELSE 0]
  BY DEF Pop
<1>3. /\ outCap \in Nat \ {0} /\ starvationThreshold \in Nat \ {0, 1}
      /\ queue \in Seq(Requests) /\ Len(queue) \in Nat /\ Len(queue) <= outCap
      /\ age \in [Requests -> Nat] /\ priority \in [Requests -> Nat]
  BY BoundsAssumption DEF TypeOK
<1> SUFFICES ASSUME NEW i \in 1 .. Len(queue')
             PROVE  age'[queue'[i]] + i < starvationThreshold + outCap - 1
  BY DEF BoundedOvertaking
<1> DEFINE j == IF i < k THEN i ELSE i + 1
           q == queue[j]
<1>9. Len(queue') = Len(queue) - 1 /\ k \in Nat /\ k <= Len(queue)
  BY <1>1, <1>3
<1>10. i \in Nat /\ 1 <= i /\ i <= Len(queue) - 1
  BY <1>3, <1>9
<1>4. /\ i \in Nat /\ i <= outCap - 1
      /\ j \in 1 .. Len(queue) /\ j # k /\ (j = i \/ j = i + 1)
  BY <1>3, <1>9, <1>10
<1>8. queue'[i] = q /\ q \in Requests
  <2>1. queue'[i] = q
    BY <1>1
  <2> QED
    BY <1>3, <1>4, <2>1
<1> HIDE DEF j, q
<1>5. CASE q = r
  BY <1>2, <1>3, <1>4, <1>8, <1>5
<1>6. CASE q # r /\ age[q] + 1 < starvationThreshold
  <2>1. age[q] \in Nat /\ (age'[q] = age[q] + 1 \/ age'[q] = 0)
    BY <1>2, <1>3, <1>8
  <2> QED
    <3>1. age'[q] \in Int /\ age'[q] < starvationThreshold
      BY <1>3, <1>6, <2>1, SMTT(30)
    <3>2. i \in Int /\ starvationThreshold \in Int /\ outCap \in Int /\ i <= outCap - 1
      BY <1>3, <1>4
    <3>3. age'[q] + i < starvationThreshold + outCap - 1
      BY <3>1, <3>2, SumBelow
    <3> QED
      BY <1>8, <3>3
<1>7. CASE q # r /\ age[q] + 1 >= starvationThreshold
  <2>1. Queued(q)
    BY <1>4 DEF Queued, q
  <2>2. Promoted[q] = 0
    BY <1>4, <1>8, <1>7, <2>1 DEF Promoted
  <2>3. Promoted[r] \in Nat
    BY <1>1, <1>3 DEF Promoted
  <2>4. k <= j
    BY <1>1, <1>4, <1>8, <2>2, <2>3 DEF First, q
  <2>5. j = i + 1
    BY <1>3, <1>4, <1>9, <2>4, Successor DEF j
  <2>6. age[q] + j < starvationThreshold + outCap - 1
    BY <1>4 DEF BoundedOvertaking, q
  <2>7. age'[q] = age[q] + 1 /\ age[q] \in Nat
    BY <1>2, <1>3, <1>4, <1>8, <1>7, <2>1
  <2> QED
    BY <1>3, <1>4, <1>8, <2>5, <2>6, <2>7
<1> QED
  BY <1>3, <1>5, <1>6, <1>7, <1>8

LEMMA OvertakingNext == TypeOK /\ BoundedOvertaking /\ [Next]_vars => BoundedOvertaking'
<1> SUFFICES ASSUME TypeOK, BoundedOvertaking, [Next]_vars PROVE BoundedOvertaking'
  OBVIOUS
<1>1. CASE UNCHANGED <<queue, age>>
  BY <1>1 DEF BoundedOvertaking
<1>2. ASSUME NEW r \in Requests, Enqueue(r) PROVE BoundedOvertaking'
  <2>1. queue' = Append(queue, r) /\ age' = [age EXCEPT ![r] = 0] /\ Len(queue) < outCap
    BY <1>2 DEF Enqueue, Push, Accepted
  <2>2. /\ outCap \in Nat /\ starvationThreshold \in Nat \ {0, 1}
        /\ queue \in Seq(Requests) /\ Len(queue) \in Nat /\ age \in [Requests -> Nat]
    BY BoundsAssumption DEF TypeOK
  <2> SUFFICES ASSUME NEW i \in 1 .. Len(queue')
               PROVE  age'[queue'[i]] + i < starvationThreshold + outCap - 1
    BY DEF BoundedOvertaking
  <2>3. i \in Nat /\ i <= Len(queue) + 1 /\ i <= outCap
    BY <2>1, <2>2
  <2>4. CASE i = Len(queue) + 1
    <3>1. queue'[i] = r /\ age'[r] = 0
      BY <2>1, <2>2, <2>4
    <3> QED
      BY <2>2, <2>3, <3>1
  <2>5. CASE i # Len(queue) + 1
    <3>1. i \in 1 .. Len(queue) /\ queue'[i] = queue[i] /\ queue[i] \in Requests
      BY <2>1, <2>2, <2>3, <2>5
    <3>2. age[queue[i]] + i < starvationThreshold + outCap - 1
      BY <3>1 DEF BoundedOvertaking
    <3>3. age'[queue[i]] \in {0, age[queue[i]]} /\ age[queue[i]] \in Nat
      BY <2>1, <2>2, <3>1
    <3> QED
      BY <2>2, <2>3, <3>1, <3>2, <3>3
  <2> QED
    BY <2>4, <2>5
<1>3. ASSUME NEW r \in Requests, Dequeue(r) \/ DrainQueue(r)
      PROVE  BoundedOvertaking'
  BY <1>3, PassedOver DEF Dequeue, DrainQueue
<1>4. [Next]_vars => \/ UNCHANGED <<queue, age>>
                     \/ \E r \in Requests : Enqueue(r) \/ Dequeue(r) \/ DrainQueue(r)
  BY DEF Next, Loop, Run, DequeueEmpty, SelectNotify, SelectDone, MarkClosed, DrainDone, RunDone,
         CheckOp, StartOp, FinishOp, CheckFrame, FinishFrame, DrainAnswer, Answer,
         Notify, ContextDone, Receive, GiveUp, vars, queueVars
<1> QED
  BY <1>1, <1>2, <1>3, <1>4

\* pop's aging bounds how often a queued request can be passed over, for every
\* capacity, threshold and arrival pattern: no request starves in the queue.
THEOREM NoStarvation == Spec => []BoundedOvertaking
<1>1. Init => BoundedOvertaking
  BY DEF Init, BoundedOvertaking
<1> QED
  BY <1>1, TypeCorrect, OvertakingNext, PTL DEF Spec

-----------------------------------------------------------------------------
(* A request is in one place.                                              *)

\* The run loop holds a request exactly while it serves one, and the bus is
\* closed before the final drain starts.
LoopInv ==
  /\ serving # NoRequest <=> loop \in ServingPcs
  /\ loop \in {"drain", "drainAnswer", "done"} => closed

PlaceInv == LoopInv /\ RequestInOnePlace

Distinct == \A i, j \in 1 .. Len(queue) : queue[i] = queue[j] => i = j

Place(r) ==
  /\ Queued(r) \/ serving = r => resp[r] = "empty"
  /\ ~(Queued(r) /\ serving = r)
  /\ pc[r] # "idle" => Queued(r) \/ serving = r \/ resp[r] # "empty"

\* RequestInOnePlace, in these words.
LEMMA PlaceWords ==
  RequestInOnePlace <=>
    (loop = "done" => queue = <<>>) /\ Distinct /\ \A r \in Requests : Place(r)
  BY DEF RequestInOnePlace, Distinct, Place

\* A step that leaves the queue alone.
LEMMA SameQueue ==
  ASSUME UNCHANGED queue
  PROVE  (Distinct <=> Distinct') /\ \A r : Queued(r) <=> Queued(r)'
  BY DEF Distinct, Queued

\* Who is queued after a push.
LEMMA PushQueued ==
  ASSUME TypeOK, NEW r \in Requests, queue' = Append(queue, r), ~Queued(r), Distinct
  PROVE  Distinct' /\ \A q : Queued(q)' <=> (Queued(q) \/ q = r)
<1>1. /\ queue \in Seq(Requests) /\ Len(queue) \in Nat /\ Len(queue') = Len(queue) + 1
      /\ queue'[Len(queue) + 1] = r
      /\ \A i \in 1 .. Len(queue) : queue'[i] = queue[i]
  BY DEF TypeOK
<1>2. \A q : Queued(q)' <=> (Queued(q) \/ q = r)
  <2>1. ASSUME NEW i \in 1 .. Len(queue') PROVE i \in 1 .. Len(queue) \/ i = Len(queue) + 1
    BY <1>1
  <2>2. \A i \in 1 .. Len(queue) : i \in 1 .. Len(queue')
    BY <1>1
  <2>3. Len(queue) + 1 \in 1 .. Len(queue')
    BY <1>1
  <2> QED
    BY <1>1, <2>1, <2>2, <2>3 DEF Queued
<1>3. ASSUME NEW i \in 1 .. Len(queue'), NEW j \in 1 .. Len(queue'), queue'[i] = queue'[j]
      PROVE  i = j
  <2>1. (i \in 1 .. Len(queue) \/ i = Len(queue) + 1) /\ (j \in 1 .. Len(queue) \/ j = Len(queue) + 1)
    BY <1>1
  <2> QED
    BY <1>1, <1>3, <2>1 DEF Queued, Distinct
<1> QED
  BY <1>2, <1>3 DEF Distinct

\* Who is queued after a pop.
LEMMA PopQueued ==
  ASSUME TypeOK, Distinct, NEW r, Pop(r)
  PROVE  /\ r \in Requests /\ Queued(r) /\ Distinct'
         /\ \A q : Queued(q)' <=> (Queued(q) /\ q # r)
<1>1. PICK k \in 1 .. Len(queue) :
        /\ r = queue[k] /\ r \in Requests
        /\ Len(queue') = Len(queue) - 1
        /\ \A i \in 1 .. Len(queue') : queue'[i] = IF i < k THEN queue[i] ELSE queue[i + 1]
  BY PopLemma
<1>2. Len(queue) \in Nat
  BY DEF TypeOK
<1> DEFINE From(i) == IF i < k THEN i ELSE i + 1
<1>3. ASSUME NEW i \in 1 .. Len(queue')
      PROVE  From(i) \in 1 .. Len(queue) /\ From(i) # k /\ queue'[i] = queue[From(i)]
  <2>1. i \in 1 .. Len(queue) - 1 /\ k \in Nat
    BY <1>1, <1>2
  <2> QED
    BY <1>1, <1>2, <2>1
<1>4. ASSUME NEW i \in 1 .. Len(queue'), NEW j \in 1 .. Len(queue'), From(i) = From(j)
      PROVE  i = j
  <2>1. i \in Int /\ j \in Int /\ k \in Int
    BY <1>1, <1>2
  <2> QED
    BY <1>4, <2>1
<1>5. ASSUME NEW j \in 1 .. Len(queue), j # k
      PROVE  \E i \in 1 .. Len(queue') : From(i) = j
  <2>1. j \in Int /\ k \in Int /\ 1 <= k /\ k <= Len(queue)
    BY <1>2
  <2>2. CASE j < k
    <3>1. j \in 1 .. Len(queue')
      BY <1>1, <1>2, <2>1, <2>2
    <3> QED
      BY <2>2, <3>1
  <2>3. CASE j > k
    <3>1. j - 1 \in 1 .. Len(queue') /\ ~(j - 1 < k) /\ (j - 1) + 1 = j
      BY <1>1, <1>2, <2>1, <2>3
    <3> QED
      BY <3>1
  <2> QED
    BY <1>5, <2>1, <2>2, <2>3
<1> HIDE DEF From
<1>6. Distinct'
  BY <1>3, <1>4 DEF Distinct
<1>7. ASSUME NEW q PROVE Queued(q)' <=> (Queued(q) /\ q # r)
  <2>1. ASSUME Queued(q)' PROVE Queued(q) /\ q # r
    BY <1>1, <1>3, <2>1 DEF Queued, Distinct
  <2>2. ASSUME Queued(q), q # r PROVE Queued(q)'
    <3>1. PICK j \in 1 .. Len(queue) : queue[j] = q
      BY <2>2 DEF Queued
    <3>2. j # k
      BY <1>1, <2>2, <3>1
    <3> QED
      BY <1>3, <1>5, <3>1, <3>2 DEF Queued
  <2> QED
    BY <2>1, <2>2
<1>8. Queued(r)
  BY <1>1 DEF Queued
<1> QED
  BY <1>1, <1>6, <1>7, <1>8

LEMMA PlaceNext == TypeOK /\ PlaceInv /\ [Next]_vars => PlaceInv'
<1> SUFFICES ASSUME TypeOK, LoopInv, (loop = "done" => queue = <<>>), Distinct,
                    \A r \in Requests : Place(r), [Next]_vars
             PROVE  LoopInv' /\ (loop = "done" => queue = <<>>)' /\ Distinct'
                      /\ (\A r \in Requests : Place(r))'
  BY PlaceWords DEF PlaceInv, RequestInOnePlace, Distinct, Place
<1> DEFINE Goal == LoopInv' /\ (loop = "done" => queue = <<>>)' /\ Distinct'
                     /\ (\A r \in Requests : Place(r))'
<1> USE NoRequestAssumption
<1>1. CASE UNCHANGED vars
  BY <1>1, SameQueue DEF vars, queueVars, loopVars, clientVars, LoopInv, Place
<1>2. ASSUME NEW r \in Requests, Enqueue(r) PROVE Goal
  <2>1. /\ queue' = Append(queue, r) /\ ~Queued(r) /\ serving # r /\ pc[r] = "idle" /\ ~closed
        /\ pc' = [pc EXCEPT ![r] = "notify"] /\ resp' = [resp EXCEPT ![r] = "empty"]
        /\ UNCHANGED <<loop, serving, closed>>
    BY <1>2 DEF Enqueue, Push, Accepted, loopVars
  <2>2. Distinct' /\ \A q : Queued(q)' <=> (Queued(q) \/ q = r)
    BY <2>1, PushQueued
  <2>3. LoopInv' /\ loop' # "done"
    BY <2>1 DEF LoopInv
  <2>4. ASSUME NEW q \in Requests PROVE Place(q)'
    BY <2>1, <2>2 DEF Place, TypeOK
  <2> QED
    BY <2>2, <2>3, <2>4
<1>3. ASSUME NEW r \in Requests,
             Notify(r) \/ ContextDone(r) \/ Receive(r) \/ GiveUp(r)
      PROVE  Goal
  <2>1. /\ UNCHANGED <<queue, loop, serving, closed>>
        /\ \/ UNCHANGED resp /\ pc' = [pc EXCEPT ![r] = "wait"] /\ pc[r] = "notify"
           \/ UNCHANGED <<resp, pc>>
           \/ /\ pc' = [pc EXCEPT ![r] = "idle"] /\ resp' = [resp EXCEPT ![r] = "empty"]
              /\ resp[r] # "empty"
           \/ UNCHANGED resp /\ pc' = [pc EXCEPT ![r] = "idle"]
           \/ UNCHANGED resp /\ pc' = [pc EXCEPT ![r] = "opWait"] /\ pc[r] = "wait"
    BY <1>3 DEF Notify, ContextDone, Receive, GiveUp, queueVars, loopVars
  <2>2. LoopInv' /\ (loop = "done" => queue = <<>>)'
    BY <2>1 DEF LoopInv
  <2>3. ASSUME NEW q \in Requests PROVE Place(q)'
    BY <2>1, SameQueue DEF Place, TypeOK
  <2> QED
    BY <2>1, <2>2, <2>3, SameQueue
<1>4. ASSUME NEW r \in Requests, Dequeue(r) \/ DrainQueue(r)
      PROVE  Goal
  <2>1. /\ Pop(r) /\ serving' = r /\ UNCHANGED <<resp, pc, closed>>
        /\ loop \in {"dequeue", "drain"} /\ loop' \in {"checkOp", "checkFrame", "drainAnswer"}
        /\ loop' = "drainAnswer" => loop = "drain"
    BY <1>4 DEF Dequeue, DrainQueue, clientVars
  <2>2. Queued(r) /\ Distinct' /\ \A q : Queued(q)' <=> (Queued(q) /\ q # r)
    BY <2>1, PopQueued
  <2>3. serving = NoRequest
    BY <2>1 DEF LoopInv, ServingPcs
  <2>4. LoopInv' /\ loop' # "done"
    BY <2>1 DEF LoopInv, ServingPcs
  <2>5. ASSUME NEW q \in Requests PROVE Place(q)'
    BY <2>1, <2>2, <2>3 DEF Place
  <2> QED
    BY <2>2, <2>4, <2>5
<1>5. ASSUME NEW r \in Requests, NEW result \in {"ok", "error"}, NEW next \in {"dequeue", "drain"},
             serving = r, Answer(r, result, next), next = "drain" => loop = "drainAnswer"
      PROVE  Goal
  <2>1. /\ UNCHANGED <<queue, pc, closed>> /\ resp' = [resp EXCEPT ![r] = result]
        /\ serving' = NoRequest /\ loop' = next
    BY <1>5 DEF Answer, queueVars, clientVars
  <2>2. LoopInv' /\ loop' # "done"
    BY <1>5, <2>1 DEF LoopInv, ServingPcs
  <2>3. ASSUME NEW q \in Requests PROVE Place(q)'
    BY <1>5, <2>1, SameQueue DEF Place, TypeOK
  <2> QED
    BY <2>1, <2>2, <2>3, SameQueue
<1>6. ASSUME NEW r \in Requests,
             CheckOp(r) \/ FinishOp(r) \/ CheckFrame(r) \/ FinishFrame(r) \/ DrainAnswer(r)
               \/ StartOp(r)
      PROVE  Goal
  <2>1. CASE \E result \in {"ok", "error"}, next \in {"dequeue", "drain"} :
               serving = r /\ Answer(r, result, next) /\ (next = "drain" => loop = "drainAnswer")
    BY <1>5, <2>1
  <2>2. CASE /\ UNCHANGED <<queue, pc, closed, serving, resp>> /\ serving = r
             /\ loop' \in {"startOp", "runOp", "send"}
    BY <2>2, SameQueue DEF LoopInv, Place, ServingPcs
  <2> QED
    BY <1>6, <2>1, <2>2 DEF CheckOp, FinishOp, CheckFrame, FinishFrame, DrainAnswer, StartOp,
                            queueVars, clientVars
<1>7. CASE Run \/ DequeueEmpty \/ SelectNotify \/ SelectDone \/ MarkClosed \/ DrainDone \/ RunDone
  <2>1. /\ UNCHANGED <<queue, pc, serving, resp>>
        /\ loop' = "done" => queue = <<>> \/ loop = "done"
    BY <1>7 DEF Run, DequeueEmpty, SelectNotify, SelectDone, MarkClosed, DrainDone, RunDone,
                queueVars, clientVars
  <2>2. LoopInv'
    BY <1>7 DEF Run, DequeueEmpty, SelectNotify, SelectDone, MarkClosed, DrainDone, RunDone,
                LoopInv, ServingPcs
  <2>3. ASSUME NEW q \in Requests PROVE Place(q)'
    BY <2>1, SameQueue DEF Place
  <2> QED
    BY <2>1, <2>2, <2>3, SameQueue
<1> QED
  BY <1>1, <1>2, <1>3, <1>4, <1>6, <1>7 DEF Next, Loop

\* However calls, cancellations and the close interleave, the request of a
\* waiting caller is queued, being served or answered, and in only one of these.
THEOREM OnePlace == Spec => []RequestInOnePlace
<1>1. Init => PlaceInv
  BY NoRequestAssumption DEF Init, PlaceInv, LoopInv, RequestInOnePlace, Queued, ServingPcs
<1>2. PlaceInv => RequestInOnePlace
  BY DEF PlaceInv
<1> QED
  BY <1>1, <1>2, PlaceNext, TypeCorrect, PTL DEF Spec

-----------------------------------------------------------------------------
(* No lost wakeup.                                                         *)

LEMMA WakeupNext == TypeOK /\ NoLostWakeup /\ [Next]_vars => NoLostWakeup'
<1> SUFFICES ASSUME TypeOK, NoLostWakeup, [Next]_vars PROVE NoLostWakeup'
  OBVIOUS
<1>1. CASE UNCHANGED vars
  BY <1>1 DEF vars, queueVars, loopVars, clientVars, NoLostWakeup
<1>2. ASSUME NEW r \in Requests, Enqueue(r) PROVE NoLostWakeup'
  BY <1>2 DEF Enqueue, NoLostWakeup, TypeOK
<1>3. ASSUME NEW r \in Requests,
             Notify(r) \/ ContextDone(r) \/ Receive(r) \/ GiveUp(r)
      PROVE  NoLostWakeup'
  <2>1. CASE Notify(r)
    BY <2>1 DEF Notify, NoLostWakeup
  <2>2. CASE ContextDone(r)
    BY <2>2 DEF ContextDone, queueVars, loopVars, NoLostWakeup
  <2>3. CASE Receive(r) \/ GiveUp(r)
    <3>1. UNCHANGED <<queue, loop, notify>> /\ \A q \in Requests : pc[q] = "notify" => pc'[q] = "notify"
      BY <2>3 DEF Receive, GiveUp, queueVars, loopVars, TypeOK
    <3> QED
      BY <3>1 DEF NoLostWakeup
  <2> QED
    BY <1>3, <2>1, <2>2, <2>3
<1>4. CASE Loop
  <2>1. loop' = "select" => queue' = <<>>
    BY <1>4 DEF Loop, Run, DequeueEmpty, SelectNotify, SelectDone, MarkClosed, DrainDone,
                Dequeue, DrainQueue, CheckOp, StartOp, FinishOp, CheckFrame, FinishFrame,
                DrainAnswer, Answer, queueVars
  <2> QED
    BY <2>1 DEF NoLostWakeup
<1>5. CASE RunDone
  BY <1>5 DEF RunDone, queueVars, clientVars, NoLostWakeup
<1> QED
  BY <1>1, <1>2, <1>3, <1>4, <1>5 DEF Next

\* The token or the caller about to send it is never missing: runLoop cannot
\* sleep in its select while a request is queued.
THEOREM WakeupKept == Spec => []NoLostWakeup
<1>1. Init => NoLostWakeup
  BY DEF Init, NoLostWakeup
<1> QED
  BY <1>1, WakeupNext, TypeCorrect, PTL DEF Spec
=============================================================================
