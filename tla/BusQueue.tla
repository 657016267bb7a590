------------------------------ MODULE BusQueue ------------------------------
(***************************************************************************)
(* protocol/queue.go and the request side of protocol/bus.go: Send and     *)
(* RawTransportOp enqueue a request under queueMu, wake the run loop and   *)
(* wait for its answer or for their context; the run loop serves one       *)
(* request at a time in priority order, ages what it leaves behind, and    *)
(* closes and drains the queue when its own context ends.                  *)
(*                                                                         *)
(* A request object is identified with the goroutine that waits for it.    *)
(* The identifier is free again when that goroutine has returned and the   *)
(* run loop no longer refers to the object.  A call refused because of its *)
(* context, its frame, a full queue or a closed bus is a stuttering step.  *)
(* What happens on the wire while a frame is sent is BusSend's subject.    *)
(***************************************************************************)
EXTENDS Integers, Sequences, FiniteSets

CONSTANTS Requests,
          NoRequest,            \* the run loop holds no request
          Sources,              \* source addresses of frames: their priorities
          transportOpPriority,
          starvationThreshold,
          outCap                \* queue capacity

ASSUME NoRequestAssumption == NoRequest \notin Requests
ASSUME PriorityAssumption == Sources \subseteq Nat /\ transportOpPriority \in Nat
ASSUME BoundsAssumption == starvationThreshold \in Nat \ {0, 1} /\ outCap \in Nat \ {0}

VARIABLES
  queue,     \* the queued requests in the order of their seq
  priority, age,
  notify,    \* a token is in the notify channel
  closed,
  runDone,   \* the context of Run is done
  loop,      \* where runLoop is
  serving,   \* the request runLoop has popped
  pc, kind,  \* per request: where its caller is, and "frame" or "op"
  ctxDone,   \* per request: its context is done
  started,   \* per request: transportOpStarted
  resp       \* per request: what its response channel holds

queueVars  == <<queue, priority, age>>
loopVars   == <<loop, serving, runDone, closed>>
clientVars == <<pc, kind, ctxDone>>
vars == <<queueVars, notify, loopVars, clientVars, started, resp>>

Queued(r) == \E i \in 1 .. Len(queue) : queue[i] = r

Init ==
  /\ queue = <<>>
  /\ priority = [r \in Requests |-> 0]
  /\ age = [r \in Requests |-> 0]
  /\ notify = FALSE /\ closed = FALSE /\ runDone = FALSE
  /\ loop = "off" /\ serving = NoRequest
  /\ pc = [r \in Requests |-> "idle"]
  /\ kind = [r \in Requests |-> "frame"]
  /\ ctxDone = [r \in Requests |-> FALSE]
  /\ started = [r \in Requests |-> FALSE]
  /\ resp = [r \in Requests |-> "empty"]

-----------------------------------------------------------------------------
(* priorityQueue                                                           *)

\* push
Push(r, p) ==
  /\ queue' = Append(queue, r)
  /\ priority' = [priority EXCEPT ![r] = p]
  /\ age' = [age EXCEPT ![r] = 0]

\* Mutant: an item is promoted one pop too late.
PromotedLate ==
  [r \in Requests |->
     IF Queued(r) /\ age[r] >= starvationThreshold THEN 0 ELSE priority[r]]

\* Mutant: every pop moves the queued items up one step, past priority zero.
PromotedPastZero == [r \in Requests |-> IF Queued(r) THEN priority[r] - 1 ELSE priority[r]]

\* The priorities after pop has aged every queued item and promoted the starved.
Promoted ==
  [r \in Requests |->
     IF Queued(r) /\ age[r] + 1 >= starvationThreshold THEN 0 ELSE priority[r]]

\* Position i holds the item heap.Pop returns: least priority, then least seq.
First(i, prio) ==
  /\ i \in 1 .. Len(queue)
  /\ \A j \in 1 .. Len(queue) :
       \/ prio[queue[i]] < prio[queue[j]]
       \/ prio[queue[i]] = prio[queue[j]] /\ i <= j

\* Mutant: pop does not age what it leaves behind.
PopAgeless(r) ==
  \E i \in 1 .. Len(queue) :
    /\ First(i, Promoted)
    /\ r = queue[i]
    /\ queue' = SubSeq(queue, 1, i - 1) \o SubSeq(queue, i + 1, Len(queue))
    /\ priority' = [Promoted EXCEPT ![r] = 0]
    /\ UNCHANGED age

\* pop on a queue that is not empty; the popped queueItem is dropped.
Pop(r) ==
  \E i \in 1 .. Len(queue) :
    /\ First(i, Promoted)
    /\ r = queue[i]
    /\ queue' = SubSeq(queue, 1, i - 1) \o SubSeq(queue, i + 1, Len(queue))
    /\ priority' = [Promoted EXCEPT ![r] = 0]
    /\ age' = [q \in Requests |-> IF Queued(q) /\ q # r THEN age[q] + 1 ELSE 0]

-----------------------------------------------------------------------------
(* Send and RawTransportOp                                                 *)

\* The request may be pushed: the bus is open and the queue has room.
Accepted(r) == ~closed /\ Len(queue) < outCap

\* Up to the release of queueMu.
Enqueue(r) ==
  /\ pc[r] = "idle" /\ ~Queued(r) /\ serving # r
  /\ Accepted(r)
  /\ \E k \in {"frame", "op"} :
       /\ kind' = [kind EXCEPT ![r] = k]
       /\ \E p \in IF k = "op" THEN {transportOpPriority} ELSE Sources : Push(r, p)
  /\ pc' = [pc EXCEPT ![r] = "notify"]
  /\ ctxDone' = [ctxDone EXCEPT ![r] = FALSE]
  /\ started' = [started EXCEPT ![r] = FALSE]
  /\ resp' = [resp EXCEPT ![r] = "empty"]
  /\ UNCHANGED <<notify, loopVars>>

\* Mutant: only the caller that finds its request alone in the queue notifies.
NotifyIfFirst(r) ==
  /\ pc[r] = "notify"
  /\ notify' = (notify \/ queue = <<r>>)
  /\ pc' = [pc EXCEPT ![r] = "wait"]
  /\ UNCHANGED <<queueVars, loopVars, kind, ctxDone, started, resp>>

\* The non-blocking send on notify.
Notify(r) ==
  /\ pc[r] = "notify"
  /\ notify' = TRUE
  /\ pc' = [pc EXCEPT ![r] = "wait"]
  /\ UNCHANGED <<queueVars, loopVars, kind, ctxDone, started, resp>>

\* The caller's context ends, by deadline or cancellation.
ContextDone(r) ==
  /\ pc[r] # "idle" /\ ~ctxDone[r]
  /\ ctxDone' = [ctxDone EXCEPT ![r] = TRUE]
  /\ UNCHANGED <<queueVars, notify, loopVars, pc, kind, started, resp>>

\* The caller receives its answer.
Receive(r) ==
  /\ pc[r] \in {"wait", "opWait"}
  /\ resp[r] # "empty"
  /\ pc' = [pc EXCEPT ![r] = "idle"]
  /\ resp' = [resp EXCEPT ![r] = "empty"]
  /\ UNCHANGED <<queueVars, notify, loopVars, kind, ctxDone, started>>

\* The caller gives up, unless its transport operation has been seen to start.
GiveUp(r) ==
  /\ pc[r] = "wait" /\ ctxDone[r]
  /\ pc' = [pc EXCEPT ![r] = IF kind[r] = "op" /\ started[r] THEN "opWait" ELSE "idle"]
  /\ UNCHANGED <<queueVars, notify, loopVars, kind, ctxDone, started, resp>>

-----------------------------------------------------------------------------
(* runLoop                                                                 *)

Run ==
  /\ loop = "off"
  /\ loop' = "dequeue"
  /\ UNCHANGED <<queueVars, notify, serving, runDone, closed, clientVars, started, resp>>

\* The context of Run ends.
RunDone ==
  /\ ~runDone
  /\ runDone' = TRUE
  /\ UNCHANGED <<queueVars, notify, loop, serving, closed, clientVars, started, resp>>

DequeueEmpty ==
  /\ loop = "dequeue" /\ queue = <<>>
  /\ loop' = "select"
  /\ UNCHANGED <<queueVars, notify, serving, runDone, closed, clientVars, started, resp>>

Dequeue(r) ==
  /\ loop = "dequeue" /\ Pop(r)
  /\ serving' = r
  /\ loop' = IF kind[r] = "op" THEN "checkOp" ELSE "checkFrame"
  /\ UNCHANGED <<notify, runDone, closed, clientVars, started, resp>>

SelectNotify ==
  /\ loop = "select" /\ notify
  /\ notify' = FALSE
  /\ loop' = "dequeue"
  /\ UNCHANGED <<queueVars, serving, runDone, closed, clientVars, started, resp>>

SelectDone ==
  /\ loop = "select" /\ runDone
  /\ loop' = "markClosed"
  /\ UNCHANGED <<queueVars, notify, serving, runDone, closed, clientVars, started, resp>>

\* One result on the response channel of the request being served.
Answer(r, result, next) ==
  /\ resp[r] = "empty"
  /\ resp' = [resp EXCEPT ![r] = result]
  /\ serving' = NoRequest
  /\ loop' = next
  /\ UNCHANGED <<queueVars, notify, runDone, closed, clientVars, started>>

ContextError(r) == ctxDone[r] \/ runDone

CheckOp(r) ==
  /\ serving = r /\ loop = "checkOp"
  /\ \/ ContextError(r) /\ Answer(r, "error", "dequeue")
     \/ /\ ~ContextError(r)
        /\ loop' = "startOp"
        /\ UNCHANGED <<queueVars, notify, serving, runDone, closed, clientVars, started, resp>>

StartOp(r) ==
  /\ serving = r /\ loop = "startOp"
  /\ started' = [started EXCEPT ![r] = TRUE]
  /\ loop' = "runOp"
  /\ UNCHANGED <<queueVars, notify, serving, runDone, closed, clientVars, resp>>

FinishOp(r) ==
  /\ serving = r /\ loop = "runOp"
  /\ \E result \in {"ok", "error"} : Answer(r, result, "dequeue")

CheckFrame(r) ==
  /\ serving = r /\ loop = "checkFrame"
  /\ \/ ContextError(r) /\ Answer(r, "error", "dequeue")
     \/ /\ ~ContextError(r)
        /\ loop' = "send"
        /\ UNCHANGED <<queueVars, notify, serving, runDone, closed, clientVars, started, resp>>

\* sendWithRetries returns.
FinishFrame(r) ==
  /\ serving = r /\ loop = "send"
  /\ \E result \in {"ok", "error"} : Answer(r, result, "dequeue")

\* Mutant: the queue is drained but the bus is left open.
MarkClosedForgotten ==
  /\ loop = "markClosed"
  /\ loop' = "drain"
  /\ UNCHANGED <<queueVars, notify, serving, runDone, closed, clientVars, started, resp>>

MarkClosed ==
  /\ loop = "markClosed"
  /\ closed' = TRUE
  /\ loop' = "drain"
  /\ UNCHANGED <<queueVars, notify, serving, runDone, clientVars, started, resp>>

DrainQueue(r) ==
  /\ loop = "drain" /\ Pop(r)
  /\ serving' = r
  /\ loop' = "drainAnswer"
  /\ UNCHANGED <<notify, runDone, closed, clientVars, started, resp>>

DrainAnswer(r) ==
  /\ serving = r /\ loop = "drainAnswer"
  /\ Answer(r, "error", "drain")

DrainDone ==
  /\ loop = "drain" /\ queue = <<>>
  /\ loop' = "done"
  /\ UNCHANGED <<queueVars, notify, serving, runDone, closed, clientVars, started, resp>>

-----------------------------------------------------------------------------
Loop ==
  \/ Run \/ DequeueEmpty \/ SelectNotify \/ SelectDone \/ MarkClosed \/ DrainDone
  \/ \E r \in Requests :
       \/ Dequeue(r) \/ CheckOp(r) \/ StartOp(r) \/ FinishOp(r)
       \/ CheckFrame(r) \/ FinishFrame(r) \/ DrainQueue(r) \/ DrainAnswer(r)

Next ==
  \/ Loop \/ RunDone
  \/ \E r \in Requests :
       \/ Enqueue(r) \/ Notify(r) \/ ContextDone(r) \/ Receive(r) \/ GiveUp(r)

Spec == Init /\ [][Next]_vars

\* Run is called, the run loop makes progress (transport reads are bounded by
\* the read timeout, retries by their budgets or a deadline, and a transport
\* operation returns), and a caller that can receive its answer does.  No
\* context needs to end, and callers may keep sending for ever.
Fairness ==
  /\ WF_vars(Loop)
  /\ \A r \in Requests : WF_vars(Notify(r)) /\ WF_vars(Receive(r))

FairSpec == Spec /\ Fairness

-----------------------------------------------------------------------------
(* Properties                                                              *)

LoopPcs == {"off", "dequeue", "select", "checkOp", "startOp", "runOp", "checkFrame", "send",
            "markClosed", "drain", "drainAnswer", "done"}

ServingPcs == {"checkOp", "startOp", "runOp", "checkFrame", "send", "drainAnswer"}

\* Every field of Bus, of its queue and of a request keeps its type, and the
\* queue never holds more than outCap requests.
TypeOK ==
  /\ queue \in Seq(Requests) /\ Len(queue) <= outCap
  /\ priority \in [Requests -> Nat]
  /\ age \in [Requests -> Nat]
  /\ notify \in BOOLEAN /\ closed \in BOOLEAN /\ runDone \in BOOLEAN
  /\ loop \in LoopPcs
  /\ serving \in Requests \cup {NoRequest}
  /\ pc \in [Requests -> {"idle", "notify", "wait", "opWait"}]
  /\ kind \in [Requests -> {"frame", "op"}]
  /\ ctxDone \in [Requests -> BOOLEAN]
  /\ started \in [Requests -> BOOLEAN]
  /\ resp \in [Requests -> {"empty", "ok", "error"}]

\* A waiting caller's request is in exactly one place: queued, being served, or
\* answered.  So no request is lost, served twice or stranded by the close, and
\* the run loop never blocks on a response channel that is already full.
RequestInOnePlace ==
  /\ loop = "done" => queue = <<>>
  /\ \A i, j \in 1 .. Len(queue) : queue[i] = queue[j] => i = j
  /\ \A r \in Requests :
       /\ Queued(r) \/ serving = r => resp[r] = "empty"
       /\ ~(Queued(r) /\ serving = r)
       /\ pc[r] # "idle" => Queued(r) \/ serving = r \/ resp[r] # "empty"

\* The run loop never sleeps on a queue that has work without a token, or a
\* caller about to send one, to wake it.
NoLostWakeup ==
  loop = "select" /\ queue # <<>> => notify \/ \E r \in Requests : pc[r] = "notify"

\* Aging bounds the wait of every request, whatever keeps arriving: the pops an
\* item has been passed over by and its place in arrival order together stay
\* below starvationThreshold + outCap - 1.
BoundedOvertaking ==
  \A i \in 1 .. Len(queue) : age[queue[i]] + i < starvationThreshold + outCap - 1

\* A transport operation that RawTransportOp has given up ("executed after
\* cancellation") is not started afterwards.
GivenUpOpNeverRuns ==
  \A r \in Requests : serving = r /\ loop = "runOp" => pc[r] # "idle"

\* Every Send and RawTransportOp returns although no context ends and other
\* callers keep sending frames of higher priority.
EveryCallReturns == \A r \in Requests : pc[r] # "idle" ~> pc[r] = "idle"
=============================================================================
