# A TLA+ verification of helianthus-ebusgo

helianthus-ebusgo is a Go library for the eBUS, a two-wire bus on which several
initiators share the medium by arbitration. It owns a transport to an adapter,
serialises the requests of many goroutines onto the bus, runs the telegram
protocol with its echoes, acknowledgements and repeats, and offers a responder,
a passive decoder and a worker that answers from shared memory.

The modules here describe the library's own control flow. Each is translated from
the Go source; `PROJECT.json` names, for every definition, the lines it stands for.

## 1. Inventory

| Component (source) | State | Operations | Hard behaviour | What makes it correct |
|---|---|---|---|---|
| Driver runtime (`transport/driver_runtime.go`) | current generation, constructions, retirement fence, quarantine, leases | Start, Stop, Replace, Admit, Invoke, Release | three lifecycle calls, factory, adapter worker, callbacks and timers interleave; each may hang | one owner of the bus; a callback never runs on a closed transport; quarantine is final; Stop returns |
| Request queue and run loop (`protocol/queue.go`, `bus.go`) | aging priority queue, notify channel, response channels | Send, RawTransportOp, Run | callers race the loop and the close; contexts end at any point | no request lost, duplicated or starved; no lost wake-up |
| Retry loop (`protocol/bus.go`) | three budgets, recovery token, SYN count | sendWithRetries, waitForSyn, reconnect | any sequence of errors, contexts ending in every wait | bounded attempts; recovery completed; bids only on an idle bus |
| Transaction (`protocol/bus.go`) | write position, attempts, decoder | sendTransaction | foreign bytes, AUTO-SYN, escape pairs where an echo is due | legal exchanges; only our own echoes accepted |
| ENH transport, stream (`transport/enh_transport.go`, `ebus_escape.go`, `enh.go`) | parser, decoder, event queue, two windows | ReadByte, ReadEvent, ReadEventWithRawSymbol, StartArbitration, RequestStart, RequestInfo, Init, Reconnect | reader and RequestStart share atomics; timeouts, faults, resets, TCP fragments | no symbol decoded with a stale escape lead; raw and logical view agree; windows have deadlines |
| ENH transport, connection (same file) | `conn`, `closed`, readMu, writeMu, connMu | the above, Write, Close | Close races a reconnect; reads, writes and dials hang | no connection leaked; no deadlock; INIT first |
| ebusd TCP, plain TCP and UDP transports | buffers, connection | ReadByte, Write, Close | partial lines, late answers | answers belong to their command |
| Telegram FSM (`protocol/telegram_fsm`) | phase, lengths, repetition counters | Feed, EnterArbitrating, EnterPassiveTracking, ResetToIdle | symbols injected by the adapter, repetitions, garbled streams | follows every exchange; drops the injected symbols and no others |
| Responder (`protocol/responder`) | phase, retry counters | receive, acknowledge, answer | NACK and timeout orders | answers once, in time, to its own address |
| Collision monitor (`protocol/collision_monitor.go`) | frames sent lately, former address with its grace, active collision | SetInitiator, SetMuted, RecordTX, ObserveRX | window edges, changes of address | a foreign frame from our address is noticed, an echo is not taken for one |
| Source address selection (`protocol/source_address_selection.go`) | inquiry budget and cooldown; per call: frames heard | Select | concurrent calls share the budget; evidence contradicts itself; contexts end | never an address that anything speaks against; the call returns |
| Address classes and tables (`protocol/address_class.go`, ...) | none | pure functions of a byte | boundaries | what is selected can be sent from and answered to |
| AA23 plans (`localworker/aa23_plans.go`) | subscribers, registrations, initiator addresses, pool of slots; per worker: view and pin | Register, Renew, AdvanceSource, Unregister, Disconnect, Reset, Expire, BindWorker, Prepare, Publish, Abort, Adopt, Select, Release, acknowledgements | two processes exchange notices that may be late, repeated or lost; workers die | a plan in use is not reused; an address passes on only when its last reader is gone |
| AA24 lanes (`localworker/aa24_ipc.go`) | four rings in shared memory; plans, commands and fences of both endpoints | publish, revoke, submit, stop, Poll; service, complete, acknowledge, post; resynchronise, tear down | lanes fill, control overtakes data, clocks fail, the worker dies, either side waits for the other | nothing read before it is published; no revocation lost; no command twice; shutdown ends |
| AA25 engine (`localworker/aa25_engine.go`) | character timing | sampling, echo comparison | bit-level races with the bus | releases the line on a mismatch |
| AA26 responder (`localworker/aa26_responder.go`) | frame position, pin, reply position, observer ring | events of the engine, Poll, adopt, revoke, initiator hold, next stream | authority is withdrawn on two control planes between any two symbols | answers only what it heard, and only under full authority |
| Determinism (`determinism`) | idempotency entries | Do, expiry, retry | one key from two callers | one execution per key and lifetime |
| Types, CRC, B503, emulation, GPIO, commands | none or hardware | codecs, I/O | value boundaries | round trips |

Interaction: a caller's `Send` enqueues (BusQueue); the run loop takes one request
and calls the retry loop (BusSend), which arbitrates and runs transactions
(BusTransaction) over a transport, which for an ENH adapter is the stream
(EnhStream) over a connection that is swapped on reset (EnhConnection). The driver
runtime (DriverRuntime) decides which transport may exist at all and hands it to
users under leases. The modules meet at these calls: BusQueue lets the service of
a frame take any finite time, BusSend lets a transaction have any outcome the code
can return, BusTransaction lets the transport deliver any byte, EnhStream lets the
adapter send any message. So each holds whatever its neighbour does.

The local worker is a second world: the host registers addresses and publishes
plans of prepared answers (Aa23Plans, after PlanCandidate has accepted them), tells
the worker about them over shared-memory lanes (Aa24Ipc over Aa24Lane), and the
worker answers requests from them (Aa26Responder). Aa24Lane shows that a ring in
shared memory is the queue of Aa24Fifo, which is what Aa24Ipc takes a lane for;
Aa26Responder composes the responder with the worker's side of Aa23Plans and of
Aa24Ipc and leaves the host to do anything those modules allow.

Source selection is called before the bus is used and meets the rest only in the
address it returns. The telegram machine is fed by callers outside the repository.

## 2. Modules and how they follow the code

`DriverRuntime`: one step per critical section of `DriverRuntime.mu` or of a
lease's mutex, per exchange with the adapter worker and per timer. `pc[p]` is the
place of the goroutine `p` in Start, Stop or Replace. A construction, its transport
and the generation it becomes share one number. The adapter worker is external:
`adapter[c]` says what it has done, as far as `driver_runtime.go` can tell.

`DriverOwnership`: the promise in five actions: open when nothing is held, publish
only the sole holder, withdraw, close, seal. `DriverRuntime` refines it.

`BusQueue`: `queue` lists the requests in arrival order (the code's `seq`); `Pop`
computes the effective priority with aging and removes one. The run loop's steps are the
points where a caller or a context can be seen to have moved.

`BusSend`: the iterations of `sendWithRetries`. `attempts`, `wireSyns` and
`lateStarts` are history variables. `CollisionRecoveryLifecycle` has no
implementation in the repository; it is external and may invalidate a recovery
whenever it likes.

`BusTransaction`: one telegram byte by byte. `out` holds the symbols that are still to be
written, `sent` the half of an escape pair that a plain transport has confirmed of the
first of them; `log` (an entry for each symbol written or read) and `echoes` are history
variables.

`EnhStream`: the goroutine that holds readMu, and RequestStart beside it. Each
store to an atomic that the other can see is a step. `lead` is a history variable:
where the 0xA9 the decoder holds came from; `outstanding` and `staleTimeout`
remember an unanswered START and a timeout that precedes the current window.

`EnhConnection`: who holds which mutex and which connections are open, for any
number of callers. It stands on its own: what flows over the connection is
EnhStream's subject.

`TelegramFsm`: the machine beside the bus it listens to. `coming` is the rest of the
exchange that initiator and target put on the wire, each symbol with its phase; the
machine must be in that phase when the symbol arrives. Exchanges between two
initiators are not fed to it, as its comment demands.

`Addressing`: the address table and the functions over it, as operators. `SourceSelection`:
one step per listening window, critical section and decision of a call of Select;
`stage` is the place of each call. `setup` is the configuration of the selector, including its evidence.

`Aa23Plans`: `records`, `subscribers`, `pool` and `views` are the tables of the code;
notices and acknowledgements are sets that only grow, so that any may arrive again.
An operation is one action, since registry and view are each used by one thread.
`PlanOverlap`: aa23PlanOverlaps, one step per turn of a loop. `ResponseCodec`: the
encoder and the validator of a response with their checksums. `PlanCandidate`: the
validation that uses both, and the layout of an accepted plan.

`Aa24Ipc`: `h` and `w` are the endpoints, `hc`, `wc`, `hd` and `wd` the lanes. Poll and
the worker's service are split where the peer can act in between: Poll after its tick,
after the data head is sampled and after control is read. The clock of an endpoint may
fail for good, or read the tick zero before its first sound reading, which fences and
leaves the guard open for later readings. `fenceHead`,
`started` and `overtaken` are history variables. `Aa24Lane`: one ring, whose slots are
written and copied word by word in any order. `Aa24Fifo`: what it promises.

`Aa26Responder`: one action per call; `r` holds the responder with its view and
endpoint, `seen` what a subscriber has made of the events so far (a history variable).
Ticks are abstract: whether a deadline has passed is an input.

MC modules give instances. Several instances of a module in one run are the elements
of a set `Setups` (or `Bounds`), of which Init chooses one; a behaviour keeps it.
`MCBusTransaction` and `MCAa24Ipc` are sums of two systems that do not interact: a
variable (`observing`, `laneAlone`), chosen by Init, says which of the two moves.
`MCEnhStream` has logical readers with a RequestStart and raw readers with INIT and
failing writes and dials, each with and without a dialFunc.
`*Proofs` modules hold the theorems. A definition with the comment "Mutant" is a
wrong version of the definition that follows it; substituted for it, it must break
the property that `PROJECT.json` pairs it with. It is not part of the model.

## 3. Runs

A property with names in brackets is the conjunction of these parts; each part is stated
in its module with a comment and has a mutant of its own that breaks it.

| Run | Properties | Instance and why it is enough |
|---|---|---|
| driver_runtime | TypeOK, SingleOwner, GenerationInUse (CallbackOwnsBus, EffectiveContextLive), ImplementsOwnership, QuarantineIsFinal | 3 goroutines, 2 constructions, 1 lease: two calls race while a third is past its checks; two owners need two constructions. Goroutines are interchangeable and none of these properties is a liveness property, so symmetry is sound |
| driver_leases | DrainAccounting, StopReturns | 2 leases of one generation: every order of "last one out"; Stop against a factory, a callback and an adapter that hang |
| bus_queue | TypeOK, RequestInOnePlace, NoLostWakeup, BoundedOvertaking, EveryCallReturns | 2 requests, whose identifiers are reused without end: one waits while the other keeps coming, at priorities on both sides of that of transport operations; threshold 2 so that promotion happens. The safety invariants are proved for any number of requests |
| send_retries | StartsBounded (TypeOK, AttemptsBounded, OneStartAfterDone), RecoveryInv (RecoverySettled, RebidOnIdleBus), SendReturns | budgets 2, 1 and 2, so that a budget is used up, renewed by a reconnect and used up again; both kinds of transport, with and without deadline and Reconnect |
| transaction | TransactionInv (TransactionTypeOK, ExchangeLegal, EchoesAreOurs) | a broadcast, an initiator and a target telegram with bytes 0xA9 and 0xAA, all transports, ten bus bytes including SYN, escape and its seconds, ACK and NACK; responses up to 2 bytes |
| | TelegramFollowed (FsmTypeOK, OnlyInjectionsDropped, InStep) | telegrams of 0, 1 and 16 bytes both ways, bytes that look like NACK and SYN, every repetition, injections at every place, resets and stray symbols |
| enh_stream | QueueInv (TypeOK, RawPairs), NoStaleLead | symbols 0x01, 0xA9, 0xAA, which are all the decoder tells apart beside 0x00, with five operations and RequestStart in parallel; for RawPairs a queue bound of 2, which raw capture doubles, so pairs are evicted and dropped |
| enh_connection | NoLeak (TypeOK, ClosedForGood, OneConnection), InitFirst, CloseUnblocks | 3 callers and one reconnect: a stalled write, a hanging dial and Close at once |
| plan_pool | BooksAgree (TypeOK, RetiringIsOwed, OneCurrentPlan, GenerationsDiffer, CountsExact), StorageHeld (PinHoldsSlot, AddressHeld), PublishedIsImmutable | two slots, so that a slot is reused while another plan is retained; six bounds, each with two of one thing: workers, subscribers and streams, sources and registrations, clock ticks, addresses, kinds of address. Slots are interchangeable |
| plan_candidate | VerdictInv (TypeOK, HeapKept, VerdictExact, AcceptedIsUnambiguous, CopiedWhole), CodecsAgree (ValidatesEncodings, EncodersAgree) | every plan of up to 4 entries, the least number for which a heap has three levels; responses of up to two bytes out of 0, 1, 0xA9 and 0xAA, each also with one symbol changed, lost or added; a slot that some plans just fill |
| source_selection | SelectionInv (TypeOK, SelectedUnopposed, HintFallsThrough, SelectedCanSend), BudgetKept (InquiryBudget, DisabledAfterBudget), SelectReturns | all 256 explicit sources; two records of evidence about the first candidates and their companions; two callers with a budget of one inquiry, three calls |
| ipc | ControlKept (TypeOK, ReservedSlot, PlansListed, RevocationInFlight), EvidenceKept (TablesFit, NoFalseDiscontinuity, CompletionsMatch), TokensOnce, OneSideLeaves | lanes of one to three slots, so that every lane is full; eight mappings, one kind of trouble each (see MCAa24Ipc) |
| | LaneInv (LaneTypeOK, IndicesAccepted, PeekedIsHead), ImplementsFifo | a ring of two slots of two words, indices up to 4: it goes round twice and reaches its last index |
| responder | HoldsInv (TypeOK, WireExclusion, AcknowledgedIsOver), HeardAndTold (AnswersWhatWasHeard, LossIsTold), SilentWithoutAuthority, RetiredIsReclaimed | five responders: requests with escaped bytes and any symbol at any place; a plan superseded in use; expiry, stop, gaps and the next stream; initiators; a ring that loses some events of a transaction. The checksum takes four values, two of which must be escaped |

Bounds of the models and where they are: `MaxConstructions` (driver), `MaxResets`
(EnhStream), `MaxConnections` (EnhConnection), `MaxLength` of a response
(BusTransaction), `Bounds` (Aa23Plans), `plans`, `tokens`, `maxSequence`, `ticks` and
`streams` of a setup (Aa24Ipc), `MaxIndex` (Aa24Lane), `maxCalls` and `maxFrames`
(SourceSelection), `streams`, `commands` and `buffer` (Aa26Responder). The counters of
the local worker stop at MaxUint64 in the code; the models let them stop at a small
number, with the code's refusal. Everything else is bounded by the code.

CHECK_DEADLOCK is off where a system may stop: a bus that is closed and drained, a
transport that is closed when all calls have returned, selections that have returned,
a plan that was judged, and the local worker's parts when plans, tokens and clocks
are used up.

enh_stream: NoStaleLead excludes, in its statement, callers that call Init during an
arbitration (the code resets nothing there; Init is meant for start-up), dials that fail
and writes of START that fail: with each of them the code violates it (see below). The
logical setups of the run have none of the three, the raw ones all; RawPairs has no
such condition.

### Where the code does otherwise than the repository says

Each of these is stated in its module, or is an exception named there, and TLC shows a
behaviour of the code against it after the change. None is part of a run.

| Change | The behaviour | What the repository says |
|---|---|---|
| MCDriverRuntime.cfg, INVARIANT StartIsIdempotent | Replace, refused by registerConstruction, leaves the retirement fence set; a later Start of an active generation fails | driver_runtime.go:223: Start "is idempotent for the active generation" |
| MCBusQueue.cfg, INVARIANT GivenUpOpNeverRuns | RawTransportOp returns as given up, and then its operation runs | bus_test.go:562 fails a run with "raw transport op executed after cancellation" |
| MCBusTransaction.cfg, INVARIANT PayloadIsNotIdle | on a plain transport the decoded pair of 0xAA in a response is taken for an idle bus | bus.go:871: "SYN (0xAA) during response means bus went idle", of symbols decoded by bus.go:713 |
| MCBusTransaction.cfg, INVARIANT IdleIsNotPayload | on an ENH transport a SYN of the wire is taken for the length or data of a response | bus.go:873: "the adapter does not inject idle SYN into the byte stream" |
| MCEnhStream.cfg, INVARIANT WindowHasDeadline | an answer being processed erases the deadline of the next window | enh_transport.go:138: awaitingStart "is force-closed even if no STARTED/FAILED arrives" |
| MCEnhStream.cfg, PROPERTY NoPreGrantByte | the INIT exchange of a reconnect queues bytes received while a START is unanswered | enh_transport.go:122: they "must not leak into pendingEvents" |
| MCEnhStream.cfg, INVARIANT GrantedClean | the first half of a frame that follows STARTED in the same segment is dropped, its second half is then an orphan | enh_transport.go:909: "so that ReadByte starts with a clean state" |
| EnhStream.tla, NoStaleLead without `~setup.dialFails`, and `dialFails \|-> TRUE` in Logical | NoStaleLead fails: a failed dial after RESETTED resets nothing | enh_transport.go:1995: the decoder "MUST be reset here" |
| EnhStream.tla, NoStaleLead without `~setup.writeFails`, and `writeFails \|-> TRUE` in Logical | NoStaleLead fails: the reader consumes escapeResetPending before the rollback has closed the window | enh_transport.go:1464: consumed "before the next non-dropped byte is fed" |
| Aa24Ipc.tla, RevocationInFlight without `overtaken` | Poll takes its time before it reads control; a retirement captured in between is consumed, taken for a fault of the clock and dropped, and its plan stays quarantined | aa24_ipc.go:2306: "so a pending gap or acknowledgement is not lost" |

### Hazards that no property covers

`PROJECT.json` lists the hazards the properties are for, and those of the table above
that a property states. Beyond them:

- waitForSyn on a silent bus waits for ever for a request without a deadline
  (bus.go:1465); SendReturns is stated for a bus that carries SYN symbols;
- a context that ends in the backoff, the reset delay or the reconnect returns without
  the completion event that every other path emits (bus.go:391); observer events are
  not state of the model;
- the answer to an INFO request that timed out is taken for the next one's
  (enh_transport.go:1168), and a late FAILED for the current START's
  (enh_transport.go:1951): the protocol has no field to tell them apart;
- Init called while a START is unanswered closes the window and keeps the decoder
  (enh_transport.go:321);
- an address that is set, cleared and set again within the grace window counts as the
  former one, and its collisions go unseen (collision_monitor.go:145); two callers with
  one key may both miss in the idempotency store (determinism/idempotency.go:72): these
  components are not modelled yet.

### What else the models show

- SourceSelection: the check of the inquiry budget and its count are two critical
  sections, so concurrent calls overdraw it by one each; InquiryBudget says by how
  much. A context that ends in the window after an inquiry is ignored, and the call
  selects with what it heard.
- Aa24Ipc: a worker whose ordinals have run out cannot post the retirement of a refused
  plan, so that its revocation stays in front of the stop and only the host's
  supervisor ends the stream: OneSideLeaves names the case. aa24RetireRetry is never
  appended to. Whichever side leaves first, the other may have to be proven terminated.
  A data record captured between the caller's reading and the data head that Poll
  samples after it (aa24_ipc.go:2101-2108) is consumed as a fault of the clock (:2223):
  the stream is fenced and that record is not delivered, though both clocks are sound.
  It is the counterpart for data of the `overtaken` row of the table above, and is
  reached in the mapping with commands and two ticks. CompletionsMatch is about the
  records that are still unread, and holds.
- Aa26Responder: the responder keeps its latest acknowledgement only; a lost one is
  recovered by the notice that the host repeats, which RetiredIsReclaimed needs and
  the fairness states. AA26AdvanceStream leaves the sequence of raw symbols as it is.
  Servicing control and emitting a symbol are one call, so the authority a symbol has is
  that of the records queued by the time of the decision, as aa26_responder.go:855 says.
- TelegramFsm: an injected 0xAA where the terminating SYN is due cannot be told from it.

## 4. Fairness

- Driver: the waits of Stop end by their timers, so its steps are weakly fair;
  operationMu is strongly fair, because a waiter of a `sync.Mutex` is served even
  when others keep locking it. Nothing is assumed of the factory, the adapter,
  callbacks and other callers.
- BusQueue: the loop and a caller with an answer waiting proceed; no context ends.
- BusSend: every call on the transport returns (read timeouts); a deadline expires;
  a bus that is listened to for ever delivers SYN symbols. On a bus that stays
  silent a request without a deadline does wait for ever, in `waitForSyn`.
- EnhConnection: mutexes are strongly fair, local steps weakly fair. Nothing is
  assumed of the adapter, of `dialFunc` or of a write in progress. INIT is two
  bytes into the empty buffer of a new connection, so its write returns.
- SourceSelection: a window ends by its deadline and an inquiry returns; no frame
  need arrive and no context end. The second is an assumption on the bus it is given:
  the code sets InquiryExistence no deadline of its own, beside the caller's context.
- Aa24Ipc: the host keeps polling and the worker keeps servicing control, finishes
  what it began, posts its retirements and tears down when it may: both are loops of
  their owners. These are strongly fair where the peer's lanes can close and open
  them again. Nothing is assumed of the clocks, of callers or of data.
- Aa26Responder: the worker polls, so that a transaction without echo ends; the host
  repeats the notices of plans it retains and reclaims what is acknowledged.

## 5. Proofs

Checked by TLAPS for all values of the constants. A theorem states the property of a run
(`PROJECT.json` pairs them); the run shows it on an instance, the theorem for any.

| Module | Theorems | For any |
|---|---|---|
| DriverRuntimeProofs | TypeCorrect, OneOwner, InUseIsFit, DrainIsExact, QuarantineHolds, RuntimeImplementsOwnership | callers, leases, constructions |
| BusQueueProofs | TypeCorrect, NoStarvation, OnePlace, WakeupKept | requests, priorities, capacity, threshold |
| ProtocolProofs | StartsAreBounded, RecoveryIsSettled | retry budgets |
| | TransactionIsLegal | telegrams, bytes on the bus, length of a response, drain limit; the three kinds of transport |
| | TelegramIsFollowed | lengths up to 16, contents, garbled streams |
| | BudgetIsKept | concurrent calls, configurations, frames |
| EnhStreamProofs | QueueIsSound, LeadsArePaired | setups: symbols, operations, queue bound; absorption budget |
| EnhConnectionProofs | NoConnectionLeaks, InitComesFirst | callers, connections |
| Aa23PlansProofs | StorageIsHeld, PublishedStays, BooksAreKept | pool, workers, subscribers, addresses, bounds |
| Aa24Proofs | LaneIsSafe, LaneImplementsFifo | capacity, words of a slot, largest index |
| | ControlIsKept, TokensAreOnce | lane capacities, limits, numbers of plans, tokens, streams |
| Aa26ResponderProofs | ResponderHolds, ResponderIsSilent | plans, addresses, requests, answers, checksums, streams, ring size |

The inductive invariants and why they are needed:

- DriverRuntime. SingleOwner is not inductive: that a second construction cannot start
  depends on what every goroutine has yet to do. `OwnershipInv` says who holds
  operationMu (LockInv); that numbers not yet issued are untouched (FreshInv); that a
  goroutine inside startLocked has a construction of its own, without a transport
  before the factory call (BuildInv, DistinctInv); that a Stop works on an admitted
  generation behind the fence (StopInv); that there is one construction at most, and
  then nothing effective or being stopped (ConstructionInv); that the effective
  generation is admitted (CurrentInv); and that whatever may hold the bus is under
  construction, effective, being stopped or sealed by quarantine (OwnerInv). Types need
  that counters do not go below zero: activeCallbacks is the number of leases in a
  callback (CallbackCount), with LeaseInv.
  `UseInv` adds what callbacks rely on: what a lease owes its generation (OwedInv), that
  the effective generation accepts leases and was never asked to close (EffectiveInv),
  nor was one under construction (RequestInv), that a caller about to ask has seen the
  last callback return (QuietInv), and that a callback runs on the effective
  generation, on one being drained or under quarantine, and keeps every other transport
  out (CallbackInv). The refinement of DriverOwnership goes through these step by step:
  the call of the factory opens, AdmitConstruction publishes, Withdraw withdraws, the
  adapter or a factory without a transport closes, quarantine seals, and everything
  else is a stutter.
- BusQueue. BoundedOvertaking is inductive with the types, but rests on what a pop does
  to the rest of the queue (PopLemma, PassedOver): an aged item is passed over only by
  an older one, so age and place never grow together. RequestInOnePlace needs LoopInv
  (the loop holds a request exactly in its serving steps, and the bus is closed before
  the last drain).
- BusSend. `SendInv`: the attempts so far are paid for by the sessions that are over and
  by the budgets of this one (BudgetInv), where a reconnect under way has not begun a
  session yet; the arbitration that slipped past the context check was the last
  (LateInv); the wait for SYN counts no more than the wire carried (WaitInv).
- BusTransaction. That the log is the beginning of an exchange does not say of which, nor
  that what is about to be written continues it. `ExchangeInv` says at every place how far
  the exchange is (Progress): in the command loop whether it was refused once, in the
  response loop how often it was NACKed. While symbols are written, the log with what is
  left of them is the stage that follows (Planned), so confirming a symbol only moves it
  from one to the other (MovesToLog), and the half of an escape pair begins the mark of its
  symbol. Every stage can be completed to an exchange (StagesExtend, PlannedExtends), hence
  is a legal prefix, whatever fails next (ProgressLegal). A refusal is reported for a whole
  exchange with or without its SYN (RefusalIsWhole). That an accepted echo is our own is
  shown for the guards of the echo check one by one (EchoOf); in the drain it needs that
  the symbol is a payload 0xAA on a transport with flags.
- TelegramFsm. That the machine is in the phase of the next symbol says nothing of the
  symbols after it. `FollowInv` says for every state of the machine what is left of the
  telegram (Due): in the header the bytes after those consumed, in the data as many as the
  length less the count, then the checksum, then what follows a frame that was repeated
  as often as the machine has counted (MasterAnswer, SlaveAnswer). An exchange, which the
  module writes as frames joined to each other, is first taken apart symbol by symbol
  (MasterFrameSplit, RefusedSplit, ExchangeSplit); then each state forwards its symbol and
  leaves what is due in the next (FeedDue). MachineOK bounds the counters under any
  symbols, for the streams that are garbled (FeedTyped).
- EnhStream. `StreamInv`. QueueInv is inductive with its types; the work is in
  what the queue operations do to pairs: an eviction takes the first evictable item, so
  what precedes it holds no raw item, and takes a raw item with its logical one
  (EvictedQueue), and a decoded symbol is the one its raw item announces (LogicalFits).
  LeadInv says where a discarded 0xA9 may be pending: in the window, on a connection
  that is down, in StartArbitration, or between an answer and its reset, and never
  while INIT is received (Guarded); every way out of these resets the decoder. FlowInv
  says that messages are taken from a connection that is up.
- EnhConnection. `ConnectionInv`: each mutex is held exactly by the caller whose place
  says so (LockInv); between its dial and its swap a caller's connection is open,
  unused and nobody else's (FreshInv); only it and t.conn are open (OpenInv); if the
  connection of a closed transport is open, some Close is about to close it
  (CloserInv); INIT was sent on t.conn or its sender holds writeMu (ReadyInv).
- SourceSelection. `SelectorInv` counts callers: what is allowed and not counted fits
  beside the count (AllowanceInv), and every result was counted before (CountInv).
- Aa23Plans. `StorageInv`: a view calls current what was published for its worker and is
  not of the future (CurrentFits), what it has pinned can be read and is marked pinned
  (PinFits), and a plan that can be read belongs to the registration that holds its
  address (AddressesFit). Every operation is a composition of steps of slots (SlotStep,
  Held, NotNew), for which this is shown once.
  `BooksInv` adds what the counts rest on. A generation or a registration number that
  was not given out yet occurs nowhere, so the next plan differs from all; a row of the
  retirement table names a plan that is retiring and counts exactly the subscribers that
  have not answered; a plan is in one slot. The counts are then cardinalities of sets
  that an operation changes by one element, or, when a stream ends, by all of its own.
- Aa24Lane. `RingInv`: the copies of the indices lag and never lead (ViewInv), a writer
  has a free slot (RoomInv), and the words written, published and copied are those of
  the record (PutInv, UnreadInv, CopyInv); indices less than a ring apart have
  different slots (SlotsApart). The refinement maps the queue to the records between
  the indices.
- Aa24Ipc. `IpcInv`. ControlKept relates what two processes remember to what is on four
  lanes between them. The life of a plan is one line: published and under way to the
  worker, held by it, used, retired with its answer under way, forgotten; a revocation
  runs beside it. `Life` says that a plan is in exactly one of these places, and every
  operation moves plans along it; `Unused` that numbers not given out are nowhere;
  `InOrder` that records wait in the order of publication, so that a revocation never
  overtakes its plan. GapOK and StopOK say why the reserved slots are free: what may
  still be sent fits beside what waits. That the worker's table of refused plans fits
  follows from its being a part of the host's list (an injection into it). TokensOnce
  needs floors: every token on the lane or held is below what the host will issue and
  above what was delivered before it.
- Aa26Responder. `AuthorityInv` is HostOK and Good(r). That an acknowledged plan stays out
  of use is not inductive: the worker might adopt it again. So ViewOK says that what the
  view calls current is of its address and stream and that nothing was said against it,
  and that what was said against is retired at the host, which never goes back (Onward);
  HoldOK says the same of what is acknowledged, and that a transaction and its pin are
  one. SendOK says that a request is read and an answer sent inside a transaction only,
  from the answer's first symbol to its last, and TextOK, RingOK and ReadOK bound the
  request, the ring and what was read of the lane. A call of the worker is a composition of functions of r, so the lemmas
  follow the code's own calls: each function keeps Good and sends nothing (Hushed), down
  to aa26Emit, which is reached only after aa26Authority found no reason against. Since
  it services the lane to its end first, what it knows is all that was sent (KnowsSent);
  so what goes out has authority on both planes (Armed, Fine), whatever the worker had
  read before. ResponderIsSilent is that fact for a step.

Assumptions on the constants, all in the modules that declare them and evaluated by TLC:
no caller is the value for "none", finite sets of leases, callers, slots and addresses,
limits that are at least 1 (the last sequence number of a stream too), a promotion
threshold of at least 2, symbols, checksums and answers that are bytes, telegrams with at
least a source and a target, no address that needs an escape, and in Aa23Plans that None
is neither a slot nor a record.

Only model-checked, and why:

- liveness (StopReturns, EveryCallReturns, SendReturns, CloseUnblocks, SelectReturns,
  OneSideLeaves, RetiredIsReclaimed): fairness is out of the prover's reach;
- SelectionInv and HeardAndTold: what a caller makes of its evidence, and a subscriber of
  its events, is a fold over them, so both need induction over data;
- VerdictInv and CodecsAgree: checksums use Bitwise, which the provers do not know;
- EvidenceKept: a command that outlives its stream lingers, and how many do is the
  result of a fold over the outstanding ones, again induction over data.

## 6. Not modelled

`PROJECT.json` lists every component with its status. Left out for good: logging,
counters and observer events (no state depends on them), hardware register access,
command line tools, test doubles, error wording, payload layouts without state, the
byte layout of the AA24 mapping, and the AA25 engine, whose correctness lies in tick
arithmetic over real time. Left for later: the responder of `protocol/responder`, the
collision monitor, the idempotency store, the ebusd and plain transports, the codecs.

## 7. Plan

1. Core (done): driver runtime, bus queue, retry loop, transaction, ENH stream and
   connection; first theorems.
2. Local worker, source selection, telegram machine (done): AA23, AA24, AA26.
3. Proofs. Done: every safety property of the driver runtime, the bus queue, the retry
   loop, both parts of the ENH transport, the plans and their pool and the lanes; the
   inquiry budget; control and tokens of the endpoints; the transaction and the telegram
   machine; exclusion, acknowledgement and authority of the responder.
4. Models that remain, with the question of each:

   | Module | Question |
   |---|---|
   | Responder | is a telegram answered once, by its addressee, and repeated as NACKed? |
   | Collision monitor | does a change of address ever hide a collision of the current one? |
   | Idempotency store and retry | one execution per key and lifetime with two callers? |
   | ebusd TCP and plain transports | does an answer belong to its command? |
   | Fixed-point codecs | agreement with a reference definition |
