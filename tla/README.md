# Hyper-Match-Engine: a TLA+ verification of the engine and its gateway

This directory holds a model of the running system in TLA+, the TLC runs that
check it on small instances, and theorems about its parts that TLAPS proves for
every size. File names below are relative to the repository.

## The system

Two processes talk over one TCP connection with five fixed-size messages
(`cpp/codec`, mirrored by `codec/src/lib.rs`).

* The **engine process** (C++, one thread): `TcpServer` polls sockets, a
  `ConnectionRegistry` owns the connections, a `FrameBuffer` per connection cuts
  messages out of the byte stream, `ServerPipeline` pushes them on the ingress
  ring, `EngineProcessor` dispatches them to the `MatchingEngine`, which works
  on the `OrderBook`, and the events go through the egress ring back to the
  connection that was read. An integrity guard around book operations, an
  allocation counter and a benchmark harness are compiled beside it; `main()`
  runs without them.
* The **gateway server** (Rust, tokio, many tasks): one task per HTTP request
  validates the body (`gateway/src/lib.rs`), registers in the in-flight map,
  sends a frame on a bounded channel and waits with a timeout; a reader task
  applies the engine's events to the in-flight map, the book projection and the
  journal; a connection manager connects, replays the journal and writes
  frames; a broadcaster pushes snapshots of the book to a channel that every
  WebSocket task reads.
* The **web console** shows the book from its socket, and polls while it has
  none.

| Part | Code | Modules | Status |
|---|---|---|---|
| messages | `cpp/codec`, `codec/src/lib.rs` | `WireProtocol`, `Codec`, `CppCodec`, `RustCodec` | modelled |
| order book | `order_book.hpp` | `Lists`, `PriceTimeBook`, `OrderBook` | modelled |
| matching | `matching_engine.hpp` | `MatchingEngine`, `TradeLedger` | modelled |
| retired identifiers | `matching_engine.hpp` (`RetiredIdSet`) | `RetiredHistory`, `RetiredIdSet` | modelled |
| rings | `ring_buffer.hpp` | `BoundedQueue`, `RingBuffer` | modelled |
| processing loop | `engine_processor.hpp` | `EngineProcessor` | modelled |
| framing | `frame_buffer.hpp`, `read_loop` of `engine_client.rs` | `FrameBuffer`, `ReadLoop` | modelled |
| connections, server, pipeline | `connection_registry.hpp`, `tcp_server.hpp`, `server_pipeline.hpp` | `ServerPipeline`, `TcpServer` | modelled |
| integrity guard | `integrity_guard.hpp` | `IntegrityChecks`, `AtomicCommit`, `IntegrityGuard` | modelled |
| allocation counter, benchmark | `alloc_counter.cpp`, `benchmark.hpp`, `latency_stats.hpp` | `AllocationCounter`, `Benchmark` | modelled |
| gateway library | `gateway/src/lib.rs` | `Gateway` | request half |
| gateway requests, in-flight map, reader | `api.rs`, `state.rs` | `GatewayServer` | partly, see Not modelled |
| connection manager, journal | `engine_client.rs`, `journal.rs` | `GatewayServer`, `ReadLoop` | modelled |
| book projection | `book.rs` | `Projection` | modelled |
| event feed | `api.rs`, `state.rs` | `EventFeed` | modelled |
| web console | `web/app.js` | `Console` | the book on the screen |
| metrics, client SDKs | `stats.rs`, `clients` | none | see Not modelled |

## Modules and how they correspond to the code

**WireProtocol** names the messages as records with the fields of the structs.
**Codec** is the scheme the two codecs share: type byte, then fixed-width fields,
little-endian. **CppCodec** and **RustCodec** instantiate it with the tables,
limits and order of checks that each language writes out for itself; whether
those agree is a question, not an assumption. A byte has six values and the
integers one or two bytes, so that every type byte, one unknown type, one
unnamed value of each enumeration and a carry between bytes occur. The limits of
the two sides are constants of their own: a run that gave one side another value
would violate `RoundTrip` or `FramersAgree`.

**Lists** has the few operators on sequences that the book and the projection are
written with. **PriceTimeBook** is what the book promises: per side a sequence of orders in
price-time order, inside two capacities. Its operators carry the C++ names
(`insert_order`, `remove_order`, `clear`); `reduce_front` is the engine's write
through `order_at()`. **OrderBook** is the implementation: one array per pool,
free lists threaded through the links, doubly linked levels and FIFOs. The
refinement mapping flattens the level lists.

**MatchingEngine** makes each iteration of `process_new_order` a step
(`MatchOne`), so that what holds between two trades of one order can be stated.
`incoming` is `NoOrder` between calls; the thread is the only one, so other
operations require `Idle`. `RestRemainder` ignores the result of `insert_order`,
as the code does. **RetiredHistory** and **RetiredIdSet** are the bounded history
of departed identifiers and its hash table with back-shift deletion.
**TradeLedger** adds a ledger that reads only messages and events.

**RingBuffer** has the head, tail and count arithmetic; **BoundedQueue** is the
queue it implements. **EngineProcessor** composes the core with two such queues,
the counters and `initialize`. **ServerPipeline** is one read of one connection
through that processor: `DeliverFrame`*, `EndOfBytes` or `BadFrame`,
`RunEngine`*, `StartDrain`, `DrainEvent`*. **TcpServer** is the thread around it:

| Code | Action |
|---|---|
| `start`, `stop` | `Start`, `Stop` |
| `select`, with the sets it fills in | `Select` |
| `accept` until it would block | `AcceptClient`, `EndAccept` |
| `recv` of a ready socket: closed or failed, would block, data | `ReadEnds`, `ReadNothing`, `ReadBytes` |
| `on_readable` of the pipeline | `Submit` |
| flush after the read, whole, short, or failed | `Flush`, `FinishRead` |
| the writable sockets of the pass | `StartWriting`, `WriteSome`, `WriteFails`, `EndPass` |

A descriptor that was closed may be handed out again by the next `accept`.

**FrameBuffer** is `consume`, on the bytes of `CppCodec`; **ReadLoop** is the
gateway's reader, on those of `RustCodec`. **MCWire** gives both the same stream.

**IntegrityChecks** has the three checks as the code makes them: neighbours and
best prices, quantities, and a sum modulo the word size. **IntegrityGuard** is
`commit`: snapshot, the operation as any sequence of changes to the book, then
evaluation and rollback. **AtomicCommit** is what it promises, over the global
definition of a consistent book.

**AllocationCounter** makes every atomic access of `operator new` and `delete` a
step of a thread. **Benchmark** is the harness and its statistics, whose vectors
allocate through the counter. `ceil_div_pct` gives the rank that double
arithmetic gives, for whole percentages: `RoundingError` is the error of
`p / 100.0` in hundredths of its last bit, and `Exceeds` says when it lifts a
product that should be whole above the whole number by more than `eps`.
**MCMeasurement** drives both over a ring; no
driver is among the sources, so that one is external.

**Gateway** is validation, identifier assignment and sequence stamping; bodies
are records whose fields may be absent or malformed, prices are in tenths of a
tick so that rounding shows. **Projection** is the gateway's copy of the book.
**GatewayServer** composes both with an `EngineProcessor`:

| Code | Action |
|---|---|
| `post_order`, `post_cancel` up to the 503 check | `post_order`, `post_cancel` |
| `register_inflight` | `Register` |
| `send_command` on the bounded channel | `send_command` |
| oneshot answered, closed, timed out | `Answered`, `Closed`, `TimedOut` |
| `handle_engine_event` | `handle_engine_event` |
| connect, `reset_book`, reading the journal | `Connect` |
| one journal record of the replay | `ReplaySkips`, `ReplaySends`, `ReplayBreaks`, then `ReplayResolved` or `ReplayTimedOut`; at the end `ReplayDone` |
| write loop, end of the connection | `WriteCommand`, `Disconnect` |
| `append` and `read_records` of the journal | `append`, `Readable`, `read_records` |
| network and engine process (environment) | `Break`, `Restart`, `EngineRuns` |
| the gateway process stops and starts | `Crash` |

The journal is a sequence of records, in which `Torn` is a line that was cut off
and `Garbled` one that was written onto it. `Written` is the journal after a
line, `Cut` after a part of one. A write that fails (fault `"Disk"`) leaves
nothing or a part, and the code goes on as after any other: it logs the error and
the client is answered. `Crash` loses everything but the journal, and may leave
the line being written torn.

**EventFeed** numbers the states of the book by `revision`. A writer changes the
book and then sets `book_dirty`; the pusher clears the flag, reads the book and
broadcasts; `events` is what a socket's task has not received, `lagged` that the
channel overwrote some of it. **Console** is `app.js`: `pollOnce` in two steps
around its `await`, `startPolling`, `connectWs`, `onopen`, `onmessage`,
`onclose`.

Operators named `Fault...` are not part of the model: each is a plausible slip in
the definition below it, and shows that the property it belongs to can fail.

## Runs

| Run | Question |
|---|---|
| `matching_core` | book sorted, uncrossed between trades, each trade with the best order, quantities agree with an independent ledger, retired history is the latest departures, loop ends |
| `containers` | no pool slot leaks or is shared and links mirror (`StorageConsistent`), the stored book implements the sorted one; table and ring of the retired set agree and implement the history |
| `measurement` | the ring is a bounded FIFO; counts of several threads lose nothing; percentiles are nearest rank over the present samples; recording allocates nothing |
| `engine_server` | each command has one answer, on its connection and in order; trades before the Ack; execution numbers grow; rings empty between reads; lifecycles agree; losses are counted; what is queued is sent |
| `integrity_guard` | a commit is atomic; the error is the first violation |
| `wire` | chunking is irrelevant, each codec reads what the other wrote, both framers stop at the same place |
| `gateway_requests` | identifiers unique, message faithful to body |
| `gateway_server` | three concurrent requests, with a timeout or a failed write to the journal: answers true, projection and journal agree when settled, levels are the sums of the orders |
| `gateway_faults` | over any two of a break, an engine restart, a timeout, a failed write to the journal and a gateway crash: no order doubled, none journalled twice, what was answered is on disk unless a write failed, a replay rebuilds the engine's book, every admitted request answered |
| `console_feed` | a change reaches an open socket; polling catches up without one; the screen does not go back while it follows the socket |

Two runs refute a sentence of the documentation:

| Run | Documentation | What the code does |
|---|---|---|
| `quantity_conservation` | DESIGN.md Property 11 | a full pool drops the remainder of an acknowledged order |
| `reconnect_book` | state.rs:222, README.md:203 | a reconnect does not empty the engine |

**Known deviations without a run.** The model shows these as well, and the
hazards of `PROJECT.json` name their lines:

* REQUIREMENTS.md 5.5: an order filled on arrival never enters the retired set,
  so its cancellation is answered "not found".
* engine_processor.hpp:37 asks for an egress ring larger than the events of a
  batch; server_pipeline.hpp gives both rings one size. Losses are counted.
* journal.rs:6: requests may be sent in the reverse of their stamps; the journal
  follows the Acks, so a replay can swap their priority.
* engine_client.rs:45: a request that passed the connection check earlier can
  register while a replay runs.
* README.md:203, journal.rs:4, REQUIREMENTS.md 1.8: with a timeout an in-flight
  entry can be completed by a late terminator of another command with the same
  identifier, or a replayed order journalled again.
  The gateway runs let one wait time out; the properties that pair commands with
  terminators are stated up to that moment (`InTime`), the others also after it.
* book.rs:3: the projection shows a residual that a full engine dropped.
  `gateway_server` gives the engine room for every order.
* latency_stats.hpp:124 guards an exact rank against being bumped. From 2^23
  samples on the guard can be too small: percentile(56) of 25 million samples
  takes rank 14,000,001 (`RankOneTooHigh`).

**Conditions.** Some properties hold under a condition that the code does not
enforce. Each was tried without it and is then violated (`ExactRank` by proof), so
these are what an operator has to know. (`Readable` in `JournalledOnce` takes four requests to
matter: one torn, one written onto it, and two given one automatic identifier.)

| Condition | Used by | Without it |
|---|---|---|
| `InTime`: no wait timed out | `TruthfulAnswers`, `ProjectionAgrees`, `JournalAgrees`, `JournalledOnce`, `ReplayRebuildsBook` | a late terminator completes another command's entry, since entries are keyed by identifier |
| `Readable`: no line of the journal is torn or written onto a torn one | `JournalledOnce`, `AnsweredIsDurable` | the line is lost, the replay skipped, and automatic identifiers start over |
| `Persisted`: no write to the journal failed | `JournalAgrees`, `AnsweredIsDurable` | journal.rs:62 calls persistence best-effort: the failure is logged, the client is told 200, and its command is not on disk |
| `~ displaced`: no task that gave up dropped an entry of another command | `JournalledOnce` | entries are dropped by identifier: the replay goes on early and the late Ack is journalled again |
| `EachOnce`: the journal has each order once | `NoTwins` | the replay sends an order as often as the journal has it |
| `NoneEarly`: no order validated after a gateway crash and before its replay | `NoTwins`, `JournalledOnce` | it may get an identifier the journal holds |
| `~ outlived`: the engine did not outlive a connection | `NoTwins`, `ReplayRebuildsBook` | the replay doubles what still rests, see `reconnect_book` |
| orders reached the engine in the order of their numbers, no identifier of the journal in flight | `ReplayRebuildsBook` | priorities swap, or the replay skips a record |
| `ExactRank`: fewer than 2^23 samples, or the median or p99 | `PercentileIsNearestRank` | the rank may be one too high; too large for a run, proved as `RankOneTooHigh` |
| `~ missed`, the change not yet pushed when the socket was up | `EveryChangeIsStreamed` | a snapshot is never sent twice |

**Bounds.** Capacities are one to four slots, so that full, empty and
wrap-around all happen. Prices have one to three ticks: two orders that cross,
tie or miss. Quantities reach 2 or 3: full, partial and multiple fills. Three
identifiers give an incoming order that fills two resting ones. Inbound values
include one past each end of a valid range. `engine_server` has three sockets
for two connections, so that one is refused and descriptors are reused, and
`MaxBatch` is above the ingress ring, so that it overflows; `MaxFrames`,
`MaxAccepted`, `MaxForwarded` and `MaxTrades` end otherwise endless behaviours.
A guarded operation changes the book up to `MaxSteps` times; `WordSize` is small
enough for the conservation sum to wrap. In `measurement`, `HeapBlocks` lets
memory run out, `MaxSubmissions` exceeds the ring and the configured volumes, and
`MaxAllocations` bounds the other thread. The gateway's faults each happen at
most once and `MaxFaults` at a time: two, because a second fault during the
recovery from a first is where the races are. In `console_feed` the channel holds
`EventCapacity` events and the socket `SocketRoom`, few enough for a slow socket
to lag; two `Polls` overlap, `MaxChanges` gives an older and a newer book,
`MaxFailures` one failed request or socket. `SYMMETRY` is used on client tasks in
a safety run only. In `wire` the gateway's reader starts when the engine's framer
is done, and in `containers` a behaviour is about one container; in both cases
the two share nothing, so one order stands for all.

**Fairness.** Weak fairness is on steps one thread takes without waiting: the
match loop and the passes of the server, whose `select` has a timeout. Strong
fairness is on a send that takes all that is queued: a client that stays
connected reads its socket, though a single send may be short. In the gateway it
is on every task and the manager, which the runtime schedules, and on the engine;
none on new requests, faults or a request's timeout. The replay's timeout is a
timer the code sets, so it fires; on a broken link it is the only thing that ends
the replay's wait. In the feed it is on writers that have changed the book, the
pusher's ticker, the socket's task, the browser's event loop and poll timer;
none on changes of the book, other events, or sockets that open.

Deadlock is not checked where the system may stop: all requests served, all bytes
received.

## Proofs

| Theorem | States |
|---|---|
| `EngineProofs!BookStaysSorted` | the book operations keep types, capacities and price-time order |
| `EngineProofs!CoreTypeCorrect` | `TypeOK` |
| `EngineProofs!CoreBookSorted` | `BookSorted` |
| `EngineProofs!CoreUncrossed` | `Uncrossed` |
| `EngineProofs!CorePriority` | `PriceTimePriority` |
| `EngineProofs!CorePassesChecks` | `NothingToUndo`: the guard's checks pass after every step |
| `EngineProofs!ProcessorRunsCore` | the processor implements the core |
| `EngineProofs!ProcessorNumbersGrow` | `ExecutionSequenceGrows` |
| `IntegrityProofs!LedgerFillsAccount` | `FillsAccountForQuantity` |
| `IntegrityProofs!LedgerRetiredRecent` | `RetiredAreRecentDepartures` |
| `IntegrityProofs!GuardCommitsAtomically` | `CommitIsAtomic`: the guard implements `AtomicCommit` |
| `IntegrityProofs!GuardErrorIsRight` | `ErrorNamesViolation` |
| `TcpServerProofs!ServerRunsProcessor` | the server implements the processor |
| `TcpServerProofs!ServerRingsEmpty` | `RingsEmptyBetweenReads` |
| `TcpServerProofs!ServerLifecyclesAgree` | `LifecyclesAgree` |
| `TcpAnswerProofs!ServerAnswersEach` | `OneAnswerEach` |
| `TcpAnswerProofs!ServerTradesFirst` | `TradesBeforeTheirAck` |
| `TcpAnswerProofs!ServerCountsLosses` | `LossIsCounted` |
| `DurabilityProofs!AnswersAreDurable` | `AnsweredIsDurable` |
| `MeasurementProofs!RingWindow` | `WindowConsistent` |
| `MeasurementProofs!RingRefinesQueue` | `ImplementsBoundedQueue` |
| `GatewayProofs!LibraryIdsUnique` | `IdentifiersUnique` |
| `GatewayProofs!LibraryFaithful` | `FaithfulToRequest` |
| `GatewayProofs!ConsoleNeverShowsOlder` | `NeverShowsOlder` |
| `MeasurementProofs!CounterPaired` | `CountsArePaired` |
| `MeasurementProofs!RecordingIsFree` | `RecordingAllocatesNothing` |
| `MeasurementProofs!RanksAreNearest` | below 2^23 samples, and for the median and p99 of any number, the rank is the nearest one |
| `MeasurementProofs!RankOneTooHigh` | percentile(56) of 25 million samples is one rank above it |

They hold for all constants satisfying the named assumptions: capacities and
limits are positive, identifiers and sequence numbers are naturals, threads are
finitely many (`ThreadsAssumption`) and the driver is one of them, and the owner
of an in-flight entry tells a request task from the replay (`OwnersApart`).
`BodiesAssumption` and `VolumesAssumption` only give the inputs their types.
`GatewayServerProofs` holds the lemmas that `DurabilityProofs` builds on.

**Core.** The inductive invariant is
`IInv == TypeOK /\ BookSorted /\ Uncrossed /\ IncomingValid`. `Uncrossed` is not
inductive alone: that the front of the opposite side is not eligible says
something of the whole side only because the side is sorted, and a remainder is
well formed only because the incoming order was validated. Priority follows from
`BookSorted`, since the loop always takes the front.

**Ledger.** `LedgerInv` adds to `IInv` that an identifier rests at one place
(`RestOnce`), is at most one of resting, being matched and departed
(`OneStanding`), and departs once (`DepartOnce`). Without the second a trade
could be counted for the wrong one of two orders; without the third the history
would find an identifier already there and keep fewer than fit. `KeepsRecent`
is the history position by position.

**Guard.** `GuardInv` keeps the snapshot consistent, which is what a refusal
brings back; that checks of neighbours and best prices imply order between all
pairs is `NeighboursSuffice` and `BestSuffices`.

**Processor and server.** They are layers: each step of one is a step of the
layer below or a stutter, so `ServerSpec => ProcSpec => Spec`, and what is proved
of the core holds of the running server, with any sockets, failures and ring
sizes. `ProcInv` adds to the core's invariant that every trade waiting in the
egress ring has a number below `next_exec_seq`. `StageInv` says what each stage
of a read leaves in the rings: empty outside a read is inductive only with what
each stage has already emptied. `LifeInv` lets the connection being read be
closed and still own a queue until its read ends, and keeps the sockets waiting
in `read_set` within the connections.

**Answers.** `AnswerInv` keeps one account for each connection (`Accounted`):
the commands owed against the answers produced and the commands pending, with
the difference bounded by the overflow count and the two lists equal while that
is zero. A descriptor without a connection owes nothing, which is what makes its
reuse harmless. `TradesInv` is stronger than `TradesBeforeTheirAck`: the queue
of a connection that is *not* being read never ends with a trade. The property
alone would let a new order adopt such a trade.

**Durable answers.** `DurableInv` follows a confirmation from the engine to the
client: while a replay runs, everything on its way to the engine and back is
already on disk (`ReplayInv`), since the reader then writes nothing; a reply
handed to a task is for that task's command (`HandlerInv`) and its line is on
disk (`ReplyInv`); so is the line of a 200 (`AnswerInv`). `LinkInv` has what a
connection starts from: nothing is on its way between two of them, and
`restoring` is set exactly while the manager replays. No line is ever lost while
the journal is readable and no write fails (`JournalKept`). The theorem has both
as its conditions, `Readable` and `Persisted`: a failed write is only logged, and
the 200 is sent all the same. Otherwise it holds for any number of tasks and any
faults, timeouts included.

**Gateway library.** Every forwarded identifier stays in `in_use`, and
`assign_unique_id` takes one that is not, wherever the counter stands.

**Console.** `FeedInv` says that the books in the channel and in the socket are
in order, one behind the other and none newer than what the pusher holds;
`ScreenInv` that while the console follows the socket no poll is outstanding and
nothing under way is older than the screen.

**Counter and driver.** `ThreadMoves` counts the threads at a place when one
moves. `DriverInv` relates samples, capacity and accepted orders to what the
bracket shows; an allocation of the driver is attributed to a record beyond the
configured volume or to a sort, whichever is in progress.

**Ranks.** The rounded `p / 100.0` is below, at or above the quotient. A product
that is not whole is at least a hundredth from a whole number, so only whole ones
matter, and those only when one unit in their last place exceeds `eps`, from 2^23
on. For 50 and 99 the rounding never lifts them (`NeverExceeds`). The theorems
are about `ceil_div_pct` as modelled; that `Exceeds` agrees with IEEE doubles is
an argument about rounding, compared with the double computation by sampling and
not proved.

**Ring.** The refinement needs the window invariant to identify slots with queue
positions.

**Only model-checked.**

* Liveness (`MatchingEnds`, `ServerSettles`, `EveryRequestAnswered`,
  `EveryChangeIsStreamed`, `PollingCatchesUp`), which is out of the prover's
  reach.
* The codecs, framers and `RetiredIdSet`: they are written with recursive
  operators, which the prover does not accept. `StorageConsistent` and the
  refinement of `OrderBook` are about walks along links of any length, and
  `PercentileIsNearestRank` (beyond its ranks) about a sorted copy, that is, about what a recursion
  computes for every input. Single facts of that kind are proved here by a
  smallest counterexample; these need a theory of their own.
* `TruthfulAnswers`, `ProjectionAgrees`, `JournalAgrees`, `NoTwins`,
  `JournalledOnce` and `ReplayRebuildsBook` relate the engine's whole history to
  the gateway's under conditions on that history, `LevelsAggregateOrders` sums
  over sets. The inductive invariants they need are not written.

## Limits

* A journal line that is complete but for its newline when the gateway stops is
  not told apart from a torn one. One write to the journal fails at most in a run.
* A reader task ends with its connection; the code aborts it at its next await.
  `handle_engine_event` is one step per event, though the code takes its locks
  one after another.
* Gateway steps interleave with the engine between its calls, since the server
  sends events only after `process_all` returned.
* The execution and sequence counters of the engine are unbounded naturals; a
  64-bit counter does not wrap in practice. The gateway's do wrap in the model.
* `OrderBook` clears what the code leaves in free slots and in the free-list link
  of used ones; each is written before it is read again.
* Floating-point error in the product of a price by 100 is left out. Percentiles
  are of whole percentages and fewer than 2^30 samples.
* A guarded operation changes the book through inserts, removals and changes of
  quantity only, not through arbitrary writes to pools and links.
* An HTTP client that disconnects while its request waits, so that the handler is
  dropped and its in-flight entry stays, is not modelled: every task runs to its
  answer.
* One console and one socket: sockets share only the channel, of which each has
  its own position.
* The sockets stay below what the descriptor sets of `select` have room for.

## Not modelled

* **Metrics** (`stats.rs`): counters and a window that are reported and that no
  guard reads; a property of them would restate an increment.
* **Client SDKs**: HTTP wrappers without protocol state of their own.
* **Gateway library, response half**: used by its own tests; the server has its
  own, which is modelled.
* **Authentication, trade tape, start-up from the environment** of the gateway
  server: none changes the modelled state.
* **Web console, other than the book**: tape, statistics, order entry and the
  load generator render or send and keep no state the book depends on.
* **`main.cpp`'s arguments, socket options, the Windows branches**: data and
  platform code around the same steps.
