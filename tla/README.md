# TLA+ models and proofs of the SZE recoverable market-data pipeline and its trader

This directory models the part of the repository that has to be right while
processes crash, overtake each other and lose packets, and while threads share plain
variables: the recoverable capture of the Shenzhen feed in `modules/deepwin_guoxin/md`,
the strategy side that consumes it, the dispatch of predictions to a strategy, and the
strategy's account of its orders and position behind the trading gateway
`modules/deepwin_guoxin/td`. Modules are TLA+, checked with TLC on small instances
(`tlc -config X.cfg MCX.tla`) and, for all seven components, proved with TLAPS
for every value of their constants (`tlapm XProofs.tla`).

Line numbers are those of `SZERecoverable.cpp` unless a file is named.

## 1. The system

    multicast  ->  worker thread  --append-->  journal segments (mmap)  --+
                   |  ^ tracker  \--publish->  shared-memory ring  -------+--> ReplayHandoffConsumer
                   |  |                                                   |      (strategy process)
                   +--+--  health page (mmap)  <-- flush thread           |            |
                                  |                                       |            v  consumer thread
                                  +------------> derive_can_trade         |    full-order-book signals --+
                                                                          |    snapshot signals ---------+-> poll thread: arbiter
                                                                          +-- live, continuity flags ----+        |  on_signal
                                                                                                                  v
    broker  <-->  TDEngineGXBSE  --order, trade, position returns-->  ZStrategy: pi, pending, capacity  --order--> gateway

| component | state | operations | interacts with |
|---|---|---|---|
| `FeedSequenceTracker` | last raw number, wrap base, last number, Valid/Invalid and the reason | `reset`, `restore`, `observe`, `invalidate` | called by the worker; restored from the journal's superblock |
| `JournalWriter` | mapped segment, offsets, superblock (published offset, continuity, clean flag) | `open`, `append`, `rotate`, `publish_continuity`, `flush`, `close` | worker and flush thread of the engine; readers in other processes map the same files |
| `JournalReader` | mapped segment, offset, next id | `open`, `next`, `seek` | reads what the writer of another process is writing |
| `ShmEventRing` | header (latest id, continuity, readiness), slots | `create`, `publish`, `publish_state`, `attach`, `read`, `set_readiness` | one producer, several consumer processes, no lock |
| `MDEngineSZE` | forced-invalid and degraded flags, last ring id, the packet in hand | `login`, `logout`, worker loop, flush loop | owns tracker, journal writer, ring, health page |
| `ReplayHandoffConsumer` | mode (journal, handoff, live, invalid), next id | `open`, `next` | a journal reader and an attached ring |
| `SZEHealthState` | capture, shard and TD pages | `publish_*`, `derive_can_trade` | written by three processes, read by the strategy |
| `SZEDirectShardedRing` | a ring and an id counter per shard | `route`, `publish`, `read` | fed by the worker after the main ring |
| `StrategyBase`, dispatch | two bounded signal queues, four trading flags | consumer loop, `enqueue_sze_trading_signal`, `sze_trading_poll_loop` | consumer, framework and poll threads share the queues and the flags |
| prediction arbiter | a candidate per source, the last dispatch | `update`, `select`, `should_dispatch`, `mark_dispatched` | owned by the poll thread |
| `ZStrategy` | `pi`, `shortable`, `vl_pos`, `vs_pos`, tables by order | sizing, `on_rtn_order`, `on_rtn_trade`, cancel timer, `sync_startup_position` | signals and returns may have threads of their own |
| `TDEngineGXBSE` | routes by broker number, last cumulative quantities | insert, cancel, returns, responses, position query | broker API thread; framework |
| order books, predictors, backtest, scripts | - | - | consume the events |

What is hard in it: consumers read the ring while it is overwritten; readers
follow a journal whose writer is creating the next file; the flush thread gives up
the journal between two steps of the worker; the exchange's 32-bit numbers wrap
while multicast loses and repeats records; every process may be killed anywhere and
the host may lose power; the day's verdict (Invalid) must survive all of this,
because a wrong "Valid" lets a strategy trade on an order book with a hole in it. In the
strategy, flags are stored by one thread and loaded one by one by another while old signals
are still queued; two sources of predictions fail over to each other; and returns of an order
arrive repeated, under two names and on a second thread while the next order is
being sized by what the earlier ones leave.

What makes the components correct: the ring hands out only exact events and
refuses only lost ones; the tracker condemns a day if and only if a record is
missing; the journal declares what a crash took; ids in the ring and in the journal
name the same events; Invalid is final; the consumer takes every event once, in
order, across the handoff; trading stops with at most the signal in hand when its input is no
longer good; signals are handed on in order and not twice; every fill moves the position
once; and a reservation is neither lost nor kept. `PROJECT.json` lists every component with its status and
every hazard at its line.

## 2. Modules

| module | models | lines |
|---|---|---|
| `EventLog` | what the ring promises: a log that grows by one, readers that take events in order and skip only events no longer retained | abstract |
| `ShmRing` | `ShmEventRing::publish` and `read`, one shared-memory access per action | 1084-1273 |
| `ShmRingProofs` | theorems about `ShmRing` | |
| `FeedSequence` | `FeedSequenceTracker`, and the number the engine saves and restores | 250-375, `MDEngineSZE.cpp` 873-903, 1183-1251 |
| `FeedSequenceProofs` | theorems about `FeedSequence` | |
| `Journal` | `JournalWriter` and `JournalReader` over segment files, crash and power loss | 421-985 |
| `Capture` | `MDEngineSZE`'s worker and flush threads, degradation, restart | `MDEngineSZE.cpp` 815-1634 |
| `ReplayHandoff` | `ReplayHandoffConsumer`, `seek`, `set_readiness` and the strategy thread's loop, against a capture process | 987-1042, 1275-1348, 1441-1604, `StrategyBase.cpp` 1471-1541 |
| `DayDelivery` | what the pipeline promises a strategy: a day that only grows, each event once and in order, an end that is final, trading that begins with an event | abstract |
| `ReplayHandoffProofs` | theorems about `ReplayHandoff` | |
| `JournalProofs`, `CaptureProofs` | theorems about `Journal` and `Capture` | |
| `SignalDispatch` | the signal queues, the trading flags, the arbiter and the poll thread | `StrategyBase.cpp` 1471-1765, `sze_prediction_arbiter.h` |
| `SignalDispatchProofs` | theorems about `SignalDispatch` | |
| `OrderAccounting` | one instrument's orders, pending quantities and position, the gateway's returns, the position query | `ZStrategy.cpp`, `sze_position_risk.h`, `TDEngineGXBSE.cpp` |
| `OrderAccountingProofs`, `OrderCapacityProofs` | theorems about `OrderAccounting`: about single orders and fills, and, extending these, about sums over the orders of a side | |
| `MC*` | instances for TLC | |

`Capture` uses the journal and the ring as the other modules show them to be (a
sequence of consecutive events, a log that refuses an id out of sequence) and leaves
feed numbers to `FeedSequence`: a record either is good or ends the day.
`ReplayHandoff` stands on the results of the other four: a journal that is a sequence of
events, a ring whose `read()` delivers an event exactly or reports it lost, a capture
process that degrades and invalidates as in `Capture`. `SignalDispatch` takes from
`ReplayHandoff` only that any status may follow any other until the stream is invalid, and
`OrderAccounting` takes from `SignalDispatch` only that a signal may come at any time on another thread:
each is checked against more behaviours than the composition has.

### ShmRing
`slot[i]` is a `ShmSlotPrefix`: published id, generation, event id, body, CRC.
`publish()` is `BeginPublish` (order check and zeroing of the published id),
`StoreWord` for each field in any order, `CommitSlot`, `AdvanceLatest`. `read()` is
`BeginRead`, `CheckPublished`, `CheckGeneration`, `CopyEvent`, `CopyPayload`,
`CheckCrc`, `Recheck`, each of which the producer may fall between. A CRC accepts
what it was computed over and, nondeterministically, anything else, so no result rests
on it. Plain stores between the two release stores are unordered; otherwise
accesses are in program order, which is what x86-64 gives.

### FeedSequence
Record t carries t mod `Word`; `Word` stands for 2^32 and the literals 0x80000000,
0xf0000000, 0x10000000 are its 8, 15 and 1 sixteenths. The environment loses records
(a jump), repeats them and delivers them late, always by less than a
sixteenth of the word, which is 2^28 records. `observe()` has one action per
branch. `saved` is the superblock's `last_feed_sequence`, which `append()` may set
back to the number of an earlier record of the packet; `stale` records that a restart
used such a number. A restart is clean or a crash.

### Journal
A segment is a record: has its superblock or not, first event, last published event,
last event whose record validates, last event known to be on disk, clean flag,
continuity state. `Crash` loses nothing, since the page cache survives a killed
process; `PowerLoss` keeps any part of what no synchronous flush covered and takes the
readers with it. `BeginRotate`, `InitSegment`, `Switch` and `AbortCreate` are the
steps of `rotate()` that a reader or a crash can fall between. A reader that gets an
answer its consumer treats as final is `Dead`, `Damaged` or `Lost`.

### Capture
The worker collects a packet's events (`Observe`, `ObserveBad`), then for each event
`AppendEvent` or `SkipJournal` or `AppendFails`, `Number` (the second load of the
degraded flag), `Publish` or `Reject`. `mark_recovery_invalid` is `MarkInvalid`,
`Tell`, `TellHealth`; the flush thread is `Flush` or `FlushFails`, then the loads and
stores of `publish_recovery_metrics`. `Start`, `Stop` and `Crash` are login, logout and
a killed process.

### ReplayHandoff
`pc` is the consumer's place: `idle` between two calls, `journal` before
`reader_.next()`, `tail` between the journal's "nothing yet" and the load of
`latest_event_id`, `ring` before `read_ring()`, `load` and `store` inside `set_readiness`
(`want`, `then`), `return` with the answer (`status`, `ev`) not yet taken by the strategy
thread, `ended` in the wait of `StrategyBase.cpp:1516`. `mode` and `next` are `mode_` and
`next_event_id_`; `rnext` is the journal reader's own, which `ReadJournal` and `seek`
(`RingOverrun`) move. `mine` says that the mapping is still the current ring file; one
that is not belongs to a process that is gone. `live` is `mSzeRecoveryLiveReady` with the two
flags stored beside it; `taken` is history. The capture process is `Login`, `PublishInitial`
(a new ring exists before it is told the state), `AppendEvent` or `CountOn`, `Publish` or
`Refuse`, `MarkInvalid`, `StoreNotReady`, `Degrade`, `Logout`, `Exit`. An event is its
number. `ahead` is 1 after the renumbering of `MDEngineSZE.cpp:1272` hit the
first event on an empty ring: the ring's ids then run one ahead of its events.

Simplified: each login is a new process with a process id of its own; an engine that
degraded is not started again (`Capture` has what happens then); a strategy is stopped,
never killed; the ring file stays until the next login; the consumer publishes the shared
readiness word (`publish_legacy_shared_readiness`).

### SignalDispatch
`con` is the consumer thread: `NextStatus`, `StoreContinuity`, `StoreLive` are the three
stores with which the loop of `StrategyBase.cpp:1471` announces what it read, in the code's
order; then it processes an event (`NoPrediction`, `PredictFull`, `ProcessFails`). `PredictSnapshot` is the
framework's thread. A full queue clears `healthy` and, in a step of its own, `live`
(`OverrunFull`, `OverrunSnapshot`). The poll thread takes one signal of each queue (`TakeFull`,
`TakeSnapshot`, the arbiter's `update` included), loads the flags until one refuses (`LoadLive`, `LoadContinuity`,
`LoadReplaying`), chooses (`SelectCandidate`) and hands on (`Send`). `cand` and `last` are the
arbiter's; sequence 0 is a candidate that is not valid. `sent` and `late` are history. A time is a
number of one trading day; the turnover a signal carries is that of its source at that time, which
only grows. The risk flag (`RiskReady`) rises once. The model starts where the consumer's stream is open: continuity,
which `start_sze_recovery_consumer` stores as false (1126), has just been stored as true (1427).

### OrderAccounting
An order is submitted, then reserved in a load and a store (`Submit`, `LoadReserve`,
`StoreReserve`); a return is handled by `OnRtnOrder` (gateway and tables), `StoreRelease`,
`StorePosition` and, when the broker says something was traded, `OnRtnTrade`. `sig` and `cb` are the two
threads; on a day that is not `threaded` neither starts while the other is under way. `Keys` are the names
under which `OrderStateKey` keeps an order: by its request, or by its reference when the
return came before the broker's response bound the route (`Respond`). The broker accepts, rejects, fills,
withdraws and refuses; `ReturnAgain` repeats any return. `CancelFires` is the timer's one attempt.
`QueryPositions` and `OnRtnPosOption` are the periodic query, whose answer may be older
than the returns handled meanwhile; what may be sold by it is `Remaining`. `counted` and `crossed` (an order was sent
while an answer was on its way) are history.

A day of the model is a record of `Days`: threads, position, limits through the day, order size and bounds on
orders, repetitions and queries. Proofs hold for any set of days.

Simplified: `pi` and `shortable` are stored in one step, and the capacity is read in one; position answers and returns come on one thread; prices and
predictions decide only whether there is an order.

## 3. Runs

| run | bounds | shows |
|---|---|---|
| `ring` (MCShmRing) | 2 slots, 6 events, 1 reader | `ReadExact`, `FailureJustified`, `NeverStale`, refinement of `EventLog`, `ReaderProgress` |
| `feed` (MCFeedSequence) | word 80, jumps and reordering up to 2, numbers to 92 | `NoSilentLoss`, `RebuiltExactly`, `NoFalseGap`, `NewRecordKept`, `InvalidIsFinal` |
| `journal` (MCJournal) | 2 events to a segment, 5 events, 3 opens, 1 reader | `SegmentsChain`, `LossIsDeclared`, `InvalidIsSticky`, `ReaderInPlace`, `ReaderCatchesUp` |
| `capture` (MCCapture) | 3 events, packets of 2, 2 logins | `RingFollowsJournal`, `NothingDroppedSilently`, `BrokenDayStaysBroken`, `HealthSettles` |
| `replay` (MCReplayHandoff) | ring of 2, 3 events, 2 logins, 2 opens | `ImplementsDelivery` (refinement of `DayDelivery`), `CatchesUp`, `BrokenFeedNotTraded`, `FallbackStopsTrading`, `ReadinessSettles` |
| `signals` (MCSignalDispatch) | 2 instruments, 3 times, staleness 1, queues of 1, 2 signals a source | `StopIsPrompt`, `DispatchOrder`, `SnapshotTakesOver` |
| `orders` (MCOrderAccounting) | six days: 2 orders of 2 lots, the limit falling; 2 of 1 lot on a day that begins below the limit, with a repetition, with a query and one lot that may be sold, with threads; 1 of 2 lots with all of it | `FillsCountedOnce`, `PendingIsOutstanding`, `AnswersKeepSales`, `CapacityRespected`, `TradeReturnsAreInert`, `ReservationsEnd` |
| `ring_lapped`, `journal_rotation`, `capture_continuity`, `capture_replayable`, `orders_oversell` | as above; 3 orders of 1 lot with threads for the last | one statement of a document or test that the code does not give, section 5 |

Why the bounds are enough. A reader can be lapped three times in `ring`, and can
meet every place of the producer at every place of its own; readers do not write to
the slots, so a second one adds nothing to what a first can see. In `feed` the raw
number wraps with losses, repetitions and restarts on both sides of the wrap; the
high base matters only relative to the previous one. Two events to a segment give three
segments, one rotation that fails and one that succeeds, and three opens give a
recovery of a recovered journal. In `capture` three events cover an event before,
during and after a degradation, and two logins a restart after each. In `replay` the third
event takes the first from the ring, so that a consumer can be lapped at any place and
go back; two logins and two opens let a consumer outlive its ring, attach to a dead one, or
start over in the middle of a day; the proof lifts the safety bounds. In `signals` a queue of one
slot overruns with the second signal; three times and a staleness of one give candidates that are fresh,
just fresh and stale, in either order of source and turnover; the second instrument makes the list of those to
dispatch longer than one. In `orders` two orders contend for one capacity, partial fills need two
lots, and each day has one kind of trouble so that the exemptions of the properties are not all
taken at once; the day with a query has two lots and one that may be sold, so that an answer that offered a lot sold
before would be found; the combinations are in the last day and, for the safety properties that are proved, everywhere.
Each run also checks its module's `TypeOK`.

Fairness. `ring`: a producer inside `publish()` finishes it (no loop, no lock) but
may stop between events; consumers poll in a loop and a replay ends. `journal`: only
the reader is fair; the writer may stop anywhere, also half-way through a rotation.
`capture`: the flush thread wakes up at every interval and the worker does not wait
inside a packet; new records, logins and logouts are not promised. `replay`: the strategy
thread polls (`Poll`) and a worker inside a call leaves it unless its process dies (`Worker`);
nothing else is fair, in particular neither stopping nor new events. `signals`: the poll
thread runs on (its loop spins, 1763-1789, until the strategy stops); the consumer and the
framework may stop. `orders`: the two threads run on; the framework delivers the next return of some
order; timers fire; the broker answers an order and grants a cancel it was asked for; fills, responses, repetitions and queries
are not promised. Crashes are
never fair. `CHECK_DEADLOCK FALSE` is set where the bounds or an ended consumer
make the system stop; `feed` is checked for deadlock, since any record may be
repeated and the engine restarted at any time.

`ImplementsEventLog` maps `latest`, `first`, `next` and `got` of the ring to the log's.
An event leaves the log as soon as the producer starts to overwrite its slot, one
event before the lap test of `read()` would say so: hence `Lost(n)` in `EventLog`.

## 4. Proofs

`ShmRingProofs`, for any capacity of at least 2, any set of readers and any `LastId`:
`TypeOK`, `ReadExact`, `FailureJustified`, `NeverStale` and `ImplementsEventLog`. The
properties are not inductive: that a reader past the last check holds the right body
depends on what the published id meant when the copy was made. `IInv` adds
`WriterInv` (what the producer has stored at each of its steps), `SlotInv` (a slot
that carries a published id holds that event and no newer one has been started in
it), `Retained` (every event not lost is in its slot) and `ReaderInv` (what a reader at each step
knows: its copy is the event it wants, or that event is already gone, and then the
last check cannot succeed). The proof has one lemma per action and the temporal theorems follow
by PTL. The refinement shows that `AdvanceLatest` is `Append`, `Recheck` is `Take`,
`Reposition` is `Skip`, and every other step stutters.

`FeedSequenceProofs`, for any word divisible by 16 and any disturbance below a
sixteenth of it: `TypeOK`, `NoSilentLoss`, `RebuiltExactly`, `NoFalseGap` and the action
properties `NewRecordKept`, `InvalidIsFinal` and `GapMeasured` (a gap is counted as the records
it passes over; no run checks it). `IInv` ties the raw
number, the base and the rebuilt number together (`raw = last % Word`), and says that
in a day that is not Invalid nothing was lost and the saved number is less than a
packet behind. The arithmetic is in lemmas about a number and its remainder a short
distance ahead, behind and across a wrap.

`ReplayHandoffProofs`, for any capacity of at least 2 and any bounds: `TypeOK`, that the events
taken are 1, 2, 3, ... (`NothingSkipped`), and `ImplementsDelivery`. The first of these is not inductive: the next event is
the right one only if the consumer asks for it. `IInv` therefore adds `ConsumerInv`: at each
place, `next` is one more than the events taken, or two more while an event is on its way
to the strategy; in journal mode the reader stands at `next`; a consumer on an empty ring
asks for event 1; a consumer on a ring whose ids are ahead asks for an event of the
journal. With `CaptureInv` (such a ring begins behind the journal's last event) that
means it never takes one from it: whatever it asks for is below the ring's first and sends it
back to the journal. One lemma per action; Invariance follows by PTL.

`ImplementsDelivery` maps `captured` to the last event of the journal or, when the journal was given up,
of the ring (`Captured`), `phase` to the consumer's mode and place (`Phase`), `trading` to `live`. `AppendEvent` is
`Capture`, and so is `Publish` of an event the journal does not have; replacing the ring (`Login`) takes no event from the day, because a
capture process whose journal works never has more in the ring than in the journal. `HandleEvent` is
`Take`, every way into mode Invalid is `End`, and what `next()` does in between is not seen. `DeliveryInv` is
what this needs besides `IInv`: an event on its way was captured, the consumer has not ended while it is, and in mode Live the flags are already stored
when a call finds nothing, so that trading begins with an event and never with an idle call. That an ended
consumer never comes back is part of the refinement: no step of `next()` leaves mode Invalid.

`JournalProofs`, for any segment size, any readers and any bounds: `TypeOK`, `SegmentsChain`,
`LossIsDeclared`, `InvalidIsSticky`, `ReaderInPlace`. What the last segment says is only true
because of what the writer had done before it was created, so `IInv` has `FileInv` (how far each segment
is on disk), `WriterInv` (what holds at each step of a rotation) and `VerdictInv` (a journal in use,
a journal marked clean, and the segment before one in creation tell the truth about the day);
`ReaderInv` keeps a reader inside what validates.

`CaptureProofs`, for any packets and number of logins: `TypeOK`, `RingFollowsJournal`,
`NothingDroppedSilently`, `BrokenDayStaysBroken`. `IInv` says what the id in hand stands for at each step of the worker,
that a healthy journal has exactly the ids given out, how far the ids may run ahead once it was
given up (the event in hand may get two, from the double load of the degraded flag), and that a broken day
is known to the process, or to what it leaves behind, or the journal was not closed.

`OrderAccountingProofs`, for any days and any number of orders: `TypeOK`, `FillsCountedOnce`,
`TradeReturnsAreInert`. `IInv` relates the tables under each key to the broker's reports
(`TradedInv`: what was counted is what both keys together have; with one key it is what was last reported) and
says of the return at hand that a trade return finds its fill counted.

`SignalDispatchProofs`, for any instruments, capacity and predictions: `TypeOK` and `StopIsPrompt`. Its `IInv`
counts what the poll thread still has in hand (`InHand`, `FullInHand`) together with what was already sent late.
The second part proves `DispatchOrder`, for any day whose turnover only grows. `OInv` numbers the queued
signals of a source above its candidate, and says of every signal sent that, unless the stream's validity changed since,
it is the last one sent or `Beaten`: its source has a newer candidate, or the other source
wins the comparison. The lemmas `LaterFullWins` and `LaterSnapshotWins` show that a newer candidate of
the winner still wins, so what was beaten stays so; this is where the growing turnover is needed.

`OrderCapacityProofs`, for any days (limits, positions, order sizes) and any number of orders: `PendingIsOutstanding`,
`CapacityRespected` and `AnswersKeepSales`. All compare plain integers of the strategy with a sum over the orders of a side. The sums are
folds, and induction over a fold is out of reach; the first part gets the same from the smallest finite set for which a
lemma would fail (`SmallestSet`): an element may be taken out of a sum first or last (`SumRemove`), one value may change (`SumChange`),
smaller values have a smaller sum (`SumLeq`). Then `AInv`, on top of `IInv`: `ShapeInv` (an order's last report, and no other, speaks of
its end), `KnownInv` (what the gateway last heard is left is the order less what was traded), `TurnInv` (on one thread a load and its
store are not torn apart), `ReservedInv` (pending plus what a signal is about to reserve is what is due plus what a return is
about to release), `PositionInv` (`pi` and `shortable` are the day's start and the fills counted) and `LimitInv` (the
bounds, with every open order taken as filled). `LimitInv` is the part that needs the others: what `MaxCanBuy` and `MaxCanSell` leave is
computed from `pi`, `shortable` and pending, and only with the sums is it known to be what the earlier orders left.

`AInv` says nothing of `shortable` once a query was made. `AnswersKeepSales` is about those days, and needs `BInv`:
`BookInv` (the broker holds back exactly what is being sold) and `AnswerInv` (what is kept as `shortable`, with the
fills counted, and what an answer on its way says, with what the orders may still take, are each no more than the
lots of the day). An answer that undoes fills already counted is harmless as long as it also holds back what was being sold when it was given,
which is all that may have been counted since if no order was sent in between; hence `~crossed`.

The attempt to prove `CapacityRespected` corrected it. It had said that sales never take the position below
the negative of the limit; a day that begins below it, because the broker holds less than `Static`, refutes that before its first order.
The bound is now the lower of the two, as the upper one already was the higher, and a day of the `orders` run begins there.

Assumptions: only the named `ASSUME`s of the seven modules. Model-checked only: liveness
(`ReaderProgress`, `ReaderCatchesUp`, `HealthSettles`, `CatchesUp`, `BrokenFeedNotTraded`,
`FallbackStopsTrading`, `ReadinessSettles`, `SnapshotTakesOver`, `ReservationsEnd`), which is out of this prover's
reach. Every invariant and every action property of the passing runs is a theorem.

## 5. Where the code and its documents disagree

- `LappedReaderRecovers` (run `ring_lapped`). The test of the overrun fallback
  (`tests/sze_recoverable_test.cpp:516-517`) has an overrun consumer go back to the
  journal. A consumer lapped inside `read()`, after the check of the published id, gets
  `kRingReadInvalid` from the id comparison at 1256 and is ended.
- `ReaderSurvivesRotation` (run `journal_rotation`). The concurrent test
  (`tests/sze_recoverable_test.cpp:617-621`) accepts events and WouldBlock only. A reader
  that looks for the next file between its creation (500) and its superblock (541), or
  that read `published_offset` (929) before the last appends, is ended.
- `ContinuityIndependentOfJournal` (run `capture_continuity`).
  `docs/sze_health_and_direct_sharded_ring.md:29-30`: degradation "does not change feed
  continuity". A flush that fails between `append()` and the second load of the flag
  (`MDEngineSZE.cpp:1272`) does.
- `HealthyMeansReplayable` (run `capture_replayable`). The same document, 30-31:
  degradation blocks new risk "because a restart can no longer reconstruct the online
  state". After that restart the journal is reported Healthy again.
- `SellsCovered` (run `orders_oversell`). `openspec/changes/fix-sze-position-risk-parity/specs/sze-position-risk-parity/spec.md:4`:
  the strategy "SHALL cap sell capacity by sellable inventory and actual holdings after pending
  orders". `on_rtn_order` releases a pending sale (`ZStrategy.cpp:705`) before it lowers `pi` and
  `shortable` (714-716), and no lock is held: a signal on the other thread may size a sale in between by lots that are
  already sold. On one thread the property holds, queries included, if no order crosses one (`AnswersKeepSales`).

More facts the models show, for which no document says otherwise. A return that overtakes the broker's
response to its order is kept under another key than the later ones, and its fills are counted twice
(`TwoKeys`, exempted from `FillsCountedOnce`). A reservation stays for the rest of the day when it is stored
after the returns of its order, when an order is refused by the response alone, or when
the cancel timer fires before the broker's number is known (`Troubled`). An order that is sent between a position query
and its answer is not in the answer; once its fills are told they are not pending either, and what it sold may be
offered again (`crossed`, exempted from `AnswersKeepSales`); and the answer may put `pi` back behind fills, so that the
limits are only shown before the first query (`CapacityRespected`). After a failover a signal may
be handed on a second time, which `DispatchOrder` allows when the stream's validity changed. After an overrun
the consumer raises `mSzeRecoveryLiveReady` again with its next event; only `mSzeTradingQueueHealthy` keeps trading
stopped. When the journal is
degraded and the ring has gone on, a consumer that is still replaying, or falls back, stands
behind the journal's last event and answers WouldBlock for ever; after a fallback `mSzeRecoveryLiveReady` stays set
meanwhile, which is why `FallbackStopsTrading` and `CatchesUp` exempt it. A strategy that
attaches to the ring of a dead capture process is ended, and stays ended after the next
login. A crash while a segment is being created leaves a journal that cannot be opened
again (`OpenFails`), and a clean restart may condemn a complete day because of a number `append()` set back (`stale`
in `FeedSequence`).

## 6. Not modelled

Of the modelled components: decoding (`SZEProtocol`), sockets, the malformed-record diagnostics file, the symbol
filter, failed logins and metric counters of the capture; the startup queries of account and position and their
retries, which appear as `risk` and as the position a day begins with; the reset of the arbiter at a new trading
day; theoretical prices, warmup and the one-second block of a refused side; the test order of the configuration
(`maybe_send_test_order`, `ZStrategy.cpp:336`), which is sent once without looking at the capacity and without a
reservation; reconnects and the framework's routing in the gateway. A directory entry is assumed to
survive a power loss (the code does not sync the directory). CRC collisions of journal
records are not considered. `Capture` has no power loss; `Journal` does. The broker and the framework are
external: `OrderAccounting` lets them do what the gateway is written to receive.

Whole components, with the reason in `PROJECT.json`: `SZEHealthState` (`derive_can_trade` reads three pages written
by three processes; only the status tool and the tests call it, no order depends on it), `SZEDirectShardedRing`, protocol decoding, the L1 engine, order books,
predictors, backtest, scripts. Order books and predictors are deterministic functions of
large data, their correctness is a comparison of numbers and not of interleavings. All but a few
thousand of the repository's lines are vendored libraries (Boost, Eigen, json), generated code, models and
offline tools, so the modelled lines are a small share of the whole whatever is added.

Hazards seen while reading that are not in the list of `PROJECT.json`, which keeps to those the modelled parts meet:
the returns of a test order release a pending quantity that was never reserved (`ZStrategy.cpp:336-371`, 701);
`on_signal` is given pointers to a local (`ZStrategy.cpp:655`); `mAccountReady` and `mPositionReady` are read and written
without a lock (`StrategyBase.cpp:2852`), and a source that answers with zeros becomes a baseline
(`StrategyBase.cpp:481`); the in-flight flag of the periodic query is only cleared by an answer (`TDEngineGXBSE.cpp:1277`);
`recovery_forced_invalid_` is set before the reason (`MDEngineSZE.cpp:1134`); a login that fails after the ring was created
leaves the ring with a live process id (`MDEngineSZE.cpp:932`).

## 7. What is left

In the order of what matters:

1. `TradeGate`: the three health pages, their writers and `derive_can_trade`, with the
   reader's loads one by one. Properties: no new risk after the feed failed and the page
   says so; a stale writer blocks; the count of invalid symbols matches the records.
2. Shards: `SZEDirectShardedRing` with the rollback of a refused id, and the shard
   rings' contiguity over the shared slot protocol of `ShmRing`.
3. The startup queries and their retries, in front of `OrderAccounting`: which position a day
   may begin with.
4. In `ReplayHandoff`, a capture that degraded and is started again, and login and logout in one
   process; in `DayDelivery`, the verdict of the day beside its events.
5. The race of `seek()` with `append()` (718), and the journal reader's `seek` over the segments of `Journal`.
