# TLA+ verification of BetaTrader

BetaTrader is an exchange (order entry over FIX, one matching partition per
instrument, SQLite persistence) and a trading client. This directory holds TLA+
models of the path from the client's screen through the FIX session and the
matching core to the database and back, the TLC configurations that check them
and TLAPS proofs of what they check. `PROJECT.json` lists
components, runs, the definition-to-source map, findings, hazards and theorems.

Paths below are relative to `src/`; `PROJECT.json` gives exact lines.

## 1. Inventory of the system

| Component | State | Operations | Hard part |
|---|---|---|---|
| Orders, trades, commands (`common/`, `exchange_routing/*Order.h`) | value objects | constructor, setters | `setOriginalQuantity` also resets the remaining quantity |
| Order book (`exchange_matching/OrderBook`) | bid and ask maps of deques of raw `Order*` | `insertOrder`, `cancelOrder`, `publishSnapshot` | pointers are owned elsewhere |
| Matcher (`exchange_matching/Matcher`) | trade id generator | `match` | sweeps over several orders and levels |
| Risk manager (`exchange_risk`) | trade repository | `preCheck`, `postTradeUpdate` | runs before matching only, and only for new orders |
| Order manager, id generators (`exchange_state`) | map of owned orders; two counters | add, get, remove; `nextId`, load, save | counters recovered from the database |
| Partition, worker thread (`exchange_routing`) | command queue (SPSC), batch | `enqueue`, `processNewOrder`, `processCancelOrder`, `processModifyOrder`, start, stop | everything asynchronous meets here |
| Database worker, repositories (`exchange_persistence`) | task queue; tables `orders`, `trades`, `trade_id` | enqueue, `workerLoop`, one task per SQL statement | rows follow memory later, or never |
| Trading core (`exchange_app`) | partitions, repositories, publishers | `submitCommand`, `stopAcceptingCommands`, `waitAllQueuesIdle`, `stop` | reads the managers on the caller's thread |
| Execution publisher (`exchange_publishers`) | callback | `publishExecution`, `publishTrade`, `publishRejection` | what the client believes |
| Market data publisher (`exchange_publishers`) | subscriptions per symbol | subscribe, `publishIncremental`; snapshots by `OrderBook::publishSnapshot` | per-order updates applied to per-level quantities; the book is walked without a lock |
| FIX server (`exchange_fix`: server, session, session manager) | session map, sequence numbers per CompID, their table | accept, logon, validate, dispatch, send, logout | several threads share the sessions; taking and writing a sequence number are apart |
| FIX framing (`exchange_fix/FixMessageFramer`, both read loops) | receive buffer | `extractNextFrame`, resynchronise | a read may end anywhere |
| FIX client (`client_fix`: session, sequence store) | state, sequence numbers, `.seq` file | connect, logon, send, receive, heartbeat, disconnect | read-modify-write of the sequence numbers on two threads |
| Client order book, connection panel (`client_orderbook`, `client_ui`) | levels of the selected symbol, subscription status | apply snapshot and increments; subscribe, unsubscribe, select symbol | the symbol changes under the message callback |
| Blotter (`client_blotter`) | open rows, execution keys, history | `recordOrderIntent`, `processExecution` | a report may come before the intent |
| Candle aggregator (`client_ohlc`) | active candle per symbol and interval | `onTrade` | wall clock, five- and one-minute buckets |
| Simulator, exchange manager, rendering (`client_*`) | random generator, process handles, windows | draw orders, start, stop, render | none of their own |

Interactions. A FIX session (or the simulator) builds a command and calls
`TradingCore::submitCommand`, which pushes it on the partition's queue. The
partition's worker thread drains the queue in batches; a command calls risk
check, manager, repositories (which only queue tasks for the one
`DatabaseWorker` thread), matcher, book and publishers. Reports go back to the
session through a callback on the worker thread. At start-up a partition loads
its open orders from the table and rebuilds its book.

What makes each part correct:

* book: every pointer is to a live order with quantity left; never crossed;
  price-time priority;
* risk: no self trade, no trade outside a party's limit, price collar;
* worker: every command is answered, a closed order stays closed, every fill is
  reported and persisted;
* persistence: the tables converge to memory; a restart finds a state the
  exchange could have been in;
* ids: never reused;
* shutdown: what was accepted is processed and written;
* FIX: numbers reach the other end in order, an order is executed once and in
  the order it was sent, a logon is answered, a dead session is released;
* market data: the client's levels equal the exchange's where the protocol allows;
* blotter: no live order is hidden, no execution is lost;
* candles: the resolutions agree;
* framing: no message is invented or lost at a read boundary.

## 2. Modules

| Module | Models | Extends |
|---|---|---|
| `Orders` | order, trade and command values | |
| `OrderBook` | the book and `preCheck`, as operators on book values | `Orders` |
| `Partition` | one partition with its worker, the database worker and the submitters; all partition properties | `OrderBook` |
| `OrderLifecycle` | abstract specification: the succession of reports a client may see of an order | |
| `Exchange` | kill, shutdown, restart and recovery around a partition | `Partition` |
| `FixWire` | TCP connections and the FIX messages on them (external) | |
| `FixServer` | the FIX gateway with its tables and a reduced core | `FixWire` |
| `FixClient` | the client's session objects, sequence store and connection panel | `FixWire` |
| `FixLink` | clients and gateway composed; all session properties | `FixServer`, `FixClient` |
| `Candles` | the candle aggregator and the candles table | |
| `MarketData` | books, publisher, subscriptions, client panel and client book | `Candles` |
| `Blotter` | the trader's view of the orders sent | |
| `Framing` | `extractNextFrame` and both receive loops on split streams | |
| `FoldTheory` | lemmas: what a fold over a finite set computes | |
| `PartitionProofs` | `IndInv` and its parts; the reports and the refinement of `OrderLifecycle` | `Partition` |
| `MatchingProofs` | limits, self trades, the collar, price-time priority | `PartitionProofs` |
| `PersistenceProofs` | the trades and the orders table | `MatchingProofs`, `FoldTheory` (instance) |
| `ExchangeProofs` | kill and restart | `Exchange`, `PartitionProofs` |
| `MarketDataProofs` | subscriptions, candles, the client's book | `MarketData`, `FoldTheory` (instances) |
| `FixLinkProofs`, `BlotterProofs` | proofs about `FixLink`, `Blotter` | the module they are about |
| `MCPartition`, `MCExchange`, `MCFixLink`, `MCMarketData` | instances for TLC | |

**Partition, state.** `orders` is the OrderManager's map, `book` the two maps of
the OrderBook (a level is a sequence of ids, an absent level the empty
sequence), `queue` and `batch` the commands not yet processed, `worker` the
locals of the process function that is running, `tradeId` and `orderId` the
generators' counters, `dbQueue`, `dbOrders`, `dbTrades` the database side, `told` what the
last execution report said of an order, `amends` a bound.

**Partition, actions.** Submitters: `SubmitNew`, `SubmitAmend` (an unknown id is
dropped; while the worker is inside a command the unsynchronised lookup may
still find an order that is going away). Worker: `FetchBatch`; `RejectNew` or
`AcceptNew`; `RejectUnknown`, `CancelResting`, `RejectCancel`; `StartModify`; then
`Fill` (one iteration of the matching loop), `EndMatch`, `SettleTrade` or
`SkipTrade` (one iteration of the loop over the trades) and one of
`RestIncoming`, `RemoveIncoming`, `IncomingDone`. Database worker: `RunOrderTask`,
`RunTradeTask`. A process function is cut into steps exactly where another thread
can look in (submitters read the manager, the database worker takes tasks) or a
crash leaves a different table. Definitions that stand for both
`processNewOrder` and `processModifyOrder` are mapped to one of them; `worker.kind`
tells them apart where the code differs (`PostTrade`, `MayRest`, `MustRemove`).

**Exchange.** `Exit` forgets everything in memory at any step; the clean path is
`stopAcceptingCommands`, `waitAllQueuesIdle`, `StopWorker`, `SaveTradeId`,
`StopDatabase`, `Exit`, or `StopWorker` at once (the destructor). `Restart` loads
the rows with an open status, sets the counters from the tables and rebuilds the
book in any order (the iteration order of an `unordered_map`).

**OrderLifecycle.** Its only variable is `told`. `Partition` shows it with
`Life == INSTANCE OrderLifecycle WITH Ids <- OrderId` and the property
`ImplementsLifecycle == Life!LifeSpec`: whatever the worker, the submitters and the
database do, the reports of an order begin with its one acceptance or rejection;
while it is open come fills and replacements, and between two replacements its leaves
never grow (the trades of one pass are reported after the pass and all with its
leaves, so they may stay equal); a filled, cancelled or rejected order never opens
again, and the only reports still to come say that an amendment came too late. A
refused amendment changes nothing but the number of `answers`, which also tells
`CancelAnswered` an answer to a cancel from what was reported before it.

**FixServer.** `sessions`, `sessionId`, `nextSession` are FixServer's map and counter,
`compOf`, `state`, `valid` the session manager's, `dbTasks` and `seqRows` the database
side, `io` what the one io_context thread is doing, `sending` a message a worker has
numbered and not yet written, `commands`, `orders`, `executed` the core as the
gateway sees it, `subscribed` the sessions on the market data publisher's list and
`targets` the copy of it a worker is going through. Actions: `Accept`, `Receive`, `ReadError`; one handler per
message (`RefuseLogon`, `AcceptLogon`, `HandleLogout`, `RefuseMessage`,
`HandleAnswered`, `HandleIgnored`, `HandleNewOrder`, `HandleAmend`), each with the
sequence check whose result the code ignores; `IoWrite` and `IoClose`; on a worker
`ProcessCommand` and `MatchOrder` (a report takes a number), `publishIncremental` (the
list of subscribers is copied), `SendIncrement` (the increment for the next of them
takes a number, if its session is still registered) and `WorkerWrite`; `RunTask`;
`Restart` after a kill at any step. When and with what a book changes is in
`MarketData`; here an increment may be published at any time. A market data request
takes the number of its snapshot in the step that adds the subscription. In the code
a worker may number an increment between the two; then the snapshot has the higher
number of the two instead of the lower, and either may be written first, as in the
model.

**FixClient.** A session object per connection, as the panel makes them: `status`,
`mem` (its SeqNumStore), the shared `.seq` `file`; `ui` and `net` are the two threads'
program counters and locals. Each `get` of the store is a step, because the other
thread's `set` may come between, and so is the reset before a logon; `set` and
`doWrite` are one. A write on a closed socket fails, and its handler disconnects
later on the network thread (`failed`, `WriteFailed`; several failed writes of one
object count as one). UI: `Connect`,
`sendLogon`, `sendMessage`, `sendLogout`, `ForceDisconnect`; network: `Connected`,
`ConnectFails`, `NetReceive`, `NetReadError`, the handling of a message in four
steps, `TimerFires` and the heartbeat's steps.

**FixWire.** Connections deliver in order, break at any time with the loss of
everything in transit; a write on a closed socket is lost. Both ends' code uses
it through asio only. A broken connection can be read as an error from then on
(`UpEnded`, `DownEnded`). The server has no heartbeat timeout of its own: a peer that
goes silent without the operating system noticing keeps its session for as long as
that lasts, and `SessionsReleased` says nothing about it.

**MarketData.** `book` keeps the remaining quantities per level of one side; the
worker's `Insert`, `Cancel` and `Trade` are the book changes (a trade publishes
nothing), `publishIncremental` copies the subscribers and calls the general
subscriber, `Deliver` is one session's turn. The io thread's `Subscribe` adds the
subscription and then walks the book one level per step (`WalkLevel`,
`WriteSnapshot`) while the worker goes on; `unregisterSession` and
`removeSubscription` are two steps as in the code. The UI thread goes through a
frame: `Buttons`, `Sync`, one of the market data buttons, `SwapBook`. The network
thread's callback is `CheckSymbol` and `Apply`. Prices are in 0.00001 and the
converters print four decimals (`Rounded`). `blur` is a history variable, read by
no action.

**Blotter.** UI: `trySubmitOrder`, `sendMessage`, `recordOrderIntent` (three steps,
the exchange may answer in between). Exchange: `Accept`, `Reject`, `Bounce`, `Cancel`,
`Modify`, and `Match` and `Settle` for trades, worded as ExecutionPublisher words them
(a rejection carries the core's id as ClOrdID). `Match` is one pass of the matcher and
`Settle` one `publishTrade` after it: the trades of a pass all show what the whole pass
has left of the order, and the one that says it is filled is the last. Network:
`processExecution`. `handled`, `late` and `replacements` are history variables.
The client's UI sends new orders only, no cancels and no replacements. Its orders
can still be cancelled and replaced, because the gateway lets any session amend any
order; CANCELED and REPLACED reports go to the order's owner
(`WorkerThread.cpp:157,193`), while the refusal of an amendment goes to the session
that asked for it (`cmd.getClientId()`), so that none ever reaches this client's
blotter. A UI that amended its own orders would need those refusals too.

**Framing.** A stream of up to three messages, each valid (FIX.4.4, or FIXT.1.1
which only the client accepts), damaged in one of five ways, or noise; `Read`
appends any piece; the two loops are one step per iteration. Atoms stand for
tags, separators and numbers: a read may end between any two atoms, and so inside
any field, but not inside a tag such as `10=` or between the digits of a number. The
client, which ends a message at the first checksum field, is given messages without
one in their body; the exchange writes no others.

**Abstractions.** Prices are integer ticks and quantities naturals; the 10% test
is exact instead of a `double` quotient. `Partition` has one instrument; symbol,
time stamps, client order ids, session ids and time in force are left out of it,
as no code of the core branches on them (session ids and ClOrdIDs are in
`FixServer` and `Blotter`, symbols in `MarketData`). Stop and StopLimit orders are
declared and not implemented by the source, and are not sent. SQLite executes a
task atomically; a failing INSERT is logged and changes nothing. The trade id
counter is the partition's own (in the code one atomic counter serves all
partitions). A data race on the books and maps (they have no lock) is modelled as
a read of the value before or after the change, at the granularity of a level or
a map entry; torn reads and use of freed memory are not.

## 3. Runs

All runs stop when the bounded clients have sent everything, so deadlock is not
checked; `Quiesces` says instead that the system then comes to rest with nothing
left to do.

| Run | Instance | Shows |
|---|---|---|
| `modifies` | 3 orders of a seller and a buyer, 2 cancels or modifies, quantities 0..2 | `BookIntegrity`, `BookUncrossed`, `ToldDoneIsDone`, `RowsAreManaged`, `NoResurrection`, `ImplementsLifecycle`, `TypeOK`, and `IndInv` and `RowsInv`, the inductive invariants |
| `cancels` | every order over 2 traders, 2 sides, 2 types, 3 prices around the edge of the collar, 2 quantities; 3 orders, 1 cancel; traders symmetric | `NoSelfTrade`, `TradesWithinLimits`, `CollarHolds`, `EveryTradePersisted`, `TradesReconcile` |
| `quiescence` | queue and batch of 2, 3 orders, 1 cancel or modify, fair threads | `NewIdsFresh`, `PriceTimePriority`, `CancelAnswered`, `Quiesces` |
| `recovery` | 3 orders, 1 cancel, 1 restart | `BookIntegrity` after recovery, `RecoveredIdsFree`, `ExchangeTypeOK`, and `ExchangeInv`, their inductive invariant |
| `fix_orders` | 1 client, 1 connection, 1 worker, 2 messages (orders, cancels) | `ExecutedInOrder`, and `LinkInv`, its inductive invariant |
| `fix_reconnect` | 1 client, 2 connections, 1 restart or 1 heartbeat, no application messages | `LinkTypeOK` (with distinct session ids), `NeverTooLow` |
| `fix_liveness` | 1 client, 1 connection, 1 worker, 1 message (ignored or a market data request), 1 increment, 2 queued table updates, 1 restart, `FairLinkSpec` | `TrailMatches`, `Answered`, `SessionsReleased` |
| `market_data` | 2 symbols, 3 levels of which two print alike, 2 orders, 2 connections, 4 clicks | `MarketTypeOK`, `NoOrphanSubscription`, `BookConverges`, and `FeedInv`, the inductive invariant of the latter |
| `candles` | 1 symbol, 3 updates at minutes 3, 4 or 5 in any order | `CandlesReconcile` |
| `blotter` | 2 orders of size 2, 1 connection, 2 replacements | `BlotterTypeOK`, `ExposureNeverHidden`, `HistoryComplete`, `RowsFollowReports` |
| `framing` | every stream of 3 segments, every split, both readers | `NothingInvented`, `FramesStayInSync` |
| `wire_order` | 1 client, 1 connection, 1 worker, an order and a market data request | violation of `NeverTooLow` |

Bounds. `MaxOrders`, `MaxAmends`, `MaxRestarts` bound the clients and the crashes.
Three orders are the least for a sweep of two resting orders (the case in which
the trade loop loses its incoming order) and for a level of two plus a taker, the
case in which time priority decides.
Prices 100 and 105 are within the collar of each other. In `cancels` the prices are
100, 110 and 111: against a best price of 100, 110 is off by exactly 10%, which the
test lets pass, and 111 is off by more, but not by 10% of 111: the mutant, which
divides by the order's own price, lets it pass. `QueueCapacity` 1 makes the full queue ordinary, and
`BatchSize` and `QueueCapacity` 2 let a new order and its neighbours' commands be
in flight together. `MaxDbQueue` only throttles the worker: no command step
*starts* while that many tasks are waiting, and a step may still append up to
five tasks, so the database lags behind the worker in every reachable way of
that length.

Two connections are the least for an old session object to meet a new one; one
restart, for numbers read back from the table. Two messages let a report of the
first meet the answer to the second. `MaxTasks` is a bound like `MaxDbQueue`: no
handler starts with that many table updates queued; two in `fix_liveness` leave the
updates of the io thread and of the worker in the queue together.
`HeartbeatOrRestart`, the state constraint of `fix_reconnect`, leaves out behaviours with
a heartbeat and a restart: `NeverTooLow` is about the time before a restart, in which
the heartbeat shares the sequence store with the two other threads, and what a restart
adds are the fresh session numbers. `MaxIncrements`
bounds the increments published. Two orders and two replacements of at most the
orders' size are the least for a replacement to be repeated, with a fill before,
between or after; a second connection adds to the blotter only that more reports
are lost. Levels 20 and 21 (0.00020 and 0.00021) print
as one price, 30 as another. Four clicks are connect, subscribe, and two of
select, unsubscribe, disconnect, subscribe again. Minutes 3, 4, 5 lie across a
five-minute border and include steps back.

Fairness. `FairSpec`: weak fairness of the worker's and of the database worker's
steps. Both are dedicated threads that poll (`WorkerThread::runLoop`,
`DatabaseWorker::workerLoop` with a 10 ms wait) and block on nothing but each
other's queues; submitters have no fairness. `LinkFairness`: weak fairness of the
server's io_context thread, the client's network thread (both run `io_context::run`
until the end of the process), the database worker, each partition's worker, and
of the UI thread once it is inside a send; the user's clicks, breaks and restarts
have none.

Every property of a passing run has a mutant: a definition named `Mut...` just
before the definition it replaces, with a plausible mistake; TLC finds the
property violated with it.

### The run that ends in a counterexample

`wire_order`: `exchange_fix/FIX.md` calls MsgSeqNum sequential, incremented by one
for every message sent. `sendExecutionReport` runs on a worker thread: it takes a
number and then writes. Meanwhile the io thread takes the next number for its
answer and writes first. The client stores the higher number, meets the lower
one, finds it too low and disconnects. `fix_reconnect` checks the same property to
hold while only the io thread sends.

## 4. Other places where the code and its documents disagree

These properties are defined in the modules and fail. They are kept out of the
list of runs; each fails under the named configuration with the property put in
place of those it lists.

| Property | Configuration | Document | What happens |
|---|---|---|---|
| `EveryFillReported` | `modifies` | `README.md:122`, each fill is published and persisted | an incoming order filled by two resting orders is removed at the first trade; the second trade finds it missing and is skipped, so the second resting order stays managed at quantity 0 and its owner is not told |
| `NoSelfTrade` | `modifies`, `ClientOrders <- OneTrader` | `exchange_risk/README.md:7,13`, orders pass the risk manager, wash trades are checked | a modify has no risk check |
| `EveryTradePersisted` | `modifies` | `exchange_persistence/README.md:13`, every executed trade is persisted | a modify's trades never reach `postTradeUpdate` |
| `TradeIdsNeverRepeat` | `recovery` | `exchange_state/README.md:60`, ids never repeat even after a crash | the counter is saved only by a destructor |
| `MarketNeverRests` | `recovery` | comment at `WorkerThread.cpp:134`, market orders never rest | a market order's row is loaded like any other |
| `TradesSurvive` | `recovery`, `ClientOrders <- SweepAndRest`, quantities 1..3 | `exchange_persistence/README.md:13` | the first trade of a sweep writes the incoming order's final quantity; a crash then loses the later trades |
| `ShutdownDrains` | `recovery` | `exchange_app/README.md:14`, orderly shutdown and queue draining | a batch in flight is in no queue; its database tasks are dropped |
| `AckMeansActive` | `fix_reconnect` | log line at `FixClientSession.cpp:326`, "Logon Acknowledged by server. Session is active." | `sendLogon` sets LogonSent after the write; when the network thread handles the answer before that, Active is overwritten and nothing sets it again: no order can be sent until the user disconnects |
| `DuplicatesOverride` | `blotter` | `client_blotter/README.md:76`, late or duplicate reports are processed by overriding the row's state | every REPLACED report of an order has the execution id `exec_<order id>`; the second of two replacements with the same price and quantity is ignored and missing from the history, and the row stays as whatever came in between (a late intent, a fill) has made it |
| `RejectedOrdersLeave` | `blotter` | `client_blotter/README.md:11`, tracks the lifecycle of every order | a rejection carries the core's id as ClOrdID, so the row of the rejected order stays open |

Further facts are visible in the models: the unfilled rest of a market order, and
an order modified to quantity 0, disappear without a report (`RemoveIncoming` leaves
`told` alone); the order id counter restarts from the largest id that still has a
row, so ids of closed orders come back after a restart (`MaxOrderId`; they never
clash with a row, which is `RecoveredIdsFree`); the recovered book is filled in
hash-map order, so time priority within a level does not survive a restart
(`Rebuilt`); a modify to quantity 0 stores the order as New with nothing left until
the end of its pass removes it, and a kill between those two tasks leaves a row that
`start` puts into the book (`BookIntegrity` fails so under `recovery` with 1 order,
quantities 0..2 and modifies); a modify of a resting order that a sweep has filled but not removed
enters it again (`StartModify`); the server ignores what `validateSequence` returns
(`Checked`), so a gap is logged and nothing more; a cancel that reaches the gateway
before the worker has taken its order is logged and not answered (`HandleAmend`); a
full command queue drops a command without an answer (`Enqueue`); the logout of an old
connection logs out the CompID that has reconnected (`HandleLogout`); session ids start
again from 1 with the process (`Restart`), so a report for a recovered order would
go to whoever holds that id; the Unsubscribe button leaves the panel Subscribed
(`PressUnsubscribe`); an update for one of several orders at a price is applied as
if it were the level, and trades are not published (`blur`).

Consequently `NoSelfTrade`, `EveryTradePersisted` and `TradesReconcile` are checked
to hold on instances without modifies (run `cancels`), `BookIntegrity` after a recovery without
modifies to quantity 0, `RowsAreManaged` claims a
resting order's row only up to its progress, `recovery` does not claim an
uncrossed book (a crash may also bring back two rows that had already traded with
each other), `BookConverges` exempts the levels in `blur`, and `RowsFollowReports`
the orders in `late` and those whose last report is a replacement repeated word for
word. `HistoryComplete` claims a complete history until a replacement is repeated, and
`ExposureNeverHidden` a quantity only for orders no other session has replaced: a row
shows what the trader sent until the report of the replacement is handled, and if the
session was lost in between it never is.

## 5. Proofs

Everything here is proved for all values of the constants that satisfy the
assumptions of the modules (`OrdersAssumption`, `PartitionAssumption`,
`WireAssumption` and so on: any sets of integer prices, natural quantities,
traders, clients, workers and symbols, any bounds). The assumptions say what the
constants are; none restricts what the system does, and TLC evaluates each of
them. Where a theorem needs more, the hypothesis stands in its statement.

### The partition (`PartitionProofs`)

* `Safety`: `Spec => []IndInv`;
* `TypeCorrect`, `BookSound`, `NeverCrossed`, `IdsFresh`, `ReportsTruthful`: its parts
  `TypeOK`, `BookIntegrity`, `BookUncrossed`, `NewIdsFresh`, `ToldDoneIsDone`;
* `GoneForGood`: `Spec => NoResurrection`, an action property.

Why the strengthening. `BookIntegrity` is not inductive: a fill pops the resting
order only if the incoming order is a different one, and settling destroys the
orders of a trade only if they are out of the book, which follows from
`RestsOnce` (an order stands once, so popping it removes it) and from `WorkerInv`
(the order a process function works on is not in the book). `BookUncrossed` is
preserved by `RestIncoming` because `WorkerInv` remembers that the matcher left
the incoming order with no opposite level to trade with while nothing was
inserted since. `NoResurrection` needs that a pending new order's id is fresh
(`NewIdsFresh`), which needs that ids in use and ids in commands are at most the
counter (`OrdersInv`). `ToldDoneIsDone` needs that a status "Filled", which a
report turns into "closed", means no quantity left (`OrdersInv`).

Layout: lemmas about sequences (`RemoveFirstProps`), one typing lemma per kind of
step (`...Type`, combined in `CoreTypeStep`), lemmas about ids in the queue
(`CoreFreshStep`, `FreshStep`), about the book (`ShrinkResting`, `CoreFillBook`,
`CancelBook`, combined in `CoreBookStep` and `UncrossedStep`), about reports
(`ReportStep`); `InitInv` and these give `Safety`. The lemmas named `Core...` use only
`CoreInv`, the part of `IndInv` that speaks neither of the reports nor of an uncrossed
book; `CoreStep` says that it is inductive by itself, which is what the recovery
proofs use: those two things do not survive a crash.

### The reports (`PartitionProofs`)

`LifecycleRefined`: `Spec => ImplementsLifecycle`, the refinement of
`OrderLifecycle`. Initial states map to initial states; a step that reports on one
order is one step of the abstract specification (`OneReport`), a settled trade
reports on two at once. The step needs `ReportsInv` (`ReportsSound`): between
replacements the leaves a report states never grow, because the owner was told at
least what the order has now; the parties of a trade not settled yet are two different
orders, both open to their owners while alive. That a finished order never reopens
rests on `Safety`: a finished order is not managed (`ToldDoneIsDone`), and a new order
has an id nobody has been told of (`NewIdsFresh`).

### Matching (`MatchingProofs`)

* `LimitsHonoured`: `Spec => []TradesWithinLimits`, for new and modified orders.
* `NewOrdersNeverSelfTrade`: the pass of a new order never trades with its own
  trader. `preCheck` looks at the book once, before the pass; `NoOwnInReach` says
  that its verdict lasts: the pass only takes orders out of the book. Modified
  orders may trade with themselves (section 4), hence the hypothesis
  `worker.kind = "New"`.
* `CollarKept`: `CollarHolds`, if clients send no modify or all prices are positive.
  The inductive part (`InCollar`, `Sweep`) is that what the pass has traded at, and
  what it can still reach, lies between the first price and the order's own. The
  hypothesis is needed: `FatFinger` skips the test when the best price is not
  positive, and a modify is not risk-checked.
* `PriorityRespected`: `Spec => PriceTimePriority`, an action property. The best level
  and its front decide who is hit (`FillHitsFirst`; that the hit order stands nowhere
  else is `RestsOnce` and `PointersLive`). Fills and erasures leave the rest of a
  level in its order (`OrderKept`, from what `RemoveFirst` and `Tail` do to indices) and
  no step moves an order that rests before and after it (`LevelsKept`: a modify
  changes the terms only of an order it has taken out); `QueuesBehind` is the insertion.

### Persistence (`PersistenceProofs`)

* `TradesPersisted`: `EveryTradePersisted`, if clients send no modify (section 4). Its
  invariant `TradeIdsKept`: the trades in the table, in the task queue and in the
  worker's list (`AllTrades`) have exactly the ids handed out, each once.
* `TradesAddUp`: `Spec => []TradesReconcile`, under the same hypothesis. Its invariant is
  `Ledger`: the trades of `AllTrades`, wherever they are, add up for every managed order
  to what it has lost (`SumsAgree`), and nobody else has traded (`PartiesKnown`, which
  makes the sum of a new order zero). A fill adds one trade with a new id and takes
  its quantity off both parties (`SumsStep`, `TradedMore`); every other step only moves
  trades along (`TradesMove`) or destroys orders; the table alone balances once the
  queue and the list are empty.
* `RowsTracked`: `Spec => []RowsInv`, and from it `RowsManaged`: `RowsAreManaged`. A row is
  decided by the saves and updates with no remove of the same order behind them
  (`Decides`, `RowStays`); each worker step appends tasks that keep the decided row
  that of the order, and running the head of the queue does not change what is
  decided.

### Recovery (`ExchangeProofs`)

`RecoverySafe`: `ExchangeSpec => []ExchangeInv`, for any number of kills, shutdowns and
restarts, and its parts `ExchangeTypeCorrect`, `RecoveredBookSound` (`BookIntegrity`),
`RecoveredIdsSafe` (`RecoveredIdsFree`). Beyond `CoreInv` the invariant says:

* `RowsLoadable`: no row, no queued task and no managed order outside the matching
  loop is open with nothing left. Any prefix of the queue may be what a kill leaves
  in the table, so it is the single task that must be loadable (`TaskStep`,
  `RowStep`), not only the outcome of all of them;
* `RowsBelow`: rows and tasks name no id above the counter, so that the next id is
  free while the process is up; `Restart` establishes it anew, because the counter
  is read as the maximum over all rows and the queue is gone;
* `ModifiesRest`: no modify to quantity 0 is on its way. Hence the hypothesis
  `NoZeroModify` (section 4): clients send no modify, or none with
  quantity 0.

`Restart` needs three facts about data: a bounded set of naturals has a greatest
element and a set of naturals a least one (`GreatestIs`, `LeastIs`, by well-founded
order), and the orders of a level are read each once (`InAnyOrder`).

### The FIX link (`FixLinkProofs`)

`LinkInvariant`: `LinkSpec => []LinkInv`, from which `LinkTypes`, `TrailFollows` and
`OrdersExecutedInOrder` follow. That orders are executed once and in order does not
rest on sequence numbers, which the gateway does not enforce and the client's
threads repeat; it rests on the connection, and the invariant says how:

* `InLine`: the executed orders begin the written ones, and what the io thread's
  buffer and the wire hold (`InFlight`) continues exactly there (`Continues`). This
  fails once the gateway has skipped an order, which it does when the session is
  not logged on. Hence `Refused`: after that its end is closed and no logon is in
  flight that would log the session on again; and `LogonFirst`: no logon follows
  an order;
* `AllIn`: as long as the connection `Carries`, no order is lost, so a new one put
  on the wire continues the sequence;
* `RefsInv`, `WireInv`: order references grow with every message written, the UI
  thread's next message included, and a connection that is not there yet, or is
  closed, holds nothing; a client writes orders only after it has left Connected;
* `GatewayThreads`, `ClientThreads`: what the threads hold between two steps names
  existing connections of the right client;
* `TrailMatches` is preserved because every change of a number appends its task in
  the same critical section.

`NumbersInTurn`: `LinkSpec /\ []OneSender => []NeverTooLow`. `FixSession` takes a number
under the session manager's lock and writes the message after it is released, so two
threads that send on one connection may write in the other order, and the client,
which gives its session up over a number that is too low, loses it (`wire_order`).
`OneSender` says that this does not happen: no two threads are between the two steps
on one connection. It is a hypothesis about the schedule, true in particular where
the gateway's workers have nothing to send, which `NumbersWithoutOrders` proves from
`NoTraffic` alone: no client sends an order or subscribes to market data (`NoReports`:
no order or market data request was ever written or read, no command queued, nobody is
on the publisher's list). Under `OneSender`, the client never meets a number below the one it expects,
although the UI thread, the reader and the heartbeat timer overwrite each other's
updates of the sequence store, replaced session objects share the `.seq` file, and
the Reset box sets both numbers to 1. Its invariant is `Numbers`, up to the first
restart (which loses the queued updates of the table; `restarts = 0` is part of
`NeverTooLow`):

* `InTurn`: what a client expects on a connection, in memory or in the hands of one
  of its threads (`Expected`), is a number it had before, 1, or one more than a
  message it took; what it has still to take (`ToRead`) rises from there as far as
  the first Logout, and a message about to be written follows all of it. A lost
  update only lowers what is expected;
* `Ended`: after a Logout nothing on the connection counts, because the client closes
  it and checks no number of a Logout. This is what saves the answers the gateway
  numbers with 1 when it does not know the CompID (`HangUps`, `SessionsServe`: a session
that a worker sends a report or an increment to has a CompID or is at its end);
* `OwnNames`, `ClientNumbers`, `RowsPositive`: a connection takes the numbers of its own
  client, which never decrease, so that the number a fresh session object loads from
  the file is not above the next one;
* `SocketsInv`: which ends of a connection exist for which states of the objects.

### Market data (`MarketDataProofs`)

* `SubscriptionsEnd`: `NoOrphanSubscription`, by `SubscriptionsInv`: subscriptions are added
  by the io thread for the session whose request it is reading, which is registered
  then, and the same thread takes them away after it has erased the session.
* `MarketTypes`: `MarketTypeOK`, with `SubscriptionsInv` (a request names a symbol, an
  update the sessions of the publisher's list) and `FewLevels`: only finitely many
  levels hold orders, whatever set `Levels` is. The walk visits the best level it has
  not visited yet, and that such a level exists is a fact about finite sets.
* `CandlesAgree`: `CandlesReconcile`, by `CandlesInv`. The two intervals never look at each
  other; that they agree is arithmetic on buckets. `InStep` says that the active
  candles start and end together: the five-minute candle starts at the bucket of the
  one-minute candle's minute, and the saved ones of either kind end before it. A
  clock set back makes either interval add to its active candle, because a candle
  only starts when the bucket grows, and the five-minute bucket cannot grow without
  the one-minute one (`Buckets`, `ActiveBoth`). `Combines` says what the wider candle
  takes from the narrower ones without choosing among them, and its volume is a sum
  over them (`Volume`).
* `ClientConverges`: `BookConverges`, by `FeedKept`, which is `FeedInv`. `BookConverges`
  speaks of the moment when nothing is under way; `FeedInv` says at every moment what is
  under way. While the stream the client last asked for is running (`Streaming`:
  subscribed, and no request for the symbol still on the wire), every level that is
  not blurred is `Converging`: the worker has its update in hand for this session; or
  the snapshot is being taken, and has the level right or has still to visit it; or
  what has been sent, applied in order, ends up right (`WillShow`: the last message
  that speaks of the level decides, else the one between the halves of the callback,
  else the screen). Each hazard is one way from one to the next:
  an update is written during the walk, so that the snapshot behind it may be older,
  and blurs its level (`FeedDeliver`); the walk meets a level the worker changes
  (`FeedBook`, `FeedWalk`); a message of the old symbol reaches the new book, which
  the snapshot still to come clears (`FeedNet`, `FeedUi`). Two parts say what each side
  relies on: `PanelInv` (a session object has no subscription and no request before it
  is active, so a reconnect starts clean; the panel is not Subscribed while it swaps
  its book) and `WorkersInv` (an update in hand is true of its level, or blurs it for
  everyone subscribed).

What a fold over a finite set or a sequence computes (a level's quantity, the
snapshot's levels, a candle's volume) is `FoldTheory`, instantiated for each: the value
at the empty set, one element more, and that it only depends on what it reads.

### The blotter (`BlotterProofs`)

`BlotterInvariant`: `BlotterSpec => []BlotterInv`, and its parts `BlotterTypes`,
`ExposureShown`, `NoReportDropped`, `RowsFollow`. `HistoryComplete` is not inductive: it
needs that no two reports, handled or on the wire, have the same key but
replacements repeated word for word (`ReportsInv`), which needs that trades, core ids
and the one acceptance and cancellation of an order are numbered apart, and that every
replacement reported is one of `replacements`. `ExposureNeverHidden` needs that a
report of a live order is not final and, unless the order was replaced, states at least
what remains, that trades are due of live orders only (`DueInv`), and `IntentsInv` (an order not yet at the exchange is recorded, or the UI thread is
still at it).

### Only model-checked

* Liveness, under fairness: `CancelAnswered`, `Quiesces`, `Answered`,
  `SessionsReleased` (the prover does not handle it).
* `NothingInvented` and `FramesStayInSync` of `Framing`: facts about positions in the
  concatenation of any number of messages (what `FlattenSeq` and `Find` compute),
  hence an induction over data; and the atoms keep payloads and numbers apart only in
  streams that are short.
* `NeverTooLow` on schedules on which two threads send on one connection: it fails
  there (`wire_order`).

## 6. Plan

Done: all modules of section 2 and the proofs of section 5.

Next, models: several partitions that share the id counters and the routing
lookup of the trading core; the local exchange that the client application starts
and stops.

## 7. Not modelled

* Rendering, charts, themes and the smoke test of the client application; the
  panels' effects on the session and on market data are in `FixClient`, `MarketData`
  and `Blotter`.
* Logging, and the text layout of messages: the converters appear as the fields
  they keep, what they round and what they refuse.
* The simulator's random prices and `seedHistoricalData`: stochastic; the orders are
  ordinary new orders.
* Reads that change nothing (`getHistory`), registering clients in the table.
* Amendments sent by this client: its UI has no button for them. What becomes of an
  amendment at the gateway is in `FixServer`, in the core in `Partition`, and for the
  owner's blotter in `Blotter`.
* A heartbeat timeout at the server, which has none.
* The client's answers to TestRequest, ResendRequest and SequenceReset, which this
  server never sends, and `AuthManager`, which nothing constructs.
* `ExchangeManager`: it constructs and destroys the exchange inside the client;
  starting and stopping the exchange is in `Exchange`.
* Bytes of two concurrent `async_write` calls on one socket, which asio leaves
  undefined: messages are written whole.
