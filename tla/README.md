# A specification of lla_arbibot

lla_arbibot watches the order books of several exchanges, looks for pairs of
books where buying on one and selling on the other makes a profit, and places
the two orders. This directory holds TLA+ models of its concurrent core, the
TLC runs that check them, and proofs of what matters most.

To check a module: `tlc -config <cfg> <module>`; to check the proofs:
`tlapm OrderManagerProofs.tla`, and the same for the other `*Proofs` modules.
`PROJECT.json` lists the runs, maps every definition to the lines it models, and
lists the hazards of the code with the properties that are about them.

## The system

Threads. The **main** thread connects and subscribes the exchanges, builds a
strategy for each trading pair and then calls `timersManager.checkTimers()`
every 10 ms (`main.cpp` 155-201). Each connected exchange has an **IO thread**
that runs its `io_context` (`api_exchange.cpp` 172-176). An IO thread reads a
message, parses it, updates the book of its exchange and pair, and, when a best
price changed, runs the strategy's scan, which may hand an opportunity to the
order manager: all of it on the IO thread. Timer callbacks all run on main.
There is no queue between them: threads meet in shared objects.

| Component | State | Operations | Hard behaviour | What makes it correct |
|---|---|---|---|---|
| OrderManager, Order (`order_mgr`, `order`) | three maps between opportunities and orders, the states, the id of each timeout | handleOpportunity, handleOrderStateChange, handleOpportunityTimeout, cancelOrders, execute, cancel | IO threads place orders while main judges timeouts and reports; the timeout is given the address of a dead local; a log line may lock the log twice | the maps agree; a settled opportunity stays settled and its legs with it; the right timer is stopped; what is reported is settled |
| TimersMgr (`timers`) | timers ordered by deadline, the index by id, the next id | addTimer, stopTimer, checkTimers | ids are taken outside the mutex; callbacks run without it and add timers | no timer lost, fired twice or fired after being stopped; periodic timers keep their pace |
| EventLoop (`event_loop`) | a queue, a flag, a condition variable, a thread | start, stop, postEvent | the flag is changed and notified without the mutex | events are handled once and in order; nothing runs after stop; stop returns |
| OrderBook, OrderBookManager (`orderbook`, `orderbook_mgr`) | two sorted lists of levels | update in five critical sections, setBestBidAsk | readers look between the sections | sides stay sorted and valid; a merge leaves the newest of each price; changes are told |
| StrategyPoplavki (`s_poplavki`, `strategy`) | the best opportunity of each direction | scan on updates and on a timer, reset on a timer | all threads share the best opportunities without a lock | gaps are handed over; nothing handed is stale or below the margin |
| ApiExchange, ApiKucoin, ApiOkx, ApiCrypto (`api_*`) | connection, stream, write queue, cooldown | connect, disconnect, doRead, doWrite, processMessage | disconnect frees the stream while the IO thread uses it; handlers outlive a session | one write at a time, in order; reading goes on; no thread left behind |
| ApiBinance, ApiKraken | as above, and snapshots, a checksum, a timer that watches a book's age | processOrderBookUpdate, processOrderBookSnapshot, getOrderBookSnapshot, resubscribeOrderBook, checkSnapshotValidity | the IO thread and the timer's callback on main share flags without a lock; messages on their way when a book is reset | the book is what the exchange last said; the check never stops; two resubscriptions at once do not end unsubscribed |
| ExchangeManager, main | the exchanges, two flags set by a signal | connectAll, subscribeAllOrderBooks, disconnectAll, the loop, signal_handler, the destructors | a signal at any point, on any thread; a start that fails half way | nobody uses what was destroyed; a signal ends the process |
| Tracer | flags, counters, one mutex | log | called by all; `log` holds the mutex while arguments print | |
| BalanceManager, types, Config | constants, in effect | | | |

`EventLoop` is not used by `main`; its tests exercise it as a component.

## The modules

| Module | Models | Checked by |
|---|---|---|
| `OpportunityLifecycle` | what an opportunity and its two legs may go through: the abstract specification of OrderManager | refinement in `orders` |
| `OrderManager` | `order_mgr.cpp`, `order.cpp` and the timers they use | `orders`, `orders_block` |
| `OrderManagerProofs` | theorems about `OrderManager`, with the refinement of `OpportunityLifecycle` | TLAPS |
| `Timers` | `timers.cpp` | `timers`, `timers_ids` |
| `TimersProofs` | theorems about `Timers` | TLAPS |
| `EventDelivery` | a queue served in order while it is on: the abstract specification of EventLoop | refinement in `event_loop` |
| `EventLoop` | `event_loop.cpp` | `event_loop`, `loop_stop` |
| `EventLoopProofs` | theorems about `EventLoop` | TLAPS |
| `OrderBook`, `MCOrderBook` | `orderbook.cpp`, and the handlers of best-price messages | `orderbook`, `book_bid` |
| `OrderBookProofs` | theorems about `OrderBook`, down to the loop of `mergeSortedLists` | TLAPS |
| `Strategy`, `MCStrategy` | `s_poplavki.cpp`, `strategy.cpp`, and the book updates that start scans | `strategy` |
| `StrategyProofs` | theorems about `Strategy` | TLAPS |
| `Session` | what one connection promises to who opens and closes it: the abstract specification of `Connection` and `Program` | refinement in `connection` and `program` |
| `Connection` | `api_exchange.cpp` connect to writeNext, with what KuCoin, OKX and Crypto add | `connection` |
| `ConnectionProofs` | theorems about `Connection`, with the refinement of `Session` | TLAPS |
| `Program` | `main.cpp`, `ex_mgr.cpp` and the destructors: every exchange from connect to the end of the process | `program` |
| `ProgramProofs` | theorems about `Program` | TLAPS |
| `Snapshots` | `api_kraken.cpp`, `api_binance.cpp` and the validity timer of `api_exchange` | `snapshots` |
| `SnapshotsProofs` | theorems about `Snapshots` | TLAPS |

A step of a model is a piece of code no other thread can see half done: what
runs under one hold of a mutex, or one access to unprotected state. Operators
named like an action with something added (`AddTimerIdLost`,
`WriteNextWithoutPop`) are likely mistakes in that action; putting one in the
action's place must break the property PROJECT.json pairs it with. They play no
part in a specification.

### OrderManager

`opp` and `order` are `m_idToOpportunity` and `m_idToOrder` (with
`m_orderToOpportunity` as the field `opp`); `timers`, `indexed` and `batch` are
the timers manager's store, the part of it the index leads to, and the callbacks
collected; `pc` and `job` say where each thread is.

- handleOpportunity is Accept, ArmTimeout, PlaceOrders, ExecuteBuy, ExecuteSell.
  Each timer it adds takes three steps, as in `timers.cpp` 57: `nextId` is read
  (DrawId), written (WriteId), and the timer inserted (InsertTimeout,
  InsertReport). Another thread may draw the same id in between. The index then
  leads to the later timer only, and a stop by that id removes it, whosever it
  is.
- A timeout is TimeoutUnknown; TimeoutWithoutOrders with LogOpportunity; or
  TimeoutReadsBuy, JudgeSell and Settle, the two reads of `order_mgr.cpp`
  139-152 and the assignment of 154, with executions by IO threads in between,
  and then the steps of CancelOrders, in which the read of a leg's state and its
  cancellation are apart too.
- A report is OrderReport, in which handleOrderStateChange sets the states, and
  the stops of 310-321 (StopAtOnce) and 334 (StopWhenSettled).

`drawn`, `shared`, `robbed` and `promised` are kept for the properties: the ids
drawn, those drawn twice, the timers stopped in place of a timeout, and the
opportunities whose sell order got a report timer. `TimeoutIdsOwned` and
`PlannedHasNoTimeout` say what the code does of its timeouts in spite of the race:
whatever goes wrong goes wrong for an id that was shared. `ReportSettles`
excepts a report timer that was stopped that way.

Simplifications. Allocating an id, entering the opportunity and setting
ACCEPTED are one step, and so are a report's state, its judgement and the
opportunity's state: of what is read there, other threads can only change the
sell order, whose execution falls before its one read or after. A timer's
insertion and the assignment of its id are one step, since nobody stops the
timeout before orders are placed; its deadline is that of the moment it draws the
id. Ids shared with other components' timers are out of this model, and at most
`MaxShared` are drawn twice. The clock stops at `MaxTime` and deadlines are
cut to it, so every timer comes due. `StaleReads` is what the dead stack slot
(`order_mgr.cpp` 187) may hold when the timeout reads it; the right id is
always possible too. The lookups of 269-301 cannot fail: that is
`MapsConsistent`. The calls to the exchanges are commented out in the code or
simulated by `execute`, which reports after a delay in four cases of five.
Which threads are stopped by a log mutex held for ever follows the trace
switches of `main.cpp` 53-77.

### Timers

The index maps an id to a node, a node being one insertion into the multiset,
so that two timers of one id stay distinct. addTimer is a read of `nextId`, its
write, and the insertion; checkTimers collects, then fires one callback at a
time, a periodic timer being added again first. What was collected is a set,
from which callbacks are taken in the multimap's order: by deadline, then by
insertion. `fired`, `stopped`, `series`,
`born` and `pass` are kept for the properties only.

### EventLoop

One step per access to the flag, the mutex or the condition variable; a wait is
split into the test of its predicate, falling asleep and waking, because a
notification in between is lost. The test of `m_running` at line 48 and the pop
are two steps: stop() clears the flag without the mutex and may do so in
between. An event may therefore leave the queue after the flag was cleared, and
`StopFinishesOne` says that it is at most one. `EventDelivery` has no thread, mutex or
condition: the refinement puts the event in hand back at the head of the queue.

### OrderBook

update is MergeBids, MergeAsks, CutBids, CutAsks, Return, or ReplaceBook and
Return; the merge loop is a recursive function of the places of its two
iterators (`MergeWalk`), of which `MergeRound` is one round: what it pushes and
where it leaves the iterators. `SortedList` says what a sort returns, a list of
the levels with none before an earlier one. The four handlers of best prices
differ in what they do when a side is missing: only Crypto's passes on a 0.
Lists come from Kraken's handler only.

`told` is what the strategy last heard of the best prices, `untold` that an
update has failed since. That one tells nobody, though it may have emptied both
sides: `StrategyKnowsBest` says that this is the only way for the strategy to hold
prices that are no longer the book's.

What comes in is assumed of the exchanges, since the code hardly tests it: no
price twice in one list (`ListsAssumption`), quotes with a price and a
quantity (`QuotesAssumption`; a missing one is `NoQuote`), and complete lists
that are sorted whenever their two ends do not show the contrary (`EndsTell`,
the code's own test). A list with a price twice would leave a side with it twice.

### Strategy

Threads scan the routes in the code's order (`route` is the one a scan has come
to, and `GoOn` takes the first of those left); the two books of a route are
copied in two steps, and an Opportunity is copied in two halves, because the
shared ones have no lock. Ages replace the clock: what a test compares is how
many ticks ago an opportunity was made, and an age stops counting one above
`ResetInterval`, so time is unbounded with finitely many states. The clock
ticks only when the callbacks due have run and no scan is in progress, so that
the age bound is in ticks of an unhurried machine: a thread that is suspended in
a scan for a whole interval hands over something older. Books may hold quotes at the start,
since exchanges are subscribed before strategies are made (`main.cpp` 124-145).
`ownsCallback`, a choice of the initial state, says that this strategy was made
last and so owns the one update callback; otherwise only the timer scans.

### Connection

`ws` is the number of the stream in `m_ws`, 0 for a null pointer; `ops` are
operations whose handlers have not run, of this session or left over from the
last. The main thread's disconnect is four steps, the IO thread's handlers one
step for each test and each use of `m_ws`; using it when null ends the process
(`io = "crashed"`). What `m_wsMutex` covers is excluded by `Locked`. A second
session is modelled because disconnect prepares for it (`api_exchange.cpp`
234). KuCoin's connect starts with an HTTP request; an error answer starts a
cooldown that nothing ends. `SessionKept` says that all this implements
`Session`: a thread is there from the opening to the end of the closing, and
leaves between two handlers.

### Program

`main` and `at` say where main is and which exchange its loop has come to;
`session`, `closing` and `io` are, for each exchange, the progress of connect
and disconnect, who is inside disconnect, and where its IO thread is. The
handlers, which `Connection` models one by one, are here what matters to the
end of the process: received (the message converted, `processMessage` not yet
called), inside (using books, orders and timers), or waiting.

`holder` and `wants` are the mutexes: `1..Locks` in the order in which they nest,
the timers', the books', the orders', the queues' of writes, the log's. A
callback, main while it subscribes, and a handler may take any of them, an inner
one inside an outer one, or wait for one; checkTimers takes the timers'. A
callback that throws is caught by the loop (`main.cpp` 196-200), which begins
again without the test for a shutdown.

A signal interrupts any thread, whatever it holds; `handler` has the two
assignments of `signal_handler` apart, because main reads the flags in between when
the handler runs on an IO thread. The second signal calls `exit` where it is.
`exit` destroys balances, then each exchange (the derived object; then
`~ApiExchange`, which disconnects and stops its timer; then the members), then
orders, books and timers (`main.cpp` 26-30 backwards). Its disconnect returns at
once when a disconnect is under way already (BaseDisconnects), and else joins
the IO thread (BaseCloses).

`SignalEnds` has one premise and one exception. The premise: no callback,
handler, connect, subscribe or closing of a stream is under way for ever
(`Underway`). That is not assumed as fairness, since `orders_block` shows a
callback that never ends. The exception: the second signal interrupted the
holder of a mutex. `exit` may then wait for that mutex, or join a thread that
does.

What the code leaves undefined is a choice: a thread that uses what was
destroyed may go on or end the process (`UseDestroyed`); a handler that calls
the pure virtual `processMessage` aborts; main returning while another thread
is in `exit` is undefined. Not here: a third signal, one that comes once `exit`
has begun, and the log's mutex where main takes it outside of callbacks and
subscribing. Session's phase "closing" is the code's two, before and
after the context is stopped.

### Snapshots

The exchange's book is `server`, a list of books, one after each update, so
that a level is known by the update that listed it and "the same book" needs no
quantities. Its messages are in `stream`, our requests in `requests`, both in
order: one connection. Kraken's handler is KrakenUpdate, which counts the call,
and KrakenApply, which takes the levels in and, on its turn, compares the
checksum. Binance's is BinanceUpdate, the request for a snapshot, its two
markings and its merge, the comparison of ids and the merge of the increment.
`checkSnapshotValidity` on main is CheckMissing, CheckAge, ClearSnapshot, Restore
and Rearm, with the five steps of a resubscription, in which the pair's flag is set
before the request is sent; they interleave with the IO thread's Mark and
TimerRestarts, which read and write the same flag and timer id. `own` says
that the id kept is the id of a timer in the store, which is all that stopping it
tells apart.

Subscribing and unsubscribing name the channel `ticker` (`api_kraken.cpp` 55,
`api_binance.cpp` 317), never the book. So ServerAnswers turns `ticker` on or
off and nothing else, and the messages of the book are the exchange's own affair
(FeedBegins, FeedEnds). The resubscription that a wrong checksum or an old book
leads to is logged as restoring the book's snapshot (`api_kraken.cpp` 104), and
brings none. The model has no property that a wrong book is repaired: nothing in
the code does it. What a resubscription can be held to is that two of them at
once, one on each thread, do not end with the pair unsubscribed
(`StillSubscribed`).

A message that cannot be read is lost in different ways: one of Kraken's is
counted or not, and an unreadable checksum leaves the levels taken in; Binance's
increment is dropped by the catch at 175 with the flag still set; Binance's
snapshot, whose errors `processOrderBookSnapshot` swallows (225-230) while the
request reports success (363), may be marked without its levels, or not marked,
with the increment going on to be applied. `missed` is true from any of these
until a snapshot has been merged, and `BookAsHeard` promises nothing meanwhile.

main makes no object of the two classes (`main.cpp` 102-103); the exchange is
taken to send what the handlers are written for. Not here: the cut to the depth
(books are smaller), another connection after a loss. The callback starts the
timer again at its usual interval; the check may come at any time.

## The runs

| Run | Result | Bounds | What it shows |
|---|---|---|---|
| `orders` | passes | 2 threads, 2 opportunities, time 2, 1 shared id | `MapsConsistent`, `PlannedMeansExecuted`, `TimeoutIdsOwned`, `PlannedHasNoTimeout`, the refinement `Lifecycle`, and `ReportSettles` |
| `orders_block` | violated | 1 opportunity | a timeout that comes before the orders locks the log's mutex twice |
| `timers` | passes | 2 threads, 2 timers, time 3 | `IndexSound`, `AccountedOnce`, `PeriodicChain`, `FiresInOrder`, `DueFires` |
| `timers_ids` | violated | as above | two timers with one id |
| `event_loop` | passes | 2 posters, 4 events, 2 starts | the refinement `DeliversEvents`, with its liveness, `QuietWhenStopped`, `StopFinishesOne` |
| `loop_stop` | violated | as above | stop may wait for ever |
| `orderbook` | passes | lists of up to 2 levels, depth 2 | `BookSorted`, `MergeOverrides`, `CompleteReplaces`, `StrategyKnowsBest` |
| `book_bid` | violated | Crypto's nulls | a best bid of price 0 |
| `strategy` | passes | 2 exchanges, 3 threads, 2 messages, with the update callback and without | `NotOlderThanReset`, `GapIsHanded` |
| `connection` | passes | 3 exchanges, 2 sessions, 3 messages | `WriteFlagHonest`, `WrittenInOrder`, `KeepsReading`, the refinement `SessionKept`, `WritesGoOn` |
| `program` | passes | 2 exchanges, 2 mutexes, 2 signals | `ManagersOutliveThreads`, `NoneLeftBehind`, the refinement `SessionsKept`, and that a signal ends the process (`SignalEnds`) |
| `snapshots` | passes | 2 prices, 2 updates, 2 messages on their way each way, 1 unreadable, 2 timers, checksum on every 2nd call | `BookAsHeard`, `CheckGoesOn`, `StillSubscribed` |

Why these bounds are enough. Two opportunities let a stale timeout act on the
wrong one. Main and one IO thread give every pair of the roles placer, placer and
judge, since main may place too; one shared id lets a stop remove the other
timer of that id, be it a timeout or a report. Two timers by two threads give the race on an id; time 3 lets
a periodic timer of interval 1 fire three times. Two starts and four posts let
an event be posted before, during and after a stop. Two levels on each side of
a merge give every branch of its loop, and a depth of 2 makes the cut matter.
Two exchanges give both directions; a third would add routes, not kinds of
interference. Two sessions let handlers of the first meet the second; three
messages let one be written, one be taken and one wait. Two exchanges let one be
connected when the other fails, and be joined when the other is gone; two
signals are the shutdown and the forced exit. Two mutexes are the one that `exit`
itself takes and one that threads hold inside it or wait for. Two prices let one level be replaced while the other is removed; two
updates and two messages let one be lost, on its way or unread, while the other
is handled; two timers are the one that is owned and the one whose id was
overwritten.

Deadlock is not checked: each model stops when its bounded inputs are used up.

### Fairness

- `OrderManager`: weak fairness of the clock, of checkTimers with its callbacks
  and of the threads inside a call, taken together: within the bounds every
  behaviour ends, and `ReportSettles` is about the end. Nothing makes a thread
  find an opportunity.
- `Timers`, `Strategy`: weak fairness of the clock, of each part
  of checkTimers, which the main loop calls for ever, and of a thread inside a
  call. Nothing makes a thread start one.
- `EventLoop`: weak fairness of the loop's thread and of a caller that is inside
  postEvent or stop. Nothing makes anybody post.
- `Connection`: weak fairness of a thread inside a call or a handler and of the
  end of a write; strong fairness of the handlers of writes, which other
  handlers may delay but not pass by, since an `io_context` runs handlers in the
  order of completion. Nothing makes a server send or the program connect.
- `Program`: weak fairness of main, of an IO thread between two handlers, of a
  signal handler begun and of the destructors, except where they are inside a
  callback, a handler, a connect, a subscribe or the closing of a stream, which
  the code does not bound; strong fairness of obtaining a mutex that a thread
  waits for, or that `exit` does. Nothing makes a server send or a user stop the
  program.
- `Snapshots` has no liveness property and no fairness.

## What disagrees with the code's own words

Four runs end in a violation of a statement in the sources or tests. Each is
listed with its quotation under `findings` in PROJECT.json: the log mutex taken
twice in a timeout, timer ids taken outside the mutex, the lost notification of
stop, the overwritten single bid. Other things the models show are listed as
hazards, with what the properties promise in spite of them: an order that
nobody reports is only logged by the timeout; what is handed over may lie below
the margin that was tested; the resubscription of a wrong book names the ticker;
a Binance snapshot that could not be read may pass for one that was.

## The proofs

`OrderManagerProofs` proves, for every number of threads, opportunities and
ticks and any delays and stale reads, five invariants of `OrderManager`'s
`Spec`:

- `TypeCorrect`: `TypeOK`
- `MapsAgree`: `MapsConsistent`
- `PlannedExecuted`: `PlannedMeansExecuted`
- `TimeoutIdsAreOwned`: `TimeoutIdsOwned`
- `PlannedTimeoutStopped`: `PlannedHasNoTimeout`

The assumptions are those of the module: main is not an IO thread, delays and
bounds are natural numbers, stale reads are too.

None of them but one is inductive. The proof has three layers, each invariant
on top of the one before:

1. `Shape`: types; the maps agree; the number of orders is twice the number of
   placed opportunities, which bounds order ids; a thread between Accept and
   PlaceOrders works on an accepted opportunity without orders, no two on the
   same one; a callback in progress knows an opportunity with orders; pending
   reports, and those being added, are of orders that exist.
2. `Settled`: when an opportunity is EXECUTED_AS_PLANNED both legs are, no
   thread is about to execute or cancel a leg of it, and so nothing can undo it.
   The steps to see are that a leg is checked before it is cancelled, that what
   a timeout has read of a leg not yet executed still tells that its opportunity
   is not planned (`MainKnows`), and that a report, which settles, runs on the
   same thread as both.
3. `Owned`: every id in the store, in the batch or about to be added was drawn;
   two of them are equal, or equal to the id of an opportunity other than the
   timeout's own, only if the id is among the `shared`; a timer the index has
   lost shares its id. With `Settled` it follows that the right timeout has been
   stopped as long as nobody shares its id.

Each layer has one lemma for each action and a theorem that combines them.

It goes on to prove, from the first two of these layers, that every
step of `OrderManager` is a step of `OpportunityLifecycle` or leaves it alone
(`LifecycleImplemented`: `Lifecycle`). PlaceOrders is Place; the execution of a
leg is Fill and a report is Report, or neither changes anything when the
opportunity was settled; a timeout is TimeOut at Settle, whatever its legs have
become since they were read, and nothing before; a leg cancelled is Cancel. What the abstract
steps ask for comes from `Shape` (the ids of two legs are distinct and belong to
one opportunity) and `Settled` (a leg about to be cancelled is one of an
opportunity that was not executed).

`EventLoopProofs` proves of `EventLoop`'s `Spec`, for any posters and any
number of events and starts (the bounds need only be natural numbers):

- `TypeCorrect`: `TypeOK`
- `NobodyLeft`: `QuietWhenStopped`
- `StopFinishes`: `StopFinishesOne`
- `DeliversInOrder`: every step is a step of `EventDelivery` or leaves its
  state alone, which is `DeliversEvents` without the fairness

from three layers. `Control` ties the flag, the mutex, the thread and the owner
together: a thread exists just while the loop runs or is being stopped, and one
that goes to take an event finds one unless it was stopped. `Numbers`, on top of
it, numbers the events as they are posted: the one in hand is the next to
handle, and the queue holds the following ones. `Lateness` counts the callbacks
since the flag was cleared: none while the thread has an event in hand or has
passed the test of line 48, and at most one in all. The mapping to `EventDelivery`
needs both: a push appends the right number, a pop changes nothing, the end of a
callback handles the head.

`ProgramProofs` proves of `Program`'s `Spec`, for any number of exchanges and of
signals (at least one exchange, as the loops over them assume):

- `TypeCorrect`: `TypeOK`
- `ManagersOutlive`: `ManagersOutliveThreads`
- `NobodyLeft`: `NoneLeftBehind`
- `SessionsImplemented`: `SessionsKept`, the refinement of one `Session` for each
  exchange

The argument is the order of things while `exit` was not forced. `ExitOnce`: only
main is inside `exit`, having returned, and before it nothing is destroyed.
`MainDisconnects`: so only main is ever inside disconnect, and an exchange that
is closed has no thread, because main can wait for each. `ClosedSoFar`: in its
last loop main has closed the exchanges before the one it has come to, which
when it returns 0 is all of them. `ClosedFirst`: an exchange that has gone was
closed, and the managers go when all have, which does not need the loop and so
holds after a failed start too. There is one lemma for each disjunct of `Next`,
with one step for each part of the invariant.

`TimersProofs` proves of `Timers`, for any threads, bounds and delays:

- `TypeCorrect`: `TypeOK`
- `IndexIsSound`: `IndexSound`
- `AllAccounted`: `AccountedOnce`
- `InOrder`: `FiresInOrder`
- `KeepsPace`: `PeriodicChain`

The invariant knows a timer by its node, since ids may be shared: nodes are
numbered as they are inserted, so they are distinct and a removal touches one.
Then stopTimer and the collection take from the store just what they take from
the index (`IndexSound`), and each node is in one place (`AccountedOnce`).
`Ahead` says that what is in the batch is due, and that a timer in the store has
a later deadline or was added in this pass, which gives the order of firing. `Chains`, on top of this, says
of a series of periodic timers that its deadlines follow each other by the
interval and that only the last is not fired yet; it needs the step in which the
next timer is added to come before the callback.

`ConnectionProofs` proves of `Connection`, for any number of sessions and
messages:

- `TypeCorrect`: `TypeOK`
- `FlagHonest`: `WriteFlagHonest`
- `InOrder`: `WrittenInOrder`
- `Reading`: `KeepsReading`
- `SessionImplemented`: `SessionKept`

`Control` ties the pointer, the flags and the two threads together. `OneWrite`
says that at most one write is under way and that `m_isWriting` is set exactly
while there is one, or its handler is about to take the next message, until a
null pointer ends the process. `Numbers` numbers messages as they are put on the queue: what was written
and what waits follow each other without a gap.

`StrategyProofs` proves of `Strategy`, for any exchanges, quotes and interval,
`TypeCorrect` (`TypeOK`) and `NothingOld` (`NotOlderThanReset`). An opportunity
handed over is a copy of a shared one, made in two halves, so the invariant
bounds the age of each half wherever it is: in the shared best (`BestYoung`),
while the reset timer is still to come within the interval, and in what each
scan carries (`ScanYoung`). No thread's scan or reset takes time on the clock of
the model, and the callbacks due run before it ticks.

`SnapshotsProofs` proves of `Snapshots`, for any prices, any bounds and any
period of the checksum:

- `TypeCorrect`: `TypeOK`
- `BookIsAsHeard`: `BookAsHeard`
- `CheckNeverStops`: `CheckGoesOn`
- `StaysSubscribed`: `StillSubscribed`

`CheckGoesOn` comes from `Limited`: the timers in the store and the threads about
to start one are counted together, and `own` names one of the former. The book
needs two more parts, and holds as long as nothing was missed. `Chain`: the messages on their way follow each other
without a gap, up to the exchange's present book, as long as it is feeding us.
`Showing`: the next message follows what was heard, or else the snapshot taken
has it already; in the middle of Binance's handler, where the ids are compared, either the
snapshot has the increment in hand and the book shows what was heard, or the
increment is newer than the snapshot and the book shows what it follows. So
skipping the one and merging the other both end with what was heard.

`OrderBookProofs` proves of `OrderBook`, for lists of any length, any quotes and
any depth, under the assumptions above:

- `TypeCorrect`: `TypeOK`
- `BookStaysSorted`: `BookSorted`
- `MergeIsOverride`: `MergeOverrides`
- `CompleteIsReplace`: `CompleteReplaces`
- `StrategyIsTold`: `StrategyKnowsBest`

and of the algorithm by itself that the loop of `mergeSortedLists` pushes just
the levels that a merge means (`WalkMerges`). Four steps lead there.

1. Sorting. A level's rank is the number of levels before it, and one. Of levels
   with different prices the ranks are a bijection to their number (an injection
   between sets of one size), so a sorted list exists (`SortedListOf`), and in
   any sorted list a level stands at its rank, so there is only one
   (`SortedUnique`). Neither needs an induction, and they turn every statement
   about sorted lists into one about sets of levels.
2. Induction. The library's induction theorems take an operator as a parameter,
   which no prover here can instantiate. `SetInduction` is the same principle for
   a set of numbers, from the well-foundedness of finite sets under inclusion:
   of the intervals `1..n` with `n` outside of the set, take a smallest one.
3. The loop. `Left` counts the levels still ahead of the two iterators; each
   round leaves fewer, so the recursive function is defined (`LoopEnds`,
   `MergeRounds`) and by the same measure each place pushes the merge of what is
   left from there on (`RoundMerges`). That lemma has one case for each branch of
   the loop, matched with what a level more does to `Override`: a new level that
   says nothing changes nothing, one of a price of its own is added if valid, an
   old level stays unless a new one has its price. That the lists are sorted is
   what lets a branch decide by looking at the two heads only: the old level
   before the new head is before all the new levels.
4. The invariant. `BookSorted`, `MergeOverrides` and `StrategyKnowsBest` speak of
   the end of an update; `Heard` adds that the strategy was told of the sides the
   update began with, over all those before it that were silent; `MergeSoFar` adds what each of its steps has done of the
   merge of the sides it found (`before`), and that only a book of Kraken's is
   updated in steps, whose bids are all valid: Crypto's single bid without a
   price, which `BookSorted` admits, would not survive as such.

Only checked by TLC, and out of the prover's reach: liveness (`ReportSettles`,
`DueFires`, `DeliversEvents`'s fairness, `GapIsHanded`, `WritesGoOn`,
`SignalEnds`). Every invariant and action property of the passing
runs is proved.

## Not modelled

- What Kraken and Binance do on a connection lost and made again: nothing makes
  it again. Their symbol tables, and the cut of their books to the depth, which
  `OrderBook` has.
- Orders sent to exchanges: the order manager simulates them.
- JSON, HTTP, TLS, number formats; the tracer but for its mutex; balances and
  symbol tables, which do not change.
- Torn reads inside a vector or a double: a data race there has no defined
  outcome. The hazards name the lines.

## Plan

1. *Done*: OrderManager with its life cycle and proofs; Timers; EventLoop;
   OrderBook; Strategy; Connection; start-up and shutdown (`Program`) with
   proofs; the snapshots and the validity timer (`Snapshots`).
2. Compose Strategy with OrderManager: the opportunity handed over and its life
   after, so that one gap is not executed twice at once without bound.
3. *Done*: theorems for every state machine, and the four refinements as far as
   they are safety.
