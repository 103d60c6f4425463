---------------------------- MODULE OrderManager ----------------------------
(***************************************************************************)
(* OrderManager, AcceptedOpportunity and Order (order_mgr.cpp, order.cpp)  *)
(* with the timers they use, as the deployed program runs them: one IO     *)
(* thread per exchange calls handleOpportunity; the main thread calls it   *)
(* too and alone runs the timer callbacks (timers.cpp checkTimers).        *)
(*                                                                         *)
(* A step is a maximal piece of code whose effect no other thread can see  *)
(* half done; two steps are kept apart wherever another thread may read or *)
(* write in between.  Time is counted in ticks of 1000 ms.                 *)
(*                                                                         *)
(* Timer ids are drawn without a lock (timers.cpp 57), so two timers may   *)
(* share one; module Timers is about that race, this one about what the    *)
(* order manager makes of its ids in spite of it.                          *)
(***************************************************************************)
EXTENDS Integers, FiniteSets

CONSTANTS
  Main,             \* the main thread
  ExchangeThreads,  \* the IO threads
  OrderDelay,       \* ORDER_TEST_STATE_CHANGE_DELAY_MS in ticks
  OppTimeout,       \* OPPORTUNITY_TIMEOUT_MS in ticks
  StaleReads,       \* what the dead stack slot of a timeout's id may hold
  MaxShared,        \* bound: timer ids drawn twice
  MaxOpps,          \* bound: opportunities accepted
  MaxTime           \* bound: the clock stops here, every deadline is capped to it

ASSUME ThreadsAssumption == Main \notin ExchangeThreads
ASSUME DelaysAssumption == OrderDelay \in Nat /\ OppTimeout \in Nat
ASSUME BoundsAssumption == MaxOpps \in Nat /\ MaxShared \in Nat /\ MaxTime \in Nat
ASSUME StaleAssumption == StaleReads \subseteq Nat

Threads == {Main} \cup ExchangeThreads
OppIds == 1..MaxOpps
OrderIds == 1..(2 * MaxOpps)

VARIABLES
  nextOppId,    \* m_nextAcceptedOpportunityId: the ids below it are in m_idToOpportunity
  opp,          \* m_idToOpportunity
  nextOrderId,  \* m_nextOrderId: the ids below it are in m_idToOrder
  order,        \* m_idToOrder, with m_orderToOpportunity
  now,          \* the steady clock
  timers,       \* TimersManager::timers
  indexed,      \* those of them TimersManager::timerIds leads to
  nextTimerId,  \* TimersManager::nextId
  batch,        \* timersToExecute of the checkTimers call in progress
  pc,           \* where each thread is
  job,          \* the opportunity each thread is working on, 0 when none
  adding,       \* the timer each thread is adding
  seen,         \* the buy order's state as a timeout has read it
  drawn,        \* kept for the properties: the timer ids drawn,
  shared,       \* those of them drawn twice,
  robbed,       \* the timers stopped in place of an opportunity's timeout,
  promised      \* and the opportunities whose sell order got a report timer

books == <<nextOppId, opp, nextOrderId, order>>
store == <<timers, indexed, batch>>
ids == <<nextTimerId, drawn, shared, promised>>
clockwork == <<now, store, ids, robbed>>
control == <<pc, job, adding, seen>>
vars == <<books, clockwork, control>>

-----------------------------------------------------------------------------
(* The two state enumerations, NONE < NEW < ... and ACCEPTED < ...         *)
OpenOrderStates == {"NONE", "NEW", "PENDING", "PARTIALLY_EXECUTED"}
ClosedOrderStates == {"EXECUTED", "CANCELLED", "TIMEOUT"}
OrderStates == OpenOrderStates \cup ClosedOrderStates
SettledOppStates == {"EXECUTED_AS_PLANNED", "EXECUTION_TIMEOUT"}
OppStates ==
  {"ACCEPTED", "EXECUTING", "PARTIALLY_EXECUTED", "CANCELLING", "CANCELLED"}
    \cup SettledOppStates

OppRecord ==
  [state : OppStates, buyId : Nat, sellId : Nat, timerId : Nat]
OrderRecord == [state : OrderStates, opp : Nat]
TimerRecord ==
  [id : Nat, at : Nat, ref : Nat,
   type : {"OPPORTUNITY_TIMEOUT", "ORDER_TEST_STATE_CHANGE"}]
NoTimer == [id |-> 0, at |-> 0, ref |-> 0, type |-> "NONE"]

PlacingSteps ==
  {"arm", "place", "execBuy", "timeBuy", "execSell", "timeSell", "writeId", "insert"}
StopSteps == {"stop", "stopAgain"}
JudgeSteps == {"judgeSell", "settle"}
CancelSteps == {"checkBuy", "cancelBuy", "checkSell", "cancelSell"}

Accepted == 1..(nextOppId - 1)
HasOrders(o) == opp[o].buyId # 0 /\ opp[o].sellId # 0
BuyState(o) == order[opp[o].buyId].state
SellState(o) == order[opp[o].sellId].state

(* The log mutex is held for ever by a thread that re-locks it.  *)
CanLog == pc[Main] # "blocked"

Goto(t, step, o) ==
  /\ pc' = [pc EXCEPT ![t] = step]
  /\ job' = [job EXCEPT ![t] = o]

-----------------------------------------------------------------------------
(* TimersManager.                                                          *)
Deadline(delay) == IF now + delay < MaxTime THEN now + delay ELSE MaxTime

IsTimeoutOf(tm, o) == tm.type = "OPPORTUNITY_TIMEOUT" /\ tm.ref = o

(* addTimer, on any thread: nextId++ is a read and a write, neither under  *)
(* the mutex; the insertion is.  When MaxShared ids are shared, a read     *)
(* waits for the write of whoever is between the two.                      *)
DrawId(t, from, delay, type, ref) ==
  /\ pc[t] = from
  /\ (\E u \in Threads : pc[u] = "writeId") => Cardinality(shared) < MaxShared
  /\ adding' = [adding EXCEPT ![t] =
       [id |-> nextTimerId, at |-> Deadline(delay), ref |-> ref, type |-> type]]
  /\ drawn' = drawn \cup {nextTimerId}
  /\ shared' = shared \cup ({nextTimerId} \cap drawn)
  /\ Goto(t, "writeId", job[t])
  /\ UNCHANGED <<books, now, store, nextTimerId, robbed, promised, seen>>

WriteId(t) ==
  /\ pc[t] = "writeId"
  /\ nextTimerId' = adding[t].id + 1
  /\ Goto(t, "insert", job[t])
  /\ UNCHANGED <<books, now, store, drawn, shared, robbed, promised, adding, seen>>

(* The index forgets the timer that had the id before.                     *)
Insert(t, next, o) ==
  /\ pc[t] = "insert" /\ CanLog
  /\ timers' = timers \cup {adding[t]}
  /\ indexed' = {tm \in indexed : tm.id # adding[t].id} \cup {adding[t]}
  /\ adding' = [adding EXCEPT ![t] = NoTimer]
  /\ Goto(t, next, o)
  /\ UNCHANGED <<nextOppId, nextOrderId, order, now, batch, nextTimerId, drawn, shared, robbed, seen>>

(* stopTimer, on the id opportunity o keeps: whatever timer the index      *)
(* leads to is erased.                                                     *)
StopTimer(o) ==
  LET gone == {tm \in indexed : tm.id = opp[o].timerId}
  IN  /\ timers' = timers \ gone
      /\ indexed' = indexed \ gone
      /\ robbed' = robbed \cup {tm \in gone : ~IsTimeoutOf(tm, o)}

Expired == {tm \in timers : tm.at <= now}

(* The order of the multimap; timers of one deadline fire in any order.    *)
FiresBefore(tm, u) == tm.at < u.at

Tick ==
  /\ now < MaxTime
  /\ now' = now + 1
  /\ UNCHANGED <<books, store, ids, robbed, control>>

(* checkTimers, first phase: what is due leaves the store in one step and  *)
(* is then beyond the reach of stopTimer.  The index is erased by id.      *)
CheckTimers ==
  /\ pc[Main] = "idle"
  /\ batch = {}
  /\ Expired # {}
  /\ batch' = Expired
  /\ timers' = timers \ Expired
  /\ indexed' = {tm \in indexed : \A u \in Expired : u.id # tm.id}
  /\ UNCHANGED <<books, now, ids, robbed, control>>

(* checkTimers, second phase: the callback of timer tm begins.             *)
NextInBatch(tm) ==
  /\ pc[Main] = "idle"
  /\ tm \in batch
  /\ \A u \in batch : ~FiresBefore(u, tm)
  /\ batch' = batch \ {tm}
  /\ UNCHANGED <<now, ids, adding>>

-----------------------------------------------------------------------------
(* handleOpportunity, and handleAction(OPP_ACTION_PLACE) at its end, on    *)
(* any thread.                                                             *)

(* A fresh id; the opportunity enters m_idToOpportunity as ACCEPTED.       *)
Accept(t) ==
  /\ pc[t] = "idle"
  /\ nextOppId <= MaxOpps
  /\ nextOppId' = nextOppId + 1
  /\ opp' = [opp EXCEPT ![nextOppId].state = "ACCEPTED"]
  /\ Goto(t, "arm", nextOppId)
  /\ UNCHANGED <<nextOrderId, order, clockwork, adding, seen>>

(* The timeout timer.  Its data is the address of the local variable id.   *)
(* Nobody stops it before the orders are placed, so that the insertion and *)
(* the assignment of its id are one step.                                  *)
ArmTimeout(t) ==
  /\ CanLog
  /\ DrawId(t, "arm", OppTimeout, "OPPORTUNITY_TIMEOUT", job[t])

InsertTimeoutNextId(t) ==  \* the id is read from nextId once more
  /\ adding[t].type = "OPPORTUNITY_TIMEOUT"
  /\ Insert(t, "place", job[t])
  /\ opp' = [opp EXCEPT ![job[t]].timerId = nextTimerId - 1]
  /\ UNCHANGED promised

InsertTimeout(t) ==
  /\ adding[t].type = "OPPORTUNITY_TIMEOUT"
  /\ Insert(t, "place", job[t])
  /\ opp' = [opp EXCEPT ![job[t]].timerId = adding[t].id]
  /\ UNCHANGED promised

PlaceOrdersOneId(t) ==  \* the order id is not advanced for the sell order
  LET o == job[t]
  IN  /\ pc[t] = "place"
      /\ order' = [order EXCEPT ![nextOrderId] = [state |-> "NEW", opp |-> o]]
      /\ opp' = [opp EXCEPT ![o].buyId = nextOrderId, ![o].sellId = nextOrderId]
      /\ nextOrderId' = nextOrderId + 1
      /\ Goto(t, "execBuy", o)
      /\ UNCHANGED <<nextOppId, clockwork, adding, seen>>

PlaceOrdersIdSkipped(t) ==  \* an id is drawn a third time and not used
  LET o == job[t]
      new == [state |-> "NEW", opp |-> o]
  IN  /\ pc[t] = "place"
      /\ order' = [order EXCEPT ![nextOrderId] = new, ![nextOrderId + 1] = new]
      /\ opp' = [opp EXCEPT ![o].buyId = nextOrderId,
                            ![o].sellId = nextOrderId + 1]
      /\ nextOrderId' = nextOrderId + 3
      /\ Goto(t, "execBuy", o)
      /\ UNCHANGED <<nextOppId, clockwork, adding, seen>>

(* Both orders, both map entries and both ids under one hold of m_mutex.   *)
(* The thread owns the opportunity, so "Opp has orders" cannot be met      *)
(* (MapsConsistent).                                                       *)
PlaceOrders(t) ==
  LET o == job[t]
      new == [state |-> "NEW", opp |-> o]
  IN  /\ pc[t] = "place"
      /\ ~(opp[o].buyId # 0 \/ opp[o].sellId # 0)
      /\ order' = [order EXCEPT ![nextOrderId] = new, ![nextOrderId + 1] = new]
      /\ opp' = [opp EXCEPT ![o].buyId = nextOrderId,
                            ![o].sellId = nextOrderId + 1]
      /\ nextOrderId' = nextOrderId + 2
      /\ Goto(t, "execBuy", o)
      /\ UNCHANGED <<nextOppId, clockwork, adding, seen>>

(* Order::execute: EXECUTED whatever the state was; in 80 cases of 100 a   *)
(* timer that will report the execution.                                   *)
Execute(t, orderId, addTimer, next, o) ==
  /\ CanLog
  /\ order' = [order EXCEPT ![orderId].state = "EXECUTED"]
  /\ Goto(t, addTimer, job[t]) \/ Goto(t, next, o)
  /\ UNCHANGED <<nextOppId, opp, nextOrderId, clockwork, adding, seen>>

ExecuteBuy(t) ==
  /\ pc[t] = "execBuy"
  /\ Execute(t, opp[job[t]].buyId, "timeBuy", "execSell", job[t])

ExecuteSell(t) ==
  /\ pc[t] = "execSell"
  /\ Execute(t, opp[job[t]].sellId, "timeSell", "idle", 0)

TimeReport(t) ==
  \/ DrawId(t, "timeBuy", OrderDelay, "ORDER_TEST_STATE_CHANGE", opp[job[t]].buyId)
  \/ DrawId(t, "timeSell", OrderDelay, "ORDER_TEST_STATE_CHANGE", opp[job[t]].sellId)

InsertReport(t) ==
  /\ adding[t].type = "ORDER_TEST_STATE_CHANGE"
  /\ \/ /\ adding[t].ref = opp[job[t]].buyId
        /\ Insert(t, "execSell", job[t])
        /\ UNCHANGED promised
     \/ /\ adding[t].ref # opp[job[t]].buyId
        /\ Insert(t, "idle", 0)
        /\ promised' = promised \cup {job[t]}
  /\ UNCHANGED opp

-----------------------------------------------------------------------------
(* handleOrderStateChange, on the main thread.                             *)

(* The judgement of lines 305-331 on the two order states.                 *)
StateAfterReportEither(old, buy, sell) ==  \* || for && in the second test
  IF "EXECUTED" \in {buy, sell} THEN "EXECUTED_AS_PLANNED" ELSE old

StateAfterReport(old, buy, sell) ==
  LET legs == {buy, sell}
  IN  IF legs = {"NEW"} THEN "CANCELLED"
      ELSE IF legs = {"EXECUTED"} THEN "EXECUTED_AS_PLANNED"
      ELSE IF "PARTIALLY_EXECUTED" \in legs THEN "PARTIALLY_EXECUTED"
      ELSE IF "CANCELLED" \in legs
        THEN IF legs \cap OpenOrderStates # {} THEN "CANCELLING" ELSE "CANCELLED"
      ELSE IF legs = {"TIMEOUT", "EXECUTED"} THEN "PARTIALLY_EXECUTED"
      ELSE old

(* The branches that call stopTimer at once.                               *)
ReportStopsTimer(buy, sell) ==
  /\ "PARTIALLY_EXECUTED" \notin {buy, sell}
  /\ {buy, sell} = {"EXECUTED"} \/ "CANCELLED" \in {buy, sell}

(* The branch that selects OPP_ACTION_CANCEL and does not.                 *)
ReportCancels(buy, sell) ==
  /\ "TIMEOUT" \in {buy, sell}
  /\ {buy, sell} \cap OpenOrderStates # {}
  /\ {buy, sell} \cap {"PARTIALLY_EXECUTED", "CANCELLED"} = {}

(* Where the report goes on.                                               *)
StepAfterReport(state, buy, sell) ==
  CASE ReportStopsTimer(buy, sell) -> "stop"
    [] ~ReportStopsTimer(buy, sell) /\ state \in SettledOppStates -> "stopAgain"
    [] ~ReportStopsTimer(buy, sell) /\ state \notin SettledOppStates ->
         IF ReportCancels(buy, sell) THEN "checkBuy" ELSE "idle"

(* The step on main after which nothing is left to do.                     *)
MainGoesTo(step, o) == Goto(Main, step, IF step = "idle" THEN 0 ELSE o)

HandleOrderStateChangeKeepsTimer(orderId, newState) ==  \* stopTimer forgotten
  LET o == order[orderId].opp
      changed == [order EXCEPT ![orderId].state = newState]
      buy == changed[opp[o].buyId].state
      sell == changed[opp[o].sellId].state
  IN  /\ order' = changed
      /\ opp' = [opp EXCEPT ![o].state = StateAfterReport(@, buy, sell)]
      /\ UNCHANGED <<nextOppId, nextOrderId, pc, job>>

HandleOrderStateChangeIgnored(orderId, newState) ==  \* the report is dropped
  UNCHANGED <<books, pc, job>>

(* The order's state, the judgement and the opportunity's state: of what   *)
(* is read here the other threads can only change the sell order, whose    *)
(* execution falls before the one read of it or after.                     *)
HandleOrderStateChange(orderId, newState) ==
  LET o == order[orderId].opp
      changed == [order EXCEPT ![orderId].state = newState]
      buy == changed[opp[o].buyId].state
      sell == changed[opp[o].sellId].state
      state == StateAfterReport(opp[o].state, buy, sell)
  IN  /\ order' = changed
      /\ opp' = [opp EXCEPT ![o].state = state]
      /\ MainGoesTo(StepAfterReport(state, buy, sell), o)
      /\ UNCHANGED <<nextOppId, nextOrderId>>

(* Lines 310, 318 and 321; the other threads may insert timers between     *)
(* these and line 334.                                                     *)
StopAtOnce ==
  LET o == job[Main]
  IN  /\ pc[Main] = "stop"
      /\ StopTimer(o)
      /\ MainGoesTo(CASE opp[o].state \in SettledOppStates -> "stopAgain"
                      [] opp[o].state = "CANCELLING" -> "checkBuy"
                      [] OTHER -> "idle", o)
      /\ UNCHANGED <<books, now, ids, batch, adding, seen>>

(* Lines 333-335, for a settled opportunity.                               *)
StopWhenSettled ==
  LET o == job[Main]
  IN  /\ pc[Main] = "stopAgain"
      /\ StopTimer(o)
      /\ opp' = [opp EXCEPT ![o].timerId = 0]
      /\ Goto(Main, "idle", 0)
      /\ UNCHANGED <<nextOppId, nextOrderId, order, now, ids, batch, adding, seen>>

(* callbackTestOrderStateChange: the data pointer is the order's own id.   *)
OrderReport(tm) ==
  /\ NextInBatch(tm)
  /\ tm.type = "ORDER_TEST_STATE_CHANGE"
  /\ HandleOrderStateChange(tm.ref, "EXECUTED")
  /\ UNCHANGED <<timers, indexed, robbed, seen>>

-----------------------------------------------------------------------------
(* handleOpportunityTimeout, on the main thread.                           *)

(* The data pointer is dangling by now: id is what the slot holds.         *)
TimeoutFor(tm, id) ==
  /\ NextInBatch(tm)
  /\ tm.type = "OPPORTUNITY_TIMEOUT"
  /\ id \in {tm.ref} \cup StaleReads
  /\ UNCHANGED <<books, timers, indexed, robbed>>

(* The id names no opportunity: reported and dropped.                      *)
TimeoutUnknown(tm, id) ==
  /\ TimeoutFor(tm, id)
  /\ id \notin Accepted
  /\ UNCHANGED <<pc, job, seen>>

(* The orders are not placed yet: the early return of lines 131-134.       *)
TimeoutWithoutOrders(tm, id) ==
  /\ TimeoutFor(tm, id)
  /\ id \in Accepted
  /\ ~HasOrders(id)
  /\ Goto(Main, "noOrders", id)
  /\ UNCHANGED seen

(* Line 132 logs the opportunity, holding the log mutex.  Formatting it    *)
(* looks up its orders again; a lookup that misses logs in its turn.       *)
LogOpportunity ==
  /\ pc[Main] = "noOrders"
  /\ IF HasOrders(job[Main]) THEN Goto(Main, "idle", 0)
                             ELSE Goto(Main, "blocked", job[Main])
  /\ UNCHANGED <<books, clockwork, adding, seen>>

(* The three scenarios are judged on the two states, read one after the    *)
(* other: m_mutex, held meanwhile, is not the orders' own, and execute     *)
(* takes neither on its way to the order.                                  *)
TimeoutReadsBuy(tm, id) ==
  /\ TimeoutFor(tm, id)
  /\ id \in Accepted
  /\ HasOrders(id)
  /\ seen' = BuyState(id)
  /\ Goto(Main, "judgeSell", id)

Judged(scenario) ==
  /\ pc[Main] = "judgeSell"
  /\ MainGoesTo(CASE scenario = 1 -> "checkBuy"
                  [] scenario = 2 -> "idle"
                  [] scenario = 3 -> "settle", job[Main])
  /\ seen' = "NONE"
  /\ UNCHANGED <<books, clockwork, adding>>

JudgeSellSettlesClosed ==  \* scenario 2 treated as scenario 3
  Judged(IF {seen, SellState(job[Main])} = {"NEW"} THEN 1 ELSE 3)

JudgeSell ==
  LET legs == {seen, SellState(job[Main])}
  IN  Judged(IF legs = {"NEW"} THEN 1 ELSE IF legs \subseteq ClosedOrderStates THEN 2 ELSE 3)

(* Line 154, after the unlock: the orders may have changed again.          *)
Settle ==
  /\ pc[Main] = "settle"
  /\ opp' = [opp EXCEPT ![job[Main]].state = "EXECUTION_TIMEOUT"]
  /\ Goto(Main, "checkBuy", job[Main])
  /\ UNCHANGED <<nextOppId, nextOrderId, order, clockwork, adding, seen>>

-----------------------------------------------------------------------------
(* handleAction(OPP_ACTION_CANCEL), on the main thread: each leg's state   *)
(* is read without a lock, and the leg is cancelled in a later step.       *)
CheckLeg(from, orderId, cancel, next) ==
  /\ pc[Main] = from
  /\ IF order[orderId].state \in OpenOrderStates
       THEN Goto(Main, cancel, job[Main])
       ELSE MainGoesTo(next, job[Main])
  /\ UNCHANGED <<books, clockwork, adding, seen>>

(* Order::cancel: CANCELLED whatever the state now is.                     *)
CancelLeg(from, orderId, next) ==
  /\ pc[Main] = from
  /\ order' = [order EXCEPT ![orderId].state = "CANCELLED"]
  /\ MainGoesTo(next, job[Main])
  /\ UNCHANGED <<nextOppId, opp, nextOrderId, clockwork, adding, seen>>

CancelOrders ==
  LET o == job[Main]
  IN  \/ CheckLeg("checkBuy", opp[o].buyId, "cancelBuy", "checkSell")
      \/ CancelLeg("cancelBuy", opp[o].buyId, "checkSell")
      \/ CheckLeg("checkSell", opp[o].sellId, "cancelSell", "idle")
      \/ CancelLeg("cancelSell", opp[o].sellId, "idle")

-----------------------------------------------------------------------------
Init ==
  /\ nextOppId = 1
  /\ opp = [o \in OppIds |->
              [state |-> "ACCEPTED", buyId |-> 0, sellId |-> 0, timerId |-> 0]]
  /\ nextOrderId = 1
  /\ order = [i \in OrderIds |-> [state |-> "NONE", opp |-> 0]]
  /\ now = 0
  /\ timers = {} /\ indexed = {} /\ batch = {}
  /\ nextTimerId = 1 /\ drawn = {} /\ shared = {}
  /\ robbed = {} /\ promised = {}
  /\ pc = [t \in Threads |-> "idle"]
  /\ job = [t \in Threads |-> 0]
  /\ adding = [t \in Threads |-> NoTimer]
  /\ seen = "NONE"

Placing(t) ==
  \/ ArmTimeout(t) \/ WriteId(t) \/ InsertTimeout(t)
  \/ PlaceOrders(t)
  \/ ExecuteBuy(t) \/ ExecuteSell(t)
  \/ TimeReport(t) \/ InsertReport(t)

Callback ==
  \/ \E tm \in batch : OrderReport(tm)
  \/ StopAtOnce \/ StopWhenSettled
  \/ \E tm \in batch : \E id \in {tm.ref} \cup StaleReads :
       \/ TimeoutUnknown(tm, id)
       \/ TimeoutWithoutOrders(tm, id)
       \/ TimeoutReadsBuy(tm, id)
  \/ LogOpportunity
  \/ JudgeSell \/ Settle
  \/ CancelOrders

Next ==
  \/ Tick
  \/ CheckTimers
  \/ Callback
  \/ \E t \in Threads : Accept(t) \/ Placing(t)

Spec == Init /\ [][Next]_vars

(* The main loop turns for ever, and no thread stops in the middle of a    *)
(* call; nothing makes a thread find an opportunity.  As every behaviour   *)
(* within the bounds ends, it is enough to ask that it ends there.         *)
Fairness == WF_vars(Tick \/ CheckTimers \/ Callback \/ \E t \in Threads : Placing(t))

FairSpec == Spec /\ Fairness

-----------------------------------------------------------------------------
(* The state of the class has its types; no order without an id, no thread *)
(* off its code.                                                           *)
TypeOK ==
  /\ nextOppId \in 1..(MaxOpps + 1)
  /\ opp \in [OppIds -> OppRecord]
  /\ nextOrderId \in 1..(2 * MaxOpps + 1)
  /\ order \in [OrderIds -> OrderRecord]
  /\ now \in Nat
  /\ timers \subseteq TimerRecord /\ indexed \subseteq timers
  /\ batch \subseteq TimerRecord /\ robbed \subseteq TimerRecord
  /\ nextTimerId \in Nat \ {0}
  /\ shared \subseteq drawn /\ drawn \subseteq Nat \ {0}
  /\ pc \in [Threads -> {"idle", "noOrders", "blocked"} \cup PlacingSteps
                          \cup CancelSteps \cup StopSteps \cup JudgeSteps]
  /\ job \in [Threads -> 0..MaxOpps]
  /\ adding \in [Threads -> TimerRecord \cup {NoTimer}]
  /\ seen \in OrderStates
  /\ promised \subseteq OppIds

(* m_idToOpportunity, m_idToOrder and m_orderToOpportunity agree at every  *)
(* step of every thread: an opportunity has both its orders or none, they  *)
(* are consecutive ids that point back at it, and every order in the map   *)
(* belongs to an accepted opportunity that names it (lines 207-219).       *)
MapsConsistent ==
  /\ \A o \in OppIds :
       \/ opp[o].buyId = 0 /\ opp[o].sellId = 0
       \/ /\ o \in Accepted
          /\ opp[o].sellId = opp[o].buyId + 1
          /\ {opp[o].buyId, opp[o].sellId} \subseteq 1..(nextOrderId - 1)
          /\ order[opp[o].buyId].opp = o
          /\ order[opp[o].sellId].opp = o
  /\ \A i \in 1..(nextOrderId - 1) :
       /\ order[i].opp \in Accepted
       /\ i \in {opp[order[i].opp].buyId, opp[order[i].opp].sellId}

(* An opportunity is EXECUTED_AS_PLANNED only while both of its orders are *)
(* EXECUTED: no cancellation that the timeout started, however late its    *)
(* check, and no later report undoes a leg of a settled opportunity.       *)
PlannedMeansExecuted ==
  \A o \in Accepted :
    opp[o].state = "EXECUTED_AS_PLANNED" =>
      HasOrders(o) /\ BuyState(o) = "EXECUTED" /\ SellState(o) = "EXECUTED"

(* stopTimer(timeoutTimerId) can only remove this opportunity's own        *)
(* timeout, never the report of an order or another's timeout, unless the  *)
(* race on nextId gave two timers the id (timers.cpp 57, order_mgr.cpp     *)
(* 185, 310-335).                                                          *)
TimeoutIdsOwned ==
  /\ \A o \in Accepted : \A tm \in timers \cup batch :
       tm.id = opp[o].timerId /\ tm.id \notin shared => IsTimeoutOf(tm, o)
  /\ \A tm \in robbed : tm.id \in shared

(* An opportunity that was executed as planned has no timeout left in the  *)
(* store once the report is through (it may be in the batch already        *)
(* collected), unless that timeout shares its id.                          *)
PlannedHasNoTimeout ==
  \A o \in Accepted :
    opp[o].state = "EXECUTED_AS_PLANNED" /\ ~(pc[Main] \in StopSteps /\ job[Main] = o) =>
      \A tm \in timers : IsTimeoutOf(tm, o) => tm.id \in shared

(* Every accepted opportunity follows the abstract life cycle.             *)
LegStates(o) ==
  IF HasOrders(o) THEN [buy |-> BuyState(o), sell |-> SellState(o)]
                  ELSE [buy |-> "NONE", sell |-> "NONE"]
Abstract == INSTANCE OpportunityLifecycle WITH
  Opps <- OppIds,
  legs <- [o \in OppIds |-> LegStates(o)],
  outcome <- [o \in OppIds |-> opp[o].state]
Lifecycle == Abstract!Spec

(* The sell order, placed last, may get a report timer: when it fires both *)
(* orders are done.  In the end every such opportunity is settled for      *)
(* good, one way or the other, unless the main thread hangs or that timer  *)
(* was stopped for an opportunity whose timeout got the same id.           *)
IsReportOfSell(tm, o) ==
  tm.type = "ORDER_TEST_STATE_CHANGE" /\ tm.ref = opp[o].sellId
ReportSettles ==
  <>[]\A o \in promised :
       \/ opp[o].state \in {"CANCELLED", "EXECUTED_AS_PLANNED"}
       \/ pc[Main] = "blocked"
       \/ \E tm \in robbed : IsReportOfSell(tm, o)

-----------------------------------------------------------------------------
(* What the sources say of the program and the code does not do.           *)

(* "Timer callback requirements: ... 2. Must not block" (timers.h:46).     *)
CallbacksDoNotBlock == pc[Main] # "blocked"
=============================================================================
