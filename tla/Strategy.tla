------------------------------ MODULE Strategy ------------------------------
(***************************************************************************)
(* One StrategyPoplavki (s_poplavki.cpp, strategy.cpp) over the books of   *)
(* its pair.  The IO thread of each exchange updates that exchange's book  *)
(* through OrderBookManager and, when a best price changed, scans; the     *)
(* main thread scans on the PRICE_CHECK timer and forgets the best         *)
(* opportunities on the RESET_BEST_SEEN_OPPORTUNITY timer.                 *)
(*                                                                         *)
(* bestOpportunity1 and 2 are shared by all of them without a lock.  An    *)
(* Opportunity is copied in two steps, its first part and its prices, so   *)
(* that a copy may be half of one and half of another.                     *)
(*                                                                         *)
(* Prices are integers in a unit of which a margin of 0.01 % is 1 in 10000.*)
(* Time is counted in ticks of STRATEGY_CHECK_TIMER_MS.                    *)
(***************************************************************************)
EXTENDS Integers, Sequences, Functions

CONSTANTS
  Main,           \* the main thread
  Exchanges,      \* exchangeIds; an exchange also names its IO thread
  Quotes,         \* the [bid, ask] a message may bring, 0 for a side it lacks
  ResetInterval,  \* BEST_SEEN_OPPORTUNITY_RESET_INTERVAL_MS in ticks
  MaxUpdates      \* bound: messages

IoThreads == Range(Exchanges)
Threads == {Main} \cup IoThreads
NoExchange == "UNKNOWN"

ASSUME StrategyThreads == Main \notin IoThreads
ASSUME StrategyBounds == ResetInterval \in Nat \ {0} /\ MaxUpdates \in Nat
ASSUME StrategyQuotes == Quotes \subseteq [bid : Nat, ask : Nat]

VARIABLES
  sinceScan,  \* ticks since the deadline PRICE_CHECK fired for last
  sinceReset, \* and RESET_BEST_SEEN_OPPORTUNITY
  quote,      \* the best prices of each exchange's book
  best,       \* bestOpportunity1 and bestOpportunity2
  pc,         \* where each thread is
  route,      \* the route each thread's scan has come to
  ask,        \* the ask each scan has read
  local,      \* the opportunity in each thread's hands
  updates,    \* messages received
  ownsCallback \* this strategy, of all pairs', was constructed last

clock == <<sinceScan, sinceReset>>
market == <<quote, updates, ownsCallback>>
thread == <<pc, route, ask, local>>
vars == <<clock, market, best, thread>>

-----------------------------------------------------------------------------
(* The two nested loops of scanOpportunities, both directions of a pair.   *)
Route == [from : DOMAIN Exchanges, to : DOMAIN Exchanges]
Lesser(r) == IF r.from < r.to THEN r.from ELSE r.to
Greater(r) == IF r.from < r.to THEN r.to ELSE r.from
ScannedBefore(r, s) ==
  \/ Lesser(r) < Lesser(s)
  \/ Lesser(r) = Lesser(s) /\ Greater(r) < Greater(s)
  \/ Lesser(r) = Lesser(s) /\ Greater(r) = Greater(s) /\ r.from < s.from
Routes == {r \in Route : r.from # r.to}
NoRoute == [from |-> 0, to |-> 0]

(* bestOpportunity1 is of the routes from an exchange to a later one.      *)
Direction(r) == IF r.from < r.to THEN 1 ELSE 2

(* An Opportunity.  madeAge counts the ticks since its first part was      *)
(* made, pricedAge since its prices were, up to one more than the reset    *)
(* interval.                                                               *)
Ages == 0..(ResetInterval + 1)
Older(age) == IF age > ResetInterval THEN age ELSE age + 1
NoOpportunity ==
  [from |-> NoExchange, to |-> NoExchange, madeAge |-> 0,
   buy |-> 0, sell |-> 0, pricedAge |-> 0]
Opportunity ==
  [from : IoThreads \cup {NoExchange}, to : IoThreads \cup {NoExchange}, madeAge : Ages,
   buy : Nat, sell : Nat, pricedAge : Ages]

FirstPart(o, p) == [p EXCEPT !.from = o.from, !.to = o.to, !.madeAge = o.madeAge]
PricePart(o, p) == [p EXCEPT !.buy = o.buy, !.sell = o.sell, !.pricedAge = o.pricedAge]
HasAmount(o) == o.buy # 0

(* profit() against a margin in units of 0.01 %, and against another's.    *)
ProfitAbove(o, margin) == o.buy > 0 /\ (o.sell - o.buy) * 10000 > margin * o.buy
ProfitBeats(o, p) == (o.sell - o.buy) * p.buy > (p.sell - p.buy) * o.buy
MIN_TRACEABLE_MARGIN == 1
MIN_EXECUTION_MARGIN == 2

(* calculateProfit on the two prices it has read.                          *)
CalculateProfit(r, buy, sell) ==
  IF buy > 0 /\ sell > 0 /\ buy < sell /\ ~(buy * 2 < sell \/ sell * 2 < buy)
  THEN [from |-> Exchanges[r.from], to |-> Exchanges[r.to], madeAge |-> 0,
        buy |-> buy, sell |-> sell, pricedAge |-> 0]
  ELSE NoOpportunity

-----------------------------------------------------------------------------
(* The loops go on with the first of the routes left, if there is one.     *)
GoOn(t, left) ==
  IF left = {}
  THEN /\ pc' = [pc EXCEPT ![t] = "idle"]
       /\ route' = [route EXCEPT ![t] = NoRoute]
  ELSE /\ pc' = [pc EXCEPT ![t] = "buyBook"]
       /\ \E r \in left :
            /\ \A s \in left : s = r \/ ScannedBefore(r, s)
            /\ route' = [route EXCEPT ![t] = r]

StartScan(t) == GoOn(t, Routes)

(* updateOrderBookBestBidAsk under the manager's mutex, then the callback  *)
(* outside it if the best prices changed.  The book keeps its ask if the   *)
(* message has none; its bid, being the only one, it does not.             *)
Update(e, q) ==
  LET new == [bid |-> q.bid, ask |-> IF q.ask > 0 THEN q.ask ELSE quote[e].ask]
  IN  /\ pc[e] = "idle"
      /\ updates < MaxUpdates
      /\ updates' = updates + 1
      /\ quote' = [quote EXCEPT ![e] = new]
      /\ IF new # quote[e] /\ ownsCallback
           THEN StartScan(e) ELSE UNCHANGED <<pc, route>>
      /\ UNCHANGED <<clock, best, ask, local, ownsCallback>>

(* The book of another pair changed: the one callback there is belongs to  *)
(* the strategy constructed last and scans that one's pair.                *)
OtherPairUpdated(e) ==
  /\ pc[e] = "idle"
  /\ ownsCallback
  /\ updates < MaxUpdates
  /\ updates' = updates + 1
  /\ StartScan(e)
  /\ UNCHANGED <<clock, quote, best, ask, local, ownsCallback>>

(* timerCallback of PRICE_CHECK, a periodic timer of one tick.             *)
PriceCheck ==
  /\ pc[Main] = "idle"
  /\ sinceScan >= 1
  /\ sinceScan' = sinceScan - 1
  /\ StartScan(Main)
  /\ UNCHANGED <<sinceReset, market, best, ask, local>>

-----------------------------------------------------------------------------
(* scanOpportunities, on any thread.                                       *)
NextRouteLate(t) ==  \* the loop runs once too often
  LET left == {r \in Routes : ScannedBefore(route[t], r)}
  IN  IF left = {}
      THEN pc' = [pc EXCEPT ![t] = "buyBook"] /\ route' = [route EXCEPT ![t] = NoRoute]
      ELSE GoOn(t, left)

NextRouteOneWay(t) == GoOn(t, {})  \* the other direction is never tried

NextRoute(t) == GoOn(t, {r \in Routes : ScannedBefore(route[t], r)})

Goto(t, place) == pc' = [pc EXCEPT ![t] = place] /\ UNCHANGED route
BestOf(t) == best[Direction(route[t])]

(* Each book is copied atomically, the two of a route one after the other. *)
CopyBuyBook(t) ==
  /\ pc[t] = "buyBook"
  /\ ask' = [ask EXCEPT ![t] = quote[Exchanges[route[t].from]].ask]
  /\ Goto(t, "sellBook")
  /\ UNCHANGED <<clock, market, best, local>>

CopySellBook(t) ==
  LET o == CalculateProfit(route[t], ask[t], quote[Exchanges[route[t].to]].bid)
  IN  /\ pc[t] = "sellBook"
      /\ ask' = [ask EXCEPT ![t] = 0]
      /\ IF HasAmount(o) /\ ProfitAbove(o, MIN_TRACEABLE_MARGIN)
           THEN Goto(t, "compare") /\ local' = [local EXCEPT ![t] = o]
           ELSE NextRoute(t) /\ UNCHANGED local
      /\ UNCHANGED <<clock, market, best>>

Compare(t) ==
  /\ pc[t] = "compare"
  /\ Goto(t, IF ~HasAmount(BestOf(t)) \/ ProfitBeats(local[t], BestOf(t))
             THEN "writeFirst" ELSE "check")
  /\ UNCHANGED <<clock, market, best, ask, local>>

WriteFirstPart(t) ==
  /\ pc[t] = "writeFirst"
  /\ best' = [best EXCEPT ![Direction(route[t])] = FirstPart(local[t], @)]
  /\ Goto(t, "writePrices")
  /\ UNCHANGED <<clock, market, ask, local>>

WritePrices(t) ==
  /\ pc[t] = "writePrices"
  /\ best' = [best EXCEPT ![Direction(route[t])] = PricePart(local[t], @)]
  /\ Goto(t, "check")
  /\ UNCHANGED <<clock, market, ask, local>>

Check(t) ==
  /\ pc[t] = "check"
  /\ local' = [local EXCEPT ![t] = NoOpportunity]
  /\ IF ProfitAbove(BestOf(t), MIN_EXECUTION_MARGIN)
       THEN Goto(t, "copyFirst") ELSE NextRoute(t)
  /\ UNCHANGED <<clock, market, best, ask>>

(* handleOpportunity takes the shared best by reference and copies it.     *)
CopyFirstPart(t) ==
  /\ pc[t] = "copyFirst"
  /\ local' = [local EXCEPT ![t] = FirstPart(BestOf(t), @)]
  /\ Goto(t, "copyPrices")
  /\ UNCHANGED <<clock, market, best, ask>>

CopyPrices(t) ==
  /\ pc[t] = "copyPrices"
  /\ local' = [local EXCEPT ![t] = PricePart(BestOf(t), @)]
  /\ Goto(t, "handed")
  /\ UNCHANGED <<clock, market, best, ask>>

(* The order manager has the copy (module OrderManager) and returns.       *)
HandleOpportunity(t) ==
  /\ pc[t] = "handed"
  /\ local' = [local EXCEPT ![t] = NoOpportunity]
  /\ NextRoute(t)
  /\ UNCHANGED <<clock, market, best, ask>>

ScanOpportunities(t) ==
  \/ CopyBuyBook(t) \/ CopySellBook(t)
  \/ Compare(t) \/ WriteFirstPart(t) \/ WritePrices(t)
  \/ Check(t) \/ CopyFirstPart(t) \/ CopyPrices(t) \/ HandleOpportunity(t)

-----------------------------------------------------------------------------
(* resetBestSeenOpportunityTimerCallback: the first, then the second.      *)
Forget(from, d, part(_, _), next) ==
  /\ pc[Main] = from
  /\ best' = [best EXCEPT ![d] = part(NoOpportunity, @)]
  /\ Goto(Main, next)
  /\ UNCHANGED <<clock, market, ask, local>>

ResetDue ==
  /\ pc[Main] = "idle"
  /\ sinceReset >= ResetInterval
  /\ sinceReset' = sinceReset - ResetInterval
  /\ Goto(Main, IF HasAmount(best[1]) THEN "forget1" ELSE "reset2")
  /\ UNCHANGED <<sinceScan, market, best, ask, local>>

ResetSecondDropped ==  \* the second is tested by the amount of the first
  /\ pc[Main] = "reset2"
  /\ Goto(Main, IF HasAmount(best[1]) THEN "forget2" ELSE "idle")
  /\ UNCHANGED <<clock, market, best, ask, local>>

ResetSecond ==
  /\ pc[Main] = "reset2"
  /\ Goto(Main, IF HasAmount(best[2]) THEN "forget2" ELSE "idle")
  /\ UNCHANGED <<clock, market, best, ask, local>>

ResetBestSeen ==
  \/ Forget("forget1", 1, FirstPart, "forgetPrices1")
  \/ Forget("forgetPrices1", 1, PricePart, "reset2")
  \/ ResetSecond
  \/ Forget("forget2", 2, FirstPart, "forgetPrices2")
  \/ Forget("forgetPrices2", 2, PricePart, "idle")

(* A tick is 5 s: the main loop, which turns every 10 ms, has fired what   *)
(* was due, and what was being scanned is through.                         *)
Tick ==
  /\ \A t \in Threads : pc[t] = "idle"
  /\ sinceScan < 1 /\ sinceReset < ResetInterval
  /\ sinceScan' = sinceScan + 1 /\ sinceReset' = sinceReset + 1
  /\ best' = [d \in 1..2 |->
               [best[d] EXCEPT
                  !.madeAge = IF best[d].from = NoExchange THEN 0 ELSE Older(@),
                  !.pricedAge = IF HasAmount(best[d]) THEN Older(@) ELSE 0]]
  /\ UNCHANGED <<market, thread>>

-----------------------------------------------------------------------------
(* Subscribed before the strategies are constructed (main.cpp 124-145),    *)
(* the exchanges may have sent quotes by then.                             *)
Init ==
  /\ sinceScan = 0 /\ sinceReset = 0
  /\ quote \in [IoThreads -> Quotes \cup {[bid |-> 0, ask |-> 0]}]
  /\ best = [d \in 1..2 |-> NoOpportunity]
  /\ pc = [t \in Threads |-> "idle"]
  /\ route = [t \in Threads |-> NoRoute]
  /\ ask = [t \in Threads |-> 0]
  /\ local = [t \in Threads |-> NoOpportunity]
  /\ updates = 0
  /\ ownsCallback \in BOOLEAN

MainStep == PriceCheck \/ ResetDue \/ ResetBestSeen

Next ==
  \/ Tick
  \/ \E e \in IoThreads :
       \/ \E q \in Quotes : Update(e, q)
       \/ OtherPairUpdated(e)
  \/ MainStep
  \/ \E t \in Threads : ScanOpportunities(t)

Spec == Init /\ [][Next]_vars

(* Timers fire and scans go on; no exchange has to send anything.          *)
Fairness ==
  /\ WF_vars(Tick)
  /\ WF_vars(MainStep)
  /\ \A t \in Threads : WF_vars(ScanOpportunities(t))

FairSpec == Spec /\ Fairness

-----------------------------------------------------------------------------
(* The state of the strategy has its types, and only a scan has a route.   *)
Scanning == {"buyBook", "sellBook", "compare", "writeFirst", "writePrices", "check",
             "copyFirst", "copyPrices", "handed"}
Forgetting == {"forget1", "forgetPrices1", "reset2", "forget2", "forgetPrices2"}
TypeOK ==
  /\ sinceScan \in 0..1 /\ sinceReset \in 0..ResetInterval
  /\ quote \in [IoThreads -> [bid : Nat, ask : Nat]]
  /\ best \in [1..2 -> Opportunity]
  /\ pc \in [Threads -> {"idle"} \cup Scanning \cup Forgetting]
  /\ route \in [Threads -> Routes \cup {NoRoute}]
  /\ \A t \in Threads : route[t] # NoRoute <=> pc[t] \in Scanning
  /\ ask \in [Threads -> Nat]
  /\ local \in [Threads -> Opportunity]
  /\ updates \in 0..MaxUpdates
  /\ ownsCallback \in BOOLEAN

(* What is handed to the order manager is no older than one reset          *)
(* interval, in either part, although scans that began before a reset may  *)
(* write their find after it and other scans hand that over again          *)
(* (strategy.cpp 17-19, s_poplavki.cpp 144-156).                           *)
NotOlderThanReset ==
  \A t \in Threads : pc[t] = "handed" =>
    local[t].madeAge <= ResetInterval /\ local[t].pricedAge <= ResetInterval

(* A margin above MIN_EXECUTION_MARGIN between two books does not go       *)
(* unnoticed: while it lasts, something of its direction is handed to the  *)
(* order manager, whatever the other threads do to the shared best         *)
(* meanwhile (s_poplavki.cpp 93-129), and also of a pair whose books call  *)
(* another pair's strategy (orderbook_mgr.cpp 132).                        *)
Gap(r) ==
  ProfitAbove([buy |-> quote[Exchanges[r.from]].ask, sell |-> quote[Exchanges[r.to]].bid],
              MIN_EXECUTION_MARGIN)
Handed(d) == \E t \in Threads : pc[t] = "handed" /\ Direction(route[t]) = d
GapIsHanded ==
  \A r \in Routes : Gap(r) ~> ~Gap(r) \/ Handed(Direction(r))
=============================================================================
