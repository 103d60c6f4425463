--------------------------- MODULE StrategyProofs ---------------------------
(***************************************************************************)
(* Theorems about Strategy, for any exchanges, quotes and reset interval:  *)
(* its types, and that nothing older than the interval is handed over,     *)
(* though every thread writes the best opportunities without a lock.       *)
(***************************************************************************)
EXTENDS Strategy, TLAPS

(* Both halves of what is kept as best are from after the last reset, or   *)
(* the reset that is under way is still to come to it.                     *)
Pending(d) ==
  pc[Main] \in IF d = 1 THEN {"forget1", "forgetPrices1"} ELSE Forgetting
Limit(d) == IF Pending(d) THEN ResetInterval ELSE sinceReset
BestYoung ==
  \A d \in 1..2 :
    IF HasAmount(best[d])
      THEN best[d].madeAge <= Limit(d) /\ best[d].pricedAge <= Limit(d)
      ELSE best[d].pricedAge = 0

(* What a scan has found was found in this tick, and so was the first half *)
(* of the best while it writes the second, whoever wrote it; what it goes  *)
(* to copy and what it has copied is young.                                *)
Found(t) == pc[t] \in {"compare", "writeFirst", "writePrices"}
ScanYoung(t) ==
  /\ Found(t) => local[t].madeAge = 0 /\ local[t].pricedAge = 0
  /\ pc[t] = "writePrices" => BestOf(t).madeAge = 0
  /\ pc[t] = "copyFirst" => BestOf(t).madeAge <= ResetInterval
  /\ pc[t] \in {"copyPrices", "handed"} => local[t].madeAge <= ResetInterval
  /\ pc[t] = "handed" => local[t].pricedAge <= ResetInterval

Young == BestYoung /\ \A t \in Threads : ScanYoung(t)
IInv == TypeOK /\ Young

-----------------------------------------------------------------------------
(* Opportunities and the copies of their halves are opportunities.         *)
LEMMA Halves ==
  ASSUME NEW o \in Opportunity, NEW p \in Opportunity
  PROVE  /\ FirstPart(o, p) \in Opportunity /\ PricePart(o, p) \in Opportunity
         /\ FirstPart(o, p).madeAge = o.madeAge
         /\ FirstPart(o, p).pricedAge = p.pricedAge
         /\ FirstPart(o, p).buy = p.buy
         /\ PricePart(o, p).madeAge = p.madeAge
         /\ PricePart(o, p).pricedAge = o.pricedAge
         /\ PricePart(o, p).buy = o.buy
BY DEF FirstPart, PricePart, Opportunity

(* No opportunity is one, and new.                                         *)
LEMMA Nothing ==
  /\ NoOpportunity \in Opportunity
  /\ NoOpportunity.madeAge = 0 /\ NoOpportunity.pricedAge = 0 /\ NoOpportunity.buy = 0
BY StrategyBounds DEF NoOpportunity, Opportunity, Ages

(* A route is between exchanges, in one direction or the other.            *)
LEMMA RouteEnds ==
  ASSUME NEW r \in Routes
  PROVE  /\ Exchanges[r.from] \in IoThreads /\ Exchanges[r.to] \in IoThreads
         /\ Direction(r) \in 1..2 /\ r # NoRoute
BY DEF Routes, Route, IoThreads, Range, Direction, NoRoute

(* What a scan finds on a route is new.                                    *)
LEMMA Profit ==
  ASSUME NEW r \in Routes, NEW buy \in Nat, NEW sell \in Nat
  PROVE  /\ CalculateProfit(r, buy, sell) \in Opportunity
         /\ CalculateProfit(r, buy, sell).madeAge = 0
         /\ CalculateProfit(r, buy, sell).pricedAge = 0
BY Nothing, RouteEnds, StrategyBounds DEF CalculateProfit, Opportunity, Ages

-----------------------------------------------------------------------------
(* Where the threads are, of the types.                                    *)
Places == {"idle"} \cup Scanning \cup Forgetting
PlacesOK ==
  /\ pc \in [Threads -> Places]
  /\ route \in [Threads -> Routes \cup {NoRoute}]
  /\ \A t \in Threads : route[t] # NoRoute <=> pc[t] \in Scanning

(* A thread goes on with a route or is done.                               *)
LEMMA GoesOn ==
  ASSUME PlacesOK, NEW t \in Threads, NEW left \in SUBSET Routes, GoOn(t, left)
  PROVE  /\ PlacesOK' /\ pc'[t] \in {"idle", "buyBook"}
         /\ \A u \in Threads \ {t} : pc'[u] = pc[u] /\ route'[u] = route[u]
<1>1. CASE left = {}
  BY <1>1 DEF GoOn, PlacesOK, Places, Scanning
<1>2. CASE left # {}
  <2>1. PICK r \in left : route' = [route EXCEPT ![t] = r]
    BY <1>2 DEF GoOn
  <2>2. r \in Routes /\ r # NoRoute
    BY <2>1, RouteEnds
  <2>3. pc' = [pc EXCEPT ![t] = "buyBook"] /\ "buyBook" \in Places /\ "buyBook" \in Scanning
    BY <1>2 DEF GoOn, Places, Scanning
  <2>4. QED
    BY <2>1, <2>2, <2>3 DEF PlacesOK
<1>3. QED
  BY <1>1, <1>2

(* A step within a scan, or outside of one.                                *)
LEMMA Goes ==
  ASSUME PlacesOK, NEW t \in Threads, NEW place \in Places, Goto(t, place),
         place \in Scanning <=> pc[t] \in Scanning
  PROVE  /\ PlacesOK' /\ pc'[t] = place
         /\ \A u \in Threads \ {t} : pc'[u] = pc[u]
         /\ route' = route
BY DEF Goto, PlacesOK

(* A step that leaves the best as it is keeps the young young, if the      *)
(* thread that moves has only young things and no reset begins or ends.    *)
LEMMA OthersStayYoung ==
  ASSUME Young, NEW t \in Threads, UNCHANGED <<best, sinceReset>>,
         \A u \in Threads \ {t} :
           pc'[u] = pc[u] /\ route'[u] = route[u] /\ local'[u] = local[u],
         pc[t] \notin Forgetting, pc'[t] \notin Forgetting,
         ScanYoung(t)'
  PROVE  Young'
<1>1. \A d \in 1..2 : Limit(d)' = Limit(d)
  <2>1. CASE t = Main
    BY <2>1 DEF Limit, Pending, Forgetting
  <2>2. CASE t # Main
    BY <2>2 DEF Limit, Pending, Threads
  <2>3. QED
    BY <2>1, <2>2
<1>2. BestYoung'
  BY <1>1 DEF Young, BestYoung, HasAmount
<1>3. \A u \in Threads \ {t} : ScanYoung(u)'
  BY DEF Young, ScanYoung, Found, BestOf
<1>4. QED
  BY <1>2, <1>3 DEF Young

-----------------------------------------------------------------------------
(* No step.                                                                *)
LEMMA StutterInv ==
  ASSUME IInv, UNCHANGED vars
  PROVE  IInv'
BY DEF IInv, vars, clock, market, thread, TypeOK, Young, BestYoung, Limit, Pending,
   HasAmount, ScanYoung, Found, BestOf

(* At the start nothing was found.                                         *)
LEMMA InitInv ==
  ASSUME Init
  PROVE  IInv
<1> USE Nothing, StrategyBounds DEF Init
<1>1. TypeOK
  <2>1. quote \in [IoThreads -> [bid : Nat, ask : Nat]]
    BY StrategyQuotes
  <2>2. QED
    BY <2>1 DEF TypeOK, Scanning
<1>2. Young
  BY DEF Young, BestYoung, HasAmount, ScanYoung, Found, Limit, Pending
<1>3. QED
  BY <1>1, <1>2 DEF IInv

(* Time passes between scans and resets.                                   *)
LEMMA TickInv ==
  ASSUME IInv, Tick
  PROVE  IInv'
<1> USE DEF market, thread
<1>1. sinceReset' = sinceReset + 1 /\ sinceReset \in Nat /\ sinceReset < ResetInterval
      /\ sinceReset' \in 0..ResetInterval /\ sinceScan' \in 0..1 /\ ResetInterval \in Nat
  BY StrategyBounds DEF IInv, TypeOK, Tick
<1>2. \A t \in Threads : pc[t] = "idle" /\ pc'[t] = "idle"
  BY DEF Tick
<1>3. \A d \in 1..2 : ~Pending(d) /\ ~Pending(d)'
  BY <1>2 DEF Pending, Forgetting, Threads
<1>4. ASSUME NEW d \in 1..2
      PROVE  /\ best'[d] \in Opportunity /\ best'[d].buy = best[d].buy
             /\ best'[d].madeAge <= best[d].madeAge + 1
             /\ best'[d].pricedAge =
                  IF HasAmount(best[d]) THEN Older(best[d].pricedAge) ELSE 0
             /\ Older(best[d].pricedAge) <= best[d].pricedAge + 1
  <2>1. best[d] \in Opportunity
    BY DEF IInv, TypeOK
  <2>2. \A age \in Ages : Older(age) \in Ages /\ Older(age) <= age + 1 /\ 0 \in Ages
                          /\ 0 <= age + 1
    BY <1>1 DEF Ages, Older
  <2>3. PICK made \in Ages, priced \in Ages :
          /\ best'[d] = [best[d] EXCEPT !.madeAge = made, !.pricedAge = priced]
          /\ made = IF best[d].from = NoExchange THEN 0 ELSE Older(best[d].madeAge)
          /\ priced = IF HasAmount(best[d]) THEN Older(best[d].pricedAge) ELSE 0
    BY <2>1, <2>2 DEF Tick, Opportunity
  <2>4. QED
    BY <2>1, <2>2, <2>3 DEF Opportunity
<1>5. best' \in [1..2 -> Opportunity]
  BY <1>4 DEF Tick
<1>6. TypeOK'
  BY <1>1, <1>5 DEF IInv, TypeOK, Tick
<1>7. BestYoung'
  <2> SUFFICES ASSUME NEW d \in 1..2
               PROVE  IF HasAmount(best'[d])
                        THEN best'[d].madeAge <= sinceReset' /\ best'[d].pricedAge <= sinceReset'
                        ELSE best'[d].pricedAge = 0
    BY <1>3 DEF BestYoung, Limit, HasAmount
  <2>1. best[d].madeAge \in Nat /\ best[d].pricedAge \in Nat /\ best'[d].madeAge \in Nat
        /\ best'[d].pricedAge \in Nat
    BY <1>1, <1>4 DEF IInv, TypeOK, Opportunity, Ages
  <2>2. HasAmount(best[d]) => best[d].madeAge <= sinceReset /\ best[d].pricedAge <= sinceReset
    BY <1>3 DEF IInv, Young, BestYoung, Limit
  <2>3. HasAmount(best'[d]) <=> HasAmount(best[d])
    BY <1>4 DEF HasAmount
  <2>4. QED
    BY <1>1, <1>4, <2>1, <2>2, <2>3
<1>8. \A t \in Threads : ScanYoung(t)'
  BY <1>2 DEF ScanYoung, Found
<1>9. QED
  BY <1>6, <1>7, <1>8 DEF IInv, Young

(* A message comes; its thread may begin a scan.                           *)
LEMMA UpdateInv ==
  ASSUME IInv, NEW e \in IoThreads, (\E q \in Quotes : Update(e, q)) \/ OtherPairUpdated(e)
  PROVE  IInv'
<1> USE DEF clock
<1>1. e \in Threads /\ pc[e] = "idle"
      /\ UNCHANGED <<sinceScan, sinceReset, best, ask, local, ownsCallback>>
  BY DEF Update, OtherPairUpdated, Threads
<1>2. PlacesOK
  BY DEF IInv, TypeOK, PlacesOK, Places
<1>3. GoOn(e, Routes) \/ UNCHANGED <<pc, route>>
  BY DEF Update, OtherPairUpdated, StartScan
<1>4. /\ PlacesOK' /\ pc'[e] \in {"idle", "buyBook"}
      /\ \A u \in Threads \ {e} : pc'[u] = pc[u] /\ route'[u] = route[u]
  <2>1. CASE GoOn(e, Routes)
    BY <1>1, <1>2, <2>1, GoesOn
  <2>2. CASE UNCHANGED <<pc, route>>
    BY <1>1, <1>2, <2>2 DEF PlacesOK
  <2>3. QED
    BY <1>3, <2>1, <2>2
<1>5. quote' \in [IoThreads -> [bid : Nat, ask : Nat]] /\ updates' \in 0..MaxUpdates
  <2>1. ASSUME NEW q \in Quotes, Update(e, q)
        PROVE  quote' \in [IoThreads -> [bid : Nat, ask : Nat]] /\ updates' \in 0..MaxUpdates
    <3>1. [bid |-> q.bid, ask |-> IF q.ask > 0 THEN q.ask ELSE quote[e].ask]
            \in [bid : Nat, ask : Nat]
      BY StrategyQuotes DEF IInv, TypeOK
    <3>2. QED
      BY <2>1, <3>1, StrategyBounds DEF Update, IInv, TypeOK
  <2>2. CASE OtherPairUpdated(e)
    BY <2>2, StrategyBounds DEF OtherPairUpdated, IInv, TypeOK
  <2>3. QED
    BY <2>1, <2>2
<1>6. TypeOK'
  BY <1>1, <1>4, <1>5 DEF IInv, TypeOK, PlacesOK, Places
<1>7. Young'
  <2>1. ScanYoung(e)'
    BY <1>4 DEF ScanYoung, Found
  <2>2. pc[e] \notin Forgetting /\ pc'[e] \notin Forgetting
    BY <1>1, <1>4 DEF Forgetting
  <2>3. QED
    BY <1>1, <1>4, <2>1, <2>2, OthersStayYoung DEF IInv
<1>8. QED
  BY <1>6, <1>7 DEF IInv

(* The price check begins a scan.                                          *)
LEMMA PriceCheckInv ==
  ASSUME IInv, PriceCheck
  PROVE  IInv'
<1> USE DEF market
<1>1. Main \in Threads /\ pc[Main] = "idle"
      /\ UNCHANGED <<sinceReset, quote, updates, best, ask, local, ownsCallback>>
  BY DEF PriceCheck, Threads
<1>2. PlacesOK
  BY DEF IInv, TypeOK, PlacesOK, Places
<1>3. /\ PlacesOK' /\ pc'[Main] \in {"idle", "buyBook"}
      /\ \A u \in Threads \ {Main} : pc'[u] = pc[u] /\ route'[u] = route[u]
  BY <1>1, <1>2, GoesOn DEF PriceCheck, StartScan
<1>4. sinceScan' \in 0..1
  BY DEF PriceCheck, IInv, TypeOK
<1>5. TypeOK'
  BY <1>1, <1>3, <1>4 DEF IInv, TypeOK, PlacesOK, Places
<1>6. Young'
  <2>1. ScanYoung(Main)'
    BY <1>3 DEF ScanYoung, Found
  <2>2. pc[Main] \notin Forgetting /\ pc'[Main] \notin Forgetting
    BY <1>1, <1>3 DEF Forgetting
  <2>3. QED
    BY <1>1, <1>3, <2>1, <2>2, OthersStayYoung DEF IInv
<1>7. QED
  BY <1>5, <1>6 DEF IInv

-----------------------------------------------------------------------------
(* A step of a scan that leaves the best as it is: it goes on within the   *)
(* scan or to the next route, and what it then holds is young.             *)
LEMMA ScanInv ==
  ASSUME IInv, NEW t \in Threads, pc[t] \in Scanning, UNCHANGED <<clock, market, best>>,
         \/ \E place \in Scanning : Goto(t, place)
         \/ NextRoute(t),
         ask' \in [Threads -> Nat], local' \in [Threads -> Opportunity],
         \A u \in Threads \ {t} : local'[u] = local[u],
         ScanYoung(t)'
  PROVE  IInv'
<1> USE DEF clock, market
<1>1. PlacesOK
  BY DEF IInv, TypeOK, PlacesOK, Places
<1>2. /\ PlacesOK' /\ pc'[t] \in {"idle"} \cup Scanning
      /\ \A u \in Threads \ {t} : pc'[u] = pc[u] /\ route'[u] = route[u]
  <2>1. CASE \E place \in Scanning : Goto(t, place)
    BY <1>1, <2>1, Goes DEF Places
  <2>2. CASE NextRoute(t)
    <3>1. {r \in Routes : ScannedBefore(route[t], r)} \in SUBSET Routes
      OBVIOUS
    <3>2. PlacesOK' /\ pc'[t] \in {"idle", "buyBook"}
          /\ \A u \in Threads \ {t} : pc'[u] = pc[u] /\ route'[u] = route[u]
      BY <1>1, <2>2, <3>1, GoesOn DEF NextRoute
    <3>3. QED
      BY <3>2 DEF Scanning
  <2>3. QED
    BY <2>1, <2>2
<1>3. TypeOK'
  BY <1>2 DEF IInv, TypeOK, PlacesOK, Places
<1>4. pc[t] \notin Forgetting /\ pc'[t] \notin Forgetting
  BY <1>2 DEF Scanning, Forgetting
<1>5. Young'
  BY <1>2, <1>4, OthersStayYoung DEF IInv
<1>6. QED
  BY <1>3, <1>5 DEF IInv

(* A thread at a place of a scan has a route.                              *)
LEMMA OnRoute ==
  ASSUME TypeOK, NEW t \in Threads, pc[t] \in Scanning
  PROVE  route[t] \in Routes /\ Direction(route[t]) \in 1..2
BY RouteEnds DEF TypeOK

(* Both books are copied, and the profit is calculated.                    *)
LEMMA CopyBooksInv ==
  ASSUME IInv, NEW t \in Threads, CopyBuyBook(t) \/ CopySellBook(t)
  PROVE  IInv'
<1>1. pc[t] \in Scanning /\ "sellBook" \in Scanning /\ "compare" \in Scanning
  BY DEF CopyBuyBook, CopySellBook, Scanning
<1>2. PICK r \in Routes : r = route[t]
  BY <1>1, OnRoute DEF IInv
<1>3. /\ quote[Exchanges[r.from]].ask \in Nat /\ quote[Exchanges[r.to]].bid \in Nat
      /\ ask \in [Threads -> Nat] /\ local \in [Threads -> Opportunity]
      /\ pc \in [Threads -> Places]
  BY <1>2, RouteEnds DEF IInv, TypeOK, Places
<1>4. CASE CopyBuyBook(t)
  <2>1. pc'[t] = "sellBook"
    BY <1>3, <1>4 DEF CopyBuyBook, Goto
  <2>2. ScanYoung(t)'
    BY <2>1 DEF ScanYoung, Found
  <2>3. ask' \in [Threads -> Nat] /\ local' = local
    BY <1>2, <1>3, <1>4 DEF CopyBuyBook
  <2>4. QED
    BY <1>1, <1>3, <1>4, <2>2, <2>3, ScanInv DEF CopyBuyBook
<1>5. CASE CopySellBook(t)
  <2> DEFINE o == CalculateProfit(r, ask[t], quote[Exchanges[r.to]].bid)
  <2>1. o \in Opportunity /\ o.madeAge = 0 /\ o.pricedAge = 0
    BY <1>3, Profit
  <2>2. ask' = [ask EXCEPT ![t] = 0] /\ UNCHANGED <<clock, market, best>>
    BY <1>5 DEF CopySellBook
  <2>3. \/ Goto(t, "compare") /\ local' = [local EXCEPT ![t] = o]
        \/ NextRoute(t) /\ local' = local
    BY <1>2, <1>5 DEF CopySellBook
  <2> HIDE DEF o
  <2>4. local' \in [Threads -> Opportunity] /\ ask' \in [Threads -> Nat]
        /\ \A u \in Threads \ {t} : local'[u] = local[u]
    BY <1>3, <2>1, <2>2, <2>3
  <2>5. ScanYoung(t)'
    <3>1. CASE Goto(t, "compare") /\ local' = [local EXCEPT ![t] = o]
      BY <1>3, <2>1, <3>1 DEF Goto, ScanYoung, Found
    <3>2. CASE NextRoute(t)
      BY <1>3, <3>2 DEF NextRoute, GoOn, ScanYoung, Found
    <3>3. QED
      BY <2>3, <3>1, <3>2
  <2>6. QED
    BY <1>1, <2>2, <2>3, <2>4, <2>5, ScanInv
<1>6. QED
  BY <1>4, <1>5

(* The find is compared with the best.                                     *)
LEMMA CompareInv ==
  ASSUME IInv, NEW t \in Threads, Compare(t)
  PROVE  IInv'
<1>1. pc[t] \in Scanning /\ "writeFirst" \in Scanning /\ "check" \in Scanning
      /\ UNCHANGED <<clock, market, best, ask, local>>
  BY DEF Compare, Scanning
<1>2. PICK place \in {"writeFirst", "check"} : Goto(t, place)
  BY DEF Compare
<1>3. ScanYoung(t)'
  <2>1. pc'[t] = place
    BY <1>2 DEF Goto, IInv, TypeOK
  <2>2. local'[t].madeAge = 0 /\ local'[t].pricedAge = 0
    BY <1>1 DEF Compare, IInv, Young, ScanYoung, Found
  <2>3. QED
    BY <2>1, <2>2 DEF ScanYoung
<1>4. ask' \in [Threads -> Nat] /\ local' \in [Threads -> Opportunity]
  BY <1>1 DEF IInv, TypeOK
<1>5. QED
  BY <1>1, <1>2, <1>3, <1>4, ScanInv

(* What is checked or copied from the best is no older than the interval.  *)
LEMMA BestInTime ==
  ASSUME IInv, NEW d \in 1..2
  PROVE  /\ HasAmount(best[d]) => best[d].madeAge <= ResetInterval
         /\ best[d].pricedAge <= ResetInterval
<1>1. sinceReset \in 0..ResetInterval /\ ResetInterval \in Nat
  BY StrategyBounds DEF IInv, TypeOK
<1>2. Limit(d) \in Nat /\ Limit(d) <= ResetInterval
  BY <1>1 DEF Limit
<1>3. best[d].madeAge \in Nat /\ best[d].pricedAge \in Nat
  BY <1>1 DEF IInv, TypeOK, Opportunity, Ages
<1>4. QED
  BY <1>1, <1>2, <1>3 DEF IInv, Young, BestYoung

(* The best is checked.                                                    *)
LEMMA CheckInv ==
  ASSUME IInv, NEW t \in Threads, Check(t)
  PROVE  IInv'
<1>1. pc[t] \in Scanning /\ "copyFirst" \in Scanning
  BY DEF Check, Scanning
<1>2. Direction(route[t]) \in 1..2
  BY <1>1, OnRoute DEF IInv
<1>3. /\ UNCHANGED <<clock, market, best, ask>>
      /\ local' = [local EXCEPT ![t] = NoOpportunity]
      /\ \/ Goto(t, "copyFirst") /\ HasAmount(BestOf(t))
         \/ NextRoute(t)
  <2>1. ProfitAbove(BestOf(t), MIN_EXECUTION_MARGIN) => BestOf(t).buy > 0
    BY DEF ProfitAbove
  <2>2. BestOf(t).buy > 0 => HasAmount(BestOf(t))
    BY DEF HasAmount
  <2>3. QED
    BY <2>1, <2>2 DEF Check
<1>4. ask' \in [Threads -> Nat] /\ local' \in [Threads -> Opportunity]
      /\ \A u \in Threads \ {t} : local'[u] = local[u]
  BY <1>3, Nothing DEF IInv, TypeOK
<1>5. ScanYoung(t)'
  <2>1. CASE Goto(t, "copyFirst") /\ HasAmount(BestOf(t))
    <3>1. pc'[t] = "copyFirst" /\ BestOf(t)' = BestOf(t)
      BY <1>3, <2>1 DEF Goto, IInv, TypeOK, BestOf
    <3>2. BestOf(t).madeAge <= ResetInterval
      BY <1>2, <2>1, BestInTime DEF BestOf
    <3>3. QED
      BY <3>1, <3>2 DEF ScanYoung, Found
  <2>2. CASE NextRoute(t)
    BY <2>2 DEF NextRoute, GoOn, ScanYoung, Found, IInv, TypeOK
  <2>3. QED
    BY <1>3, <2>1, <2>2
<1>6. QED
  BY <1>1, <1>3, <1>4, <1>5, ScanInv

(* The best is copied in two halves and handed over.                       *)
LEMMA CopyBestInv ==
  ASSUME IInv, NEW t \in Threads,
         CopyFirstPart(t) \/ CopyPrices(t) \/ HandleOpportunity(t)
  PROVE  IInv'
<1>1. pc[t] \in Scanning /\ "copyPrices" \in Scanning /\ "handed" \in Scanning
      /\ UNCHANGED <<clock, market, best, ask>>
  BY DEF CopyFirstPart, CopyPrices, HandleOpportunity, Scanning
<1>2. Direction(route[t]) \in 1..2
  BY <1>1, OnRoute DEF IInv
<1>3. /\ BestOf(t) \in Opportunity /\ local[t] \in Opportunity
      /\ local \in [Threads -> Opportunity] /\ pc \in [Threads -> Places]
      /\ ask' \in [Threads -> Nat]
  BY <1>1, <1>2 DEF IInv, TypeOK, BestOf, Places
<1>4. CASE CopyFirstPart(t)
  <2>1. local' = [local EXCEPT ![t] = FirstPart(BestOf(t), local[t])]
        /\ Goto(t, "copyPrices") /\ pc[t] = "copyFirst"
    BY <1>4 DEF CopyFirstPart
  <2>2. FirstPart(BestOf(t), local[t]) \in Opportunity
        /\ FirstPart(BestOf(t), local[t]).madeAge <= ResetInterval
    BY <1>3, <2>1, Halves DEF IInv, Young, ScanYoung
  <2>3. pc'[t] = "copyPrices"
    BY <1>3, <2>1 DEF Goto
  <2>4. ScanYoung(t)'
    BY <1>3, <2>1, <2>2, <2>3 DEF ScanYoung, Found
  <2>5. local' \in [Threads -> Opportunity] /\ \A u \in Threads \ {t} : local'[u] = local[u]
    BY <1>3, <2>1, <2>2
  <2>6. QED
    BY <1>1, <1>3, <2>1, <2>4, <2>5, ScanInv
<1>5. CASE CopyPrices(t)
  <2>1. local' = [local EXCEPT ![t] = PricePart(BestOf(t), local[t])]
        /\ Goto(t, "handed") /\ pc[t] = "copyPrices"
    BY <1>5 DEF CopyPrices
  <2>2. PricePart(BestOf(t), local[t]) \in Opportunity
        /\ PricePart(BestOf(t), local[t]).madeAge <= ResetInterval
        /\ PricePart(BestOf(t), local[t]).pricedAge <= ResetInterval
    <3>1. BestOf(t).pricedAge <= ResetInterval
      BY <1>2, BestInTime DEF BestOf
    <3>2. local[t].madeAge <= ResetInterval
      BY <2>1 DEF IInv, Young, ScanYoung
    <3>3. QED
      BY <1>3, <3>1, <3>2, Halves
  <2>3. pc'[t] = "handed"
    BY <1>3, <2>1 DEF Goto
  <2>4. ScanYoung(t)'
    BY <1>3, <2>1, <2>2, <2>3 DEF ScanYoung, Found
  <2>5. local' \in [Threads -> Opportunity] /\ \A u \in Threads \ {t} : local'[u] = local[u]
    BY <1>3, <2>1, <2>2
  <2>6. QED
    BY <1>1, <1>3, <2>1, <2>4, <2>5, ScanInv
<1>6. CASE HandleOpportunity(t)
  <2>1. local' = [local EXCEPT ![t] = NoOpportunity] /\ NextRoute(t)
    BY <1>6 DEF HandleOpportunity
  <2>2. ScanYoung(t)'
    BY <1>3, <2>1 DEF NextRoute, GoOn, ScanYoung, Found
  <2>3. local' \in [Threads -> Opportunity] /\ \A u \in Threads \ {t} : local'[u] = local[u]
    BY <1>3, <2>1, Nothing
  <2>4. QED
    BY <1>1, <1>3, <2>1, <2>2, <2>3, ScanInv
<1>7. QED
  BY <1>4, <1>5, <1>6

-----------------------------------------------------------------------------
(* A step that writes one half of one best: what it writes is new, and     *)
(* when prices are written, there is nothing old beside them.              *)
LEMMA BestWritten ==
  ASSUME IInv, NEW d \in 1..2, NEW o \in Opportunity, o.madeAge = 0, o.pricedAge = 0,
         \/ best' = [best EXCEPT ![d] = FirstPart(o, @)]
         \/ /\ best' = [best EXCEPT ![d] = PricePart(o, @)]
            /\ best[d].madeAge = 0 \/ ~HasAmount(o)
  PROVE  /\ best' \in [1..2 -> Opportunity]
         /\ best'[3 - d] = best[3 - d]
         /\ best'[d].madeAge \in {0, best[d].madeAge}
         /\ HasAmount(best'[d]) =>
              best'[d].madeAge = 0 /\ best'[d].pricedAge \in {0, best[d].pricedAge}
         /\ HasAmount(best'[d]) /\ best'[d].pricedAge # 0 => HasAmount(best[d])
         /\ ~HasAmount(best'[d]) => best'[d].pricedAge = 0
<1>1. best \in [1..2 -> Opportunity] /\ best[d] \in Opportunity
  BY DEF IInv, TypeOK
<1>2. IF HasAmount(best[d]) THEN TRUE ELSE best[d].pricedAge = 0
  BY DEF IInv, Young, BestYoung
<1>3. CASE best' = [best EXCEPT ![d] = FirstPart(o, @)]
  <2>1. best'[d] = FirstPart(o, best[d]) /\ best'[3 - d] = best[3 - d]
    BY <1>1, <1>3
  <2>2. best' \in [1..2 -> Opportunity]
    BY <1>1, <1>3, Halves
  <2>3. QED
    BY <1>1, <1>2, <2>1, <2>2, Halves DEF HasAmount
<1>4. CASE /\ best' = [best EXCEPT ![d] = PricePart(o, @)]
           /\ best[d].madeAge = 0 \/ ~HasAmount(o)
  <2>1. best'[d] = PricePart(o, best[d]) /\ best'[3 - d] = best[3 - d]
    BY <1>1, <1>4
  <2>2. best' \in [1..2 -> Opportunity]
    BY <1>1, <1>4, Halves
  <2>3. QED
    BY <1>1, <1>2, <1>4, <2>1, <2>2, Halves DEF HasAmount
<1>5. QED
  BY <1>3, <1>4

(* Then the best are young by any limit that has not been lowered, and so  *)
(* is what the other threads are about to read of them.                    *)
LEMMA StaysYoung ==
  ASSUME IInv, NEW d \in 1..2, NEW t \in Threads,
         best' \in [1..2 -> Opportunity], best'[3 - d] = best[3 - d],
         best'[d].madeAge \in {0, best[d].madeAge},
         HasAmount(best'[d]) =>
           best'[d].madeAge = 0 /\ best'[d].pricedAge \in {0, best[d].pricedAge},
         HasAmount(best'[d]) /\ best'[d].pricedAge # 0 => HasAmount(best[d]),
         ~HasAmount(best'[d]) => best'[d].pricedAge = 0,
         Limit(d)' = Limit(d) \/ ~HasAmount(best'[d]),
         Limit(3 - d)' = Limit(3 - d),
         \A u \in Threads \ {t} :
           pc'[u] = pc[u] /\ route'[u] = route[u] /\ local'[u] = local[u],
         sinceReset' = sinceReset,
         ScanYoung(t)'
  PROVE  Young'
<1>1. sinceReset \in 0..ResetInterval /\ ResetInterval \in Nat /\ best \in [1..2 -> Opportunity]
  BY StrategyBounds DEF IInv, TypeOK
<1>2. \A c \in 1..2 : Limit(c) \in Nat
  BY <1>1 DEF Limit
<1>3. BestYoung'
  <2> SUFFICES ASSUME NEW c \in 1..2
               PROVE  IF HasAmount(best'[c])
                        THEN best'[c].madeAge <= Limit(c)' /\ best'[c].pricedAge <= Limit(c)'
                        ELSE best'[c].pricedAge = 0
    BY DEF BestYoung, HasAmount
  <2>1. IF HasAmount(best[c])
          THEN best[c].madeAge <= Limit(c) /\ best[c].pricedAge <= Limit(c)
          ELSE best[c].pricedAge = 0
    BY DEF IInv, Young, BestYoung
  <2>2. CASE c = d
    BY <1>2, <2>1, <2>2
  <2>3. CASE c # d
    <3>1. c = 3 - d
      BY <2>3
    <3>2. QED
      BY <2>1, <3>1
  <2>4. QED
    BY <2>2, <2>3
<1>4. ASSUME NEW u \in Threads \ {t} PROVE ScanYoung(u)'
  <2>1. pc'[u] = pc[u] /\ route'[u] = route[u] /\ local'[u] = local[u] /\ ScanYoung(u)
    BY DEF IInv, Young
  <2>2. pc[u] \in {"writePrices", "copyFirst"} => BestOf(u)'.madeAge \in {0, BestOf(u).madeAge}
    <3>1. ASSUME pc[u] \in {"writePrices", "copyFirst"} PROVE Direction(route[u]) \in 1..2
      BY <3>1, OnRoute DEF IInv, Scanning
    <3>2. \A c \in 1..2 : best'[c].madeAge \in {0, best[c].madeAge}
      <4>1. \A c \in 1..2 : c = d \/ c = 3 - d
        OBVIOUS
      <4>2. QED
        BY <4>1
    <3>3. QED
      BY <2>1, <3>1, <3>2 DEF BestOf
  <2>3. 0 <= ResetInterval
    BY <1>1
  <2>4. QED
    BY <2>1, <2>2, <2>3 DEF ScanYoung, Found
<1>5. QED
  BY <1>3, <1>4 DEF Young

(* A scan writes its find, one half after the other.                       *)
LEMMA WriteBestInv ==
  ASSUME IInv, NEW t \in Threads, WriteFirstPart(t) \/ WritePrices(t)
  PROVE  IInv'
<1> USE DEF clock, market
<1> DEFINE d == Direction(route[t])
<1>1. /\ Found(t) /\ pc[t] \in Scanning /\ pc[t] \notin Forgetting
      /\ UNCHANGED <<clock, market, ask, local>>
  BY DEF WriteFirstPart, WritePrices, Scanning, Forgetting, Found
<1>2. d \in 1..2 /\ local[t] \in Opportunity /\ local[t].madeAge = 0 /\ local[t].pricedAge = 0
  BY <1>1, OnRoute DEF IInv, TypeOK, Young, ScanYoung
<1>3. PlacesOK /\ {"writePrices", "check"} \subseteq Scanning /\ Scanning \subseteq Places
  BY DEF IInv, TypeOK, PlacesOK, Places, Scanning
<1>4. PICK place \in {"writePrices", "check"} :
        /\ Goto(t, place)
        /\ place = "writePrices" <=> pc[t] = "writeFirst"
  BY DEF WriteFirstPart, WritePrices
<1>5. /\ PlacesOK' /\ pc'[t] = place /\ route' = route
      /\ \A u \in Threads \ {t} : pc'[u] = pc[u]
  BY <1>1, <1>3, <1>4, Goes
<1>6. \/ pc[t] = "writeFirst" /\ best' = [best EXCEPT ![d] = FirstPart(local[t], @)]
      \/ /\ pc[t] = "writePrices" /\ best' = [best EXCEPT ![d] = PricePart(local[t], @)]
         /\ best[d].madeAge = 0
  <2>1. CASE WriteFirstPart(t)
    BY <2>1 DEF WriteFirstPart
  <2>2. CASE WritePrices(t)
    BY <2>2 DEF WritePrices, IInv, Young, ScanYoung, BestOf
  <2>3. QED
    BY <2>1, <2>2
<1> HIDE DEF d
<1>7. /\ best' \in [1..2 -> Opportunity] /\ best'[3 - d] = best[3 - d]
      /\ best'[d].madeAge \in {0, best[d].madeAge}
      /\ HasAmount(best'[d]) =>
           best'[d].madeAge = 0 /\ best'[d].pricedAge \in {0, best[d].pricedAge}
      /\ HasAmount(best'[d]) /\ best'[d].pricedAge # 0 => HasAmount(best[d])
      /\ ~HasAmount(best'[d]) => best'[d].pricedAge = 0
  BY <1>2, <1>6, BestWritten
<1>8. TypeOK'
  BY <1>1, <1>5, <1>7 DEF IInv, TypeOK, PlacesOK, Places
<1>9. \A c \in 1..2 : Limit(c)' = Limit(c)
  <2>1. CASE t = Main
    BY <1>1, <1>5, <2>1 DEF Limit, Pending, Forgetting
  <2>2. CASE t # Main
    BY <1>1, <1>5, <2>2 DEF Limit, Pending, Threads
  <2>3. QED
    BY <2>1, <2>2
<1>10. ScanYoung(t)'
  <2>1. local'[t].madeAge = 0 /\ local'[t].pricedAge = 0
    BY <1>1, <1>2
  <2>2. pc'[t] = "writePrices" => best'[d].madeAge = 0
    <3>1. ASSUME pc'[t] = "writePrices" PROVE best'[d] = FirstPart(local[t], best[d])
      BY <1>2, <1>4, <1>5, <1>6, <3>1 DEF IInv, TypeOK
    <3>2. best[d] \in Opportunity
      BY <1>2 DEF IInv, TypeOK
    <3>3. QED
      BY <1>2, <3>1, <3>2, Halves
  <2>3. QED
    BY <1>5, <2>1, <2>2 DEF ScanYoung, BestOf, d
<1>11. 3 - d \in 1..2
  BY <1>2
<1>12. Young'
  BY <1>1, <1>2, <1>5, <1>7, <1>9, <1>10, <1>11, StaysYoung
<1>13. QED
  BY <1>8, <1>12 DEF IInv

-----------------------------------------------------------------------------
(* A reset is due: from here on the limit of both is the interval.         *)
LEMMA ResetDueInv ==
  ASSUME IInv, ResetDue
  PROVE  IInv'
<1> USE DEF market
<1>1. /\ pc[Main] = "idle" /\ Main \in Threads
      /\ UNCHANGED <<sinceScan, quote, updates, best, ask, local, ownsCallback>>
      /\ sinceReset = ResetInterval /\ sinceReset' = 0 /\ ResetInterval \in Nat
  BY StrategyBounds DEF ResetDue, Threads, IInv, TypeOK
<1>2. PICK place \in {"forget1", "reset2"} :
        Goto(Main, place) /\ (place = "reset2" => ~HasAmount(best[1]))
  BY DEF ResetDue
<1>3. PlacesOK /\ place \in Places /\ place \notin Scanning /\ place \in Forgetting
      /\ pc[Main] \notin Scanning
  BY <1>1 DEF IInv, TypeOK, PlacesOK, Places, Scanning, Forgetting
<1>4. /\ PlacesOK' /\ pc'[Main] = place /\ route' = route
      /\ \A u \in Threads \ {Main} : pc'[u] = pc[u]
  BY <1>1, <1>2, <1>3, Goes
<1>5. TypeOK'
  BY <1>1, <1>4 DEF IInv, TypeOK, PlacesOK, Places
<1>6. BestYoung'
  <2>1. Limit(1) = ResetInterval /\ Limit(2) = ResetInterval
    BY <1>1 DEF Limit
  <2>2. Limit(2)' = ResetInterval
    BY <1>3, <1>4 DEF Limit, Pending
  <2>3. Limit(1)' = ResetInterval \/ ~HasAmount(best[1])
    BY <1>2, <1>4 DEF Limit, Pending
  <2>4. \A d \in 1..2 : d = 1 \/ d = 2
    OBVIOUS
  <2>5. QED
    BY <1>1, <2>1, <2>2, <2>3, <2>4 DEF IInv, Young, BestYoung, HasAmount
<1>7. \A u \in Threads : ScanYoung(u)'
  <2>1. ScanYoung(Main)'
    BY <1>3, <1>4 DEF ScanYoung, Found, Scanning
  <2>2. \A u \in Threads \ {Main} : ScanYoung(u)'
    BY <1>1, <1>4 DEF IInv, Young, ScanYoung, Found, BestOf
  <2>3. QED
    BY <2>1, <2>2
<1>8. QED
  BY <1>5, <1>6, <1>7 DEF IInv, Young

(* The best are forgotten one after the other, in two halves each.  The    *)
(* limit of one is lowered when its prices are gone.                       *)
LEMMA ForgetInv ==
  ASSUME IInv, ResetBestSeen, ~ResetSecond
  PROVE  IInv'
<1> USE DEF clock, market
<1> DEFINE firsts == {<<1, "forget1", "forgetPrices1">>, <<2, "forget2", "forgetPrices2">>}
<1> DEFINE prices == {<<1, "forgetPrices1", "reset2">>, <<2, "forgetPrices2", "idle">>}
<1>1. PICK d \in 1..2, place \in {"idle"} \cup Forgetting :
        /\ Goto(Main, place)
        /\ \/ /\ <<d, pc[Main], place>> \in firsts
              /\ best' = [best EXCEPT ![d] = FirstPart(NoOpportunity, @)]
           \/ /\ <<d, pc[Main], place>> \in prices
              /\ best' = [best EXCEPT ![d] = PricePart(NoOpportunity, @)]
  <2> DEFINE Picked(d, place) ==
        /\ Goto(Main, place)
        /\ \/ /\ <<d, pc[Main], place>> \in firsts
              /\ best' = [best EXCEPT ![d] = FirstPart(NoOpportunity, @)]
           \/ /\ <<d, pc[Main], place>> \in prices
              /\ best' = [best EXCEPT ![d] = PricePart(NoOpportunity, @)]
  <2>1. Forget("forget1", 1, FirstPart, "forgetPrices1") => Picked(1, "forgetPrices1")
    BY DEF Forget
  <2>2. Forget("forgetPrices1", 1, PricePart, "reset2") => Picked(1, "reset2")
    BY DEF Forget
  <2>3. Forget("forget2", 2, FirstPart, "forgetPrices2") => Picked(2, "forgetPrices2")
    BY DEF Forget
  <2>4. Forget("forgetPrices2", 2, PricePart, "idle") => Picked(2, "idle")
    BY DEF Forget
  <2>5. {"forgetPrices1", "reset2", "forgetPrices2"} \subseteq Forgetting /\ 1 \in 1..2 /\ 2 \in 1..2
    BY DEF Forgetting
  <2> HIDE DEF Picked
  <2>6. \E d \in 1..2, place \in {"idle"} \cup Forgetting : Picked(d, place)
    BY <2>1, <2>2, <2>3, <2>4, <2>5 DEF ResetBestSeen
  <2>7. QED
    BY <2>6 DEF Picked
<1>2. UNCHANGED <<clock, market, ask, local>>
  BY DEF ResetBestSeen, Forget
<1>3. PlacesOK /\ place \in Places /\ place \notin Scanning /\ pc[Main] \notin Scanning
      /\ Main \in Threads
  BY <1>1 DEF IInv, TypeOK, PlacesOK, Places, Scanning, Forgetting, Threads
<1>4. /\ PlacesOK' /\ pc'[Main] = place /\ route' = route
      /\ \A u \in Threads \ {Main} : pc'[u] = pc[u]
  BY <1>1, <1>3, Goes
<1>5. /\ best' \in [1..2 -> Opportunity] /\ best'[3 - d] = best[3 - d]
      /\ best'[d].madeAge \in {0, best[d].madeAge}
      /\ HasAmount(best'[d]) =>
           best'[d].madeAge = 0 /\ best'[d].pricedAge \in {0, best[d].pricedAge}
      /\ HasAmount(best'[d]) /\ best'[d].pricedAge # 0 => HasAmount(best[d])
      /\ ~HasAmount(best'[d]) => best'[d].pricedAge = 0
  <2>1. ~HasAmount(NoOpportunity)
    BY Nothing DEF HasAmount
  <2>2. \/ best' = [best EXCEPT ![d] = FirstPart(NoOpportunity, @)]
        \/ best' = [best EXCEPT ![d] = PricePart(NoOpportunity, @)]
    BY <1>1
  <2>3. QED
    BY <2>1, <2>2, Nothing, BestWritten
<1>6. TypeOK'
  BY <1>2, <1>4, <1>5 DEF IInv, TypeOK, PlacesOK, Places
<1>7. Limit(d)' = Limit(d) \/ ~HasAmount(best'[d])
  <2>1. CASE best' = [best EXCEPT ![d] = PricePart(NoOpportunity, @)]
    <3>1. best[d] \in Opportunity /\ best'[d] = PricePart(NoOpportunity, best[d])
      BY <2>1 DEF IInv, TypeOK
    <3>2. QED
      BY <3>1, Nothing, Halves DEF HasAmount
  <2>2. CASE <<d, pc[Main], place>> \in firsts
    BY <1>2, <1>4, <2>2 DEF Limit, Pending, Forgetting
  <2>3. QED
    BY <1>1, <2>1, <2>2
<1>8. Limit(3 - d)' = Limit(3 - d)
  BY <1>1, <1>2, <1>4 DEF Limit, Pending, Forgetting
<1>9. ScanYoung(Main)'
  BY <1>3, <1>4 DEF ScanYoung, Found, Scanning
<1>10. Young'
  BY <1>2, <1>3, <1>4, <1>5, <1>7, <1>8, <1>9, StaysYoung
<1>11. QED
  BY <1>6, <1>10 DEF IInv

(* The second is looked at: if there is none the reset is over.            *)
LEMMA ResetSecondInv ==
  ASSUME IInv, ResetSecond
  PROVE  IInv'
<1> USE DEF clock, market
<1>1. pc[Main] = "reset2" /\ Main \in Threads /\ UNCHANGED <<clock, market, best, ask, local>>
  BY DEF ResetSecond, Threads
<1>2. PICK place \in {"forget2", "idle"} :
        Goto(Main, place) /\ (place = "idle" => ~HasAmount(best[2]))
  BY DEF ResetSecond
<1>3. PlacesOK /\ place \in Places /\ place \notin Scanning /\ pc[Main] \notin Scanning
  BY <1>1 DEF IInv, TypeOK, PlacesOK, Places, Scanning, Forgetting
<1>4. /\ PlacesOK' /\ pc'[Main] = place /\ route' = route
      /\ \A u \in Threads \ {Main} : pc'[u] = pc[u]
  BY <1>1, <1>2, <1>3, Goes
<1>5. TypeOK'
  BY <1>1, <1>4 DEF IInv, TypeOK, PlacesOK, Places
<1>6. BestYoung'
  <2>1. Limit(1)' = Limit(1)
    BY <1>1, <1>2, <1>4 DEF Limit, Pending
  <2>2. Limit(2)' = Limit(2) \/ ~HasAmount(best[2])
    BY <1>1, <1>2, <1>4 DEF Limit, Pending, Forgetting
  <2>3. \A d \in 1..2 : d = 1 \/ d = 2
    OBVIOUS
  <2>4. QED
    BY <1>1, <2>1, <2>2, <2>3 DEF IInv, Young, BestYoung, HasAmount
<1>7. \A u \in Threads : ScanYoung(u)'
  <2>1. ScanYoung(Main)'
    BY <1>3, <1>4 DEF ScanYoung, Found, Scanning
  <2>2. \A u \in Threads \ {Main} : ScanYoung(u)'
    BY <1>1, <1>4 DEF IInv, Young, ScanYoung, Found, BestOf
  <2>3. QED
    BY <2>1, <2>2
<1>8. QED
  BY <1>5, <1>6, <1>7 DEF IInv, Young

-----------------------------------------------------------------------------
(* The types and the ages, whoever scans, finds, writes, copies and        *)
(* forgets in whatever order.                                              *)
THEOREM Inductive == Spec => []IInv
<1>1. Init => IInv
  BY InitInv
<1>2. IInv /\ [Next]_vars => IInv'
  <2> SUFFICES ASSUME IInv, [Next]_vars PROVE IInv'
    OBVIOUS
  <2>1. CASE UNCHANGED vars
    BY <2>1, StutterInv
  <2>2. CASE Tick
    BY <2>2, TickInv
  <2>3. CASE \E e \in IoThreads :
               \/ \E q \in Quotes : Update(e, q)
               \/ OtherPairUpdated(e)
    BY <2>3, UpdateInv
  <2>4. CASE MainStep
    BY <2>4, PriceCheckInv, ResetDueInv, ForgetInv, ResetSecondInv DEF MainStep
  <2>5. CASE \E t \in Threads : ScanOpportunities(t)
    BY <2>5, CopyBooksInv, CompareInv, WriteBestInv, CheckInv, CopyBestInv
    DEF ScanOpportunities
  <2>6. QED
    BY <2>1, <2>2, <2>3, <2>4, <2>5 DEF Next
<1>3. QED
  BY <1>1, <1>2, PTL DEF Spec

(* The state of the strategy keeps its types, and a thread has a route     *)
(* exactly while it scans (s_poplavki.cpp:64-150).                         *)
THEOREM TypeCorrect == Spec => []TypeOK
  BY Inductive, PTL DEF IInv

(* What is handed over is no older, in either half, than one interval      *)
(* between two resets (s_poplavki.cpp:93-156, strategy.cpp:17-19).         *)
THEOREM NothingOld == Spec => []NotOlderThanReset
<1>1. IInv => NotOlderThanReset
  BY DEF IInv, Young, ScanYoung, NotOlderThanReset
<1>2. QED
  BY <1>1, Inductive, PTL

=============================================================================
