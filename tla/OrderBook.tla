----------------------------- MODULE OrderBook -----------------------------
(***************************************************************************)
(* One OrderBook (orderbook.h, orderbook.cpp) as OrderBookManager drives   *)
(* it: updates come one at a time, under the manager's mutex; readers take *)
(* the book's own mutex only, and so may look between two steps of an      *)
(* update.  A step is one hold of that mutex, or the unlocked code between *)
(* two holds.                                                              *)
(*                                                                         *)
(* Bids are kept best (highest) first, asks best (lowest) first.           *)
(* Kraken's handlers bring lists of levels and best prices, those of the   *)
(* other exchanges the best prices only.                                   *)
(***************************************************************************)
EXTENDS Integers, Sequences, FiniteSets, SequencesExt

CONSTANTS
  Exchanges, \* the exchanges whose book this may be
  BidLists,  \* the lists of levels an update may bring for the bids
  AskLists,  \* and for the asks
  Quotes,    \* the levels a best bid/ask message may bring
  MaxDepth   \* the depth the caller asks for

ASSUME OrderBookExchanges == Exchanges \subseteq {"KRAKEN", "KUCOIN", "OKX", "CRYPTO"}
ASSUME DepthAssumption == MaxDepth \in Nat \ {0}

(* What the exchanges send: no price twice in a list, where a quantity of  *)
(* 0 removes a level, and a quote that has a price and a quantity.         *)
Level == [price : Int, qty : Int]
IsValid(l) == l.price > 0 /\ l.qty > 0
IsListOfLevels(list) ==
  /\ list \in Seq(Level)
  /\ \A i, j \in 1..Len(list) : i # j => list[i].price # list[j].price
ASSUME ListsAssumption == \A list \in BidLists \cup AskLists : IsListOfLevels(list)
ASSUME QuotesAssumption == Quotes \subseteq {l \in Level : IsValid(l)}

VARIABLES
  exchange,    \* whose book it is
  bids, asks,  \* the two sides
  pc,          \* where the update in progress is
  call,        \* its kind and its lists, kept after one that failed
  before,      \* the sides when it began
  outcome,     \* what the last update returned
  told,        \* the best prices when the strategy was last called; while
               \* untold they do not matter
  untold       \* an update has failed since, which calls nobody

heard == <<told, untold>>
book == <<bids, asks>>
vars == <<exchange, book, pc, call, before, outcome, heard>>

Kinds == {"none", "incremental", "complete", "best"}
Outcomes == {"BEST_PRICES_CHANGED", "NO_CHANGES_TO_BEST_PRICES", "UPDATE_ERROR"}

-----------------------------------------------------------------------------
(* Lists of levels.                                                        *)
Before(isBid, l, m) == IF isBid THEN l.price > m.price ELSE l.price < m.price

(* Best level first, and no price twice.                                   *)
SideSorted(side, isBid) ==
  \A i, j \in 1..Len(side) : i < j => Before(isBid, side[i], side[j])

(* What is pushed of a level, by the merge and by a complete update.       *)
Push(l) == IF IsValid(l) THEN <<l>> ELSE <<>>
ValidOnly(list) ==
  LET kept[n \in 0..Len(list)] ==
        IF n = 0 THEN <<>> ELSE kept[n - 1] \o Push(list[n])
  IN  kept[Len(list)]

(* sortList, of levels no two of which are equal.                          *)
SortedList(levels, isBid) ==
  CHOOSE list \in [1..Cardinality(levels) -> levels] :
    /\ ToSet(list) = levels
    /\ \A i, j \in 1..Cardinality(levels) :
         i < j => ~Before(isBid, list[j], list[i])
SortList(list, isBid) == SortedList(ToSet(list), isBid)

CutTo(list, depth) == SubSeq(list, 1, IF Len(list) < depth THEN Len(list) ELSE depth)

(* A round of mergeSortedLists' loop at the i-th old and the j-th new      *)
(* level, both lists sorted: what it pushes, before what the rounds from   *)
(* where it leaves the two iterators push.                                 *)
MergeRoundBothKept(old, new, isBid, from, i, j) ==  \* ito++ of line 121 missing
  CASE i > Len(old) /\ j > Len(new) -> <<>>
    [] i > Len(old) /\ j <= Len(new) -> Push(new[j]) \o from[<<i, j + 1>>]
    [] i <= Len(old) /\ j > Len(new) -> Push(old[i]) \o from[<<i + 1, j>>]
    [] OTHER -> IF Before(isBid, old[i], new[j])
                THEN Push(old[i]) \o from[<<i + 1, j>>]
                ELSE Push(new[j]) \o from[<<i, j + 1>>]

MergeRoundKeepsRemoved(old, new, isBid, from, i, j) ==  \* a quantity of 0 is ignored
  CASE i > Len(old) /\ j > Len(new) -> <<>>
    [] i > Len(old) /\ j <= Len(new) -> Push(new[j]) \o from[<<i, j + 1>>]
    [] i <= Len(old) /\ j > Len(new) -> Push(old[i]) \o from[<<i + 1, j>>]
    [] OTHER -> IF old[i].price = new[j].price
                THEN Push(IF new[j].qty > 0 THEN new[j] ELSE old[i])
                       \o from[<<i + 1, j + 1>>]
                ELSE IF Before(isBid, old[i], new[j])
                THEN Push(old[i]) \o from[<<i + 1, j>>]
                ELSE Push(new[j]) \o from[<<i, j + 1>>]

MergeRound(old, new, isBid, from, i, j) ==
  LET more == i <= Len(old)
      fresh == j <= Len(new)
  IN  IF ~more /\ ~fresh THEN <<>>
      ELSE IF fresh /\ (new[j].price < 0 \/ new[j].qty < 0) THEN from[<<i, j + 1>>]
      ELSE IF more /\ old[i].price = 0 THEN from[<<i + 1, j>>]
      ELSE IF ~more THEN Push(new[j]) \o from[<<i, j + 1>>]
      ELSE IF ~fresh THEN Push(old[i]) \o from[<<i + 1, j>>]
      ELSE IF old[i].price = new[j].price
        THEN IF new[j].qty > 0 THEN Push(new[j]) \o from[<<i + 1, j + 1>>]
                               ELSE from[<<i + 1, j>>]
      ELSE IF Before(isBid, old[i], new[j]) THEN Push(old[i]) \o from[<<i + 1, j>>]
      ELSE Push(new[j]) \o from[<<i, j + 1>>]

MergeWalk(old, new, isBid) ==
  LET from[at \in (1..(Len(old) + 1)) \X (1..(Len(new) + 1))] ==
        MergeRound(old, new, isBid, from, at[1], at[2])
  IN  from[<<1, 1>>]

MergeSortedLists(old, new, isBid) ==
  IF new = <<>> THEN old
  ELSE SortList(MergeWalk(SortList(old, isBid), SortList(new, isBid), isBid), isBid)

-----------------------------------------------------------------------------
PriceAt(side, i) == IF side = <<>> THEN 0 ELSE side[i].price
BestPrices(b, a) ==
  [bestBid |-> PriceAt(b, 1), bestAsk |-> PriceAt(a, 1),
   worstBid |-> PriceAt(b, Len(b)), worstAsk |-> PriceAt(a, Len(a))]

(* What the strategy reads of a book when it is called.                    *)
BestOf(b, a) == [bid |-> PriceAt(b, 1), ask |-> PriceAt(a, 1)]

HasPricesChangedBidOnly(old, new) == old.bestBid # new.bestBid
HasPricesChanged(old, new) == old # new

CallsNobody == untold' = TRUE /\ told' = BestOf(<<>>, <<>>)

NoCall == [kind |-> "none", bids |-> <<>>, asks |-> <<>>]
Begin(kind, newBids, newAsks) ==
  /\ pc = "idle"
  /\ call' = [kind |-> kind, bids |-> newBids, asks |-> newAsks]
  /\ before' = [bids |-> bids, asks |-> asks]
  /\ UNCHANGED exchange

(* The end of every update that is not an error: the prices before it and  *)
(* after it are compared, and the manager calls the strategy when they     *)
(* differ.                                                                 *)
Return ==
  LET changed == HasPricesChanged(BestPrices(before.bids, before.asks),
                                  BestPrices(bids, asks))
  IN  /\ pc = "return"
      /\ pc' = "idle"
      /\ outcome' = IF changed THEN "BEST_PRICES_CHANGED" ELSE "NO_CHANGES_TO_BEST_PRICES"
      /\ IF changed THEN told' = BestOf(bids, asks) /\ untold' = FALSE
                    ELSE UNCHANGED heard
      /\ call' = NoCall
      /\ before' = [bids |-> <<>>, asks |-> <<>>]
      /\ UNCHANGED <<exchange, book>>

-----------------------------------------------------------------------------
(* update, incremental: each side is merged in a hold of its own, then cut *)
(* to the depth without the mutex.                                         *)
MergeBids(newBids, newAsks) ==
  /\ Begin("incremental", newBids, newAsks)
  /\ bids' = MergeSortedLists(bids, newBids, TRUE)
  /\ pc' = "mergeAsks"
  /\ UNCHANGED <<asks, outcome, heard>>

MergeAsks ==
  /\ pc = "mergeAsks"
  /\ asks' = MergeSortedLists(asks, call.asks, FALSE)
  /\ pc' = "cutBids"
  /\ UNCHANGED <<exchange, bids, call, before, outcome, heard>>

CutBids ==
  /\ pc = "cutBids"
  /\ bids' = CutTo(bids, MaxDepth)
  /\ pc' = "cutAsks"
  /\ UNCHANGED <<exchange, asks, call, before, outcome, heard>>

CutAsks ==
  /\ pc = "cutAsks"
  /\ asks' = CutTo(asks, MaxDepth)
  /\ pc' = "return"
  /\ UNCHANGED <<exchange, bids, call, before, outcome, heard>>

(* update, complete: both sides in one hold.  A list whose first and last  *)
(* level are in the wrong order is an error: of the bids, the book is left *)
(* empty; of the asks, with the new bids only.                             *)
ReplaceBookAppends(newBids, newAsks) ==  \* the clear() of the bids forgotten
  LET badBids == newBids # <<>> /\ Before(TRUE, Last(newBids), newBids[1])
      badAsks == newAsks # <<>> /\ Before(FALSE, Last(newAsks), newAsks[1])
  IN  /\ Begin("complete", newBids, newAsks)
      /\ bids' = IF badBids THEN bids
                 ELSE bids \o ValidOnly(newBids)
      /\ asks' = IF badBids \/ badAsks THEN <<>> ELSE ValidOnly(newAsks)
      /\ IF badBids \/ badAsks
           THEN pc' = "idle" /\ outcome' = "UPDATE_ERROR" /\ CallsNobody
           ELSE pc' = "return" /\ UNCHANGED <<outcome, heard>>

ReplaceBookThenCut(newBids, newAsks) ==  \* cut to the depth like an increment
  /\ Begin("complete", newBids, newAsks)
  /\ bids' = ValidOnly(newBids)
  /\ asks' = ValidOnly(newAsks)
  /\ pc' = "cutBids"
  /\ UNCHANGED <<outcome, heard>>

ReplaceBook(newBids, newAsks) ==
  LET badBids == newBids # <<>> /\ Before(TRUE, Last(newBids), newBids[1])
      badAsks == newAsks # <<>> /\ Before(FALSE, Last(newAsks), newAsks[1])
  IN  /\ Begin("complete", newBids, newAsks)
      /\ bids' = IF badBids THEN <<>> ELSE ValidOnly(newBids)
      /\ asks' = IF badBids \/ badAsks THEN <<>> ELSE ValidOnly(newAsks)
      /\ IF badBids \/ badAsks
           THEN pc' = "idle" /\ outcome' = "UPDATE_ERROR" /\ CallsNobody
           ELSE pc' = "return" /\ UNCHANGED <<outcome, heard>>

(* setBestBidAsk: both sides in one hold.  Only the ask is ever rejected:  *)
(* a single bid is overwritten by whatever comes.                          *)
SetBestBidAsk(bid, ask) ==
  /\ Begin("best", <<bid>>, <<ask>>)
  /\ bids' = IF Len(bids) = 1 \/ IsValid(bid) THEN <<bid>> ELSE bids
  /\ asks' = IF IsValid(ask) THEN <<ask>> ELSE asks
  /\ pc' = "return"
  /\ UNCHANGED <<outcome, heard>>

-----------------------------------------------------------------------------
(* The handlers of a message of best prices, each side of which may lack a *)
(* quote.  OKX and KuCoin send lists, and one that is empty is refused;    *)
(* Crypto sends fields, and one that is null is read as 0; Kraken's numbers*)
(* throw when they are missing.                                            *)
NoQuote == [price |-> 0, qty |-> 0]
Refused(bid, ask) == bid = NoQuote \/ ask = NoQuote

OkxLevel1(bid, ask) ==
  exchange = "OKX" /\ ~Refused(bid, ask) /\ SetBestBidAsk(bid, ask)
KucoinLevel1(bid, ask) ==
  exchange = "KUCOIN" /\ ~Refused(bid, ask) /\ SetBestBidAsk(bid, ask)
CryptoLevel1(bid, ask) ==
  exchange = "CRYPTO" /\ SetBestBidAsk(bid, ask)
KrakenTicker(bid, ask) ==
  exchange = "KRAKEN" /\ ~Refused(bid, ask) /\ SetBestBidAsk(bid, ask)

-----------------------------------------------------------------------------
Init ==
  /\ exchange \in Exchanges
  /\ bids = <<>> /\ asks = <<>>
  /\ pc = "idle"
  /\ call = NoCall
  /\ before = [bids |-> <<>>, asks |-> <<>>]
  /\ outcome = "NO_CHANGES_TO_BEST_PRICES"
  /\ told = BestOf(bids, asks)
  /\ untold = FALSE

(* "assumes sorted input" (orderbook.h:54): a complete list is in order,   *)
(* or its two ends show that it is not.                                    *)
EndsTell(list, isBid) ==
  list # <<>> => \/ Before(isBid, Last(list), list[1])
                 \/ list = SortList(list, isBid)

Next ==
  \/ \E b \in BidLists, a \in AskLists :
       \/ exchange = "KRAKEN" /\ MergeBids(b, a)
       \/ exchange = "KRAKEN" /\ EndsTell(b, TRUE) /\ EndsTell(a, FALSE) /\ ReplaceBook(b, a)
  \/ MergeAsks \/ CutBids \/ CutAsks
  \/ \E b, a \in Quotes \cup {NoQuote} :
       OkxLevel1(b, a) \/ KucoinLevel1(b, a) \/ CryptoLevel1(b, a) \/ KrakenTicker(b, a)
  \/ Return

Spec == Init /\ [][Next]_vars

-----------------------------------------------------------------------------
TypeOK ==
  /\ exchange \in Exchanges
  /\ bids \in Seq(Level) /\ asks \in Seq(Level)
  /\ pc \in {"idle", "mergeAsks", "cutBids", "cutAsks", "return"}
  /\ call.kind \in Kinds
  /\ (pc # "idle" /\ pc # "return") => call.kind = "incremental"
  /\ outcome \in Outcomes
  /\ told \in [bid : Int, ask : Int] /\ untold \in BOOLEAN

SideValid(side) == \A i \in 1..Len(side) : IsValid(side[i])

(* What every reader of a side relies on, at any moment of an update: best *)
(* level first, no price twice (the assertions of getState, orderbook.h  *)
(* 166-167), and no level without a price or a quantity, but for a bid of  *)
(* Crypto, which is alone then.                                            *)
BookSorted ==
  /\ SideSorted(bids, TRUE) /\ SideSorted(asks, FALSE)
  /\ SideValid(asks)
  /\ SideValid(bids) \/ (exchange = "CRYPTO" /\ Len(bids) = 1)

(* The merge against its definition: a new level overrides the old level   *)
(* of its price, a quantity of 0 removes it, a negative price or quantity  *)
(* says nothing; the MaxDepth best levels remain.                          *)
Override(old, new) ==
  LET said == {l \in new : l.price >= 0 /\ l.qty >= 0}
  IN  {l \in old : \A m \in said : m.price # l.price}
        \cup {l \in said : IsValid(l)}
Merged(old, new, isBid) == SortedList(Override(ToSet(old), ToSet(new)), isBid)
MergeOverrides ==
  pc = "return" /\ call.kind = "incremental" =>
    /\ bids = CutTo(Merged(before.bids, call.bids, TRUE), MaxDepth)
    /\ asks = CutTo(Merged(before.asks, call.asks, FALSE), MaxDepth)

(* After a complete update no level of the old book is left, error or not, *)
(* and after one that was accepted every valid level of the lists is there.*)
CompleteReplaces ==
  call.kind = "complete" =>
    /\ ToSet(bids) \subseteq ToSet(call.bids)
    /\ ToSet(asks) \subseteq ToSet(call.asks)
    /\ pc = "return" \/ outcome # "UPDATE_ERROR" =>
         /\ ToSet(bids) = {l \in ToSet(call.bids) : IsValid(l)}
         /\ ToSet(asks) = {l \in ToSet(call.asks) : IsValid(l)}

(* Between two updates the best prices are those of the strategy's last    *)
(* call, over any number of updates that called nobody (orderbook.cpp      *)
(* 210-226, orderbook_mgr.cpp 30-48), unless a complete update has failed  *)
(* since: that one calls nobody either, and until the next call the book   *)
(* has no asks, so that the strategy may hold prices the book has lost.    *)
StrategyKnowsBest ==
  pc = "idle" => IF untold THEN asks = <<>> ELSE told = BestOf(bids, asks)

(* "Set new best bid if valid" (orderbook.cpp:237): the best bid is never  *)
(* one without a price or a quantity.                                      *)
BestBidValid == bids # <<>> => IsValid(bids[1])
=============================================================================
