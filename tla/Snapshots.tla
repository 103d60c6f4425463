----------------------------- MODULE Snapshots -----------------------------
(***************************************************************************)
(* How ApiKraken and ApiBinance keep one book equal to the exchange's      *)
(* (api_kraken.cpp, api_binance.cpp), and the timer that watches its age   *)
(* (api_exchange.cpp, api_exchange.h).                                     *)
(*                                                                         *)
(* The IO thread handles the stream: Kraken's begins with a snapshot and   *)
(* carries a checksum, tested on every so many calls; Binance's increments *)
(* have ids, and the first makes the handler ask for a snapshot by HTTP.   *)
(* The main thread checks on a timer that the snapshot is there and not    *)
(* too old, and subscribes again.  The two share flags without a lock.     *)
(*                                                                         *)
(* All subscriptions name the ticker (api_kraken.cpp:55,                   *)
(* api_binance.cpp:317), and no answer to them is a snapshot of the book.  *)
(* External: the exchange, which sends the messages of the book that these *)
(* handlers take on its own account.  Not here: the ticker's messages,     *)
(* which set the best prices (see OrderBook).  One connection, one pair,   *)
(* and fewer levels than the book's depth of 10.                           *)
(***************************************************************************)
EXTENDS Integers, Sequences, FiniteSets, SequencesExt

CONSTANTS
  Prices,         \* prices at which there may be a level
  CheckPeriod,    \* KRAKEN_CHECKSUM_CHECK_PERIOD
  MaxUpdates,     \* bound: changes of the exchange's book
  MaxStream,      \* bound: messages on their way, and subscriptions
  MaxUnreadable,  \* bound: messages the handler cannot parse
  MaxTimers       \* bound: validity timers at once

ASSUME SnapshotsBounds ==
  /\ CheckPeriod \in Nat \ {0, 1}
  /\ MaxUpdates \in Nat /\ MaxUnreadable \in Nat
  /\ MaxStream \in Nat \ {0} /\ MaxTimers \in Nat \ {0}

VARIABLES
  exchange,     \* "KRAKEN" or "BINANCE": the class of the object
  server,       \* the exchange's books, one after each update
  feeding,      \* it sends us the updates of its book
  requests,     \* subscriptions on their way to it
  ticker,       \* it sends us the ticker
  stream,       \* messages on their way from it
  book,         \* our book: of each price the update that last set it, 0 for no level
  lastUpdateId, \* the id of the snapshot
  hasSnapshot,  \* the flag of the pair
  subscribed,   \* the pair's subscribed
  fresh,        \* the book is younger than SNAPSHOT_VALIDITY_TIMEOUT_MS
  inCooldown,   \* m_inCooldown, which nothing ends
  calls,        \* countCalls, modulo CheckPeriod
  timers,       \* validity timers in the store
  own,          \* m_snapshotValidityTimerId is the id of one of them
  pc,           \* where "main" and "io" are
  next,         \* where the handler goes when the timer is restarted
  heard,        \* the latest update the book should show
  unreadable,   \* messages that could not be parsed
  missed,       \* one of them came with the last snapshot, or since
  watched       \* a validity timer was started

network == <<server, feeding, requests, ticker, stream>>
flags == <<lastUpdateId, hasSnapshot, subscribed>>
timer == <<timers, own, watched>>
history == <<heard, unreadable, missed>>
vars == <<exchange, network, book, flags, fresh, inCooldown, calls, timer, pc,
          next, history>>

-----------------------------------------------------------------------------
(* The exchange.  An update lists some prices and removes others; a level  *)
(* is known by the update that listed it.                                  *)
Update(id) == [kind |-> "update", id |-> id]
Snapshot(id) == [kind |-> "snapshot", id |-> id]
Now == Len(server)
Listed(id) == {p \in Prices : server[id][p] # 0}
Said(id) == {p \in Prices : server[id][p] # server[id - 1][p]}

ServerUpdates ==
  /\ Now <= MaxUpdates
  /\ Len(stream) < MaxStream
  /\ \E p \in Prices, set \in BOOLEAN, removed \in SUBSET Listed(Now) :
       /\ Cardinality(removed) < 2
       /\ IF set THEN p \notin removed ELSE removed = {p}
       /\ server' = Append(server,
            [q \in Prices |-> IF q \in removed THEN 0
                              ELSE IF set /\ q = p THEN Now + 1 ELSE server[Now][q]])
  /\ stream' = IF feeding THEN Append(stream, Update(Now + 1)) ELSE stream
  /\ UNCHANGED <<exchange, feeding, requests, ticker, book, flags, fresh, inCooldown,
                 calls, timer, pc, next, history>>

(* It begins to send its book, Kraken with a snapshot first.               *)
FeedBegins ==
  /\ ~feeding /\ feeding' = TRUE
  /\ Len(stream) < MaxStream
  /\ stream' = IF exchange = "KRAKEN" THEN Append(stream, Snapshot(Now)) ELSE stream
  /\ UNCHANGED <<exchange, server, requests, ticker, book, flags, fresh, inCooldown,
                 calls, timer, pc, next, history>>

(* Kraken may break off, and later begin again.                            *)
FeedEnds ==
  /\ exchange = "KRAKEN"
  /\ feeding /\ feeding' = FALSE
  /\ UNCHANGED <<exchange, server, requests, ticker, stream, book, flags, fresh,
                 inCooldown, calls, timer, pc, next, history>>

(* A subscription turns the ticker on or off; the book is another channel. *)
ServerAnswers ==
  /\ requests # <<>>
  /\ requests' = Tail(requests)
  /\ ticker' = (Head(requests) = "subscribe")
  /\ UNCHANGED <<exchange, server, feeding, stream, book, flags, fresh, inCooldown,
                 calls, timer, pc, next, history>>

Ages ==
  /\ fresh
  /\ fresh' = FALSE
  /\ UNCHANGED <<exchange, network, book, flags, inCooldown, calls, timer, pc,
                 next, history>>

-----------------------------------------------------------------------------
Go(t, from, to) == pc[t] = from /\ pc' = [pc EXCEPT ![t] = to]
Send(request) ==
  /\ Len(requests) < MaxStream
  /\ requests' = Append(requests, request)

(* Main is in the callback, which ends by starting the timer.              *)
Checking == pc["main"] \notin {"start", "opening", "reset", "idle"}

(* startSnapshotValidityTimer keeps the id of the timer it adds; stopTimer *)
(* stops the timer of that id, if there still is one.                      *)
StartTimer == timers' = timers + 1 /\ own' = TRUE /\ watched' = TRUE

StopTimerFound ==  \* the timer is taken to be there
  timers' = timers - 1 /\ own' = FALSE /\ UNCHANGED watched

StopTimer ==
  /\ timers' = IF own THEN timers - 1 ELSE timers
  /\ own' = FALSE
  /\ UNCHANGED watched

(* setSymbolSnapshotState(pair, true): the flag and stopTimer, then the    *)
(* timer is started again.                                                 *)
MarkSnapshot ==
  /\ hasSnapshot' = TRUE
  /\ own \/ timers + (IF Checking THEN 1 ELSE 0) < MaxTimers
  /\ StopTimer

(* resubscribeOrderBook of Kraken, on either thread: unsubscribes first if *)
(* the pair is subscribed.                                                 *)
TestSubscribed(t) ==
  /\ Go(t, "resubscribe", IF subscribed THEN "unsubscribe" ELSE "subscribe")
  /\ UNCHANGED <<requests, subscribed>>

(* handleSubscribeUnsubscribe sets the pair's flag, then sends.            *)
Unsubscribe(t) ==
  \/ /\ Go(t, "unsubscribe", "unsubscribing")
     /\ subscribed' = FALSE
     /\ UNCHANGED requests
  \/ /\ Go(t, "unsubscribing", "subscribe")
     /\ Send("unsubscribe")
     /\ UNCHANGED subscribed

Resubscribed(t) == IF t = "main" THEN "rearm" ELSE "idle"
SubscribeUnlessSubscribed(t) ==  \* what the other thread has marked is left to it
  \/ /\ Go(t, "subscribe", IF subscribed THEN Resubscribed(t) ELSE "subscribing")
     /\ subscribed' = TRUE
     /\ UNCHANGED requests
  \/ /\ Go(t, "subscribing", Resubscribed(t))
     /\ Send("subscribe")
     /\ UNCHANGED subscribed

Subscribe(t) ==
  \/ /\ Go(t, "subscribe", "subscribing")
     /\ subscribed' = TRUE
     /\ UNCHANGED requests
  \/ /\ Go(t, "subscribing", Resubscribed(t))
     /\ Send("subscribe")
     /\ UNCHANGED subscribed

ResubscribeOrderBook(t) ==
  /\ TestSubscribed(t) \/ Unsubscribe(t) \/ Subscribe(t)
  /\ UNCHANGED <<exchange, server, feeding, ticker, stream, book, lastUpdateId, hasSnapshot,
                 fresh, inCooldown, calls, timer, next, history>>

-----------------------------------------------------------------------------
(* The main thread.  subscribeOrderBook: Kraken sets the flag and sends;   *)
(* Binance resets the pair's state when the request has gone.              *)
SubscribeOrderBook ==
  /\ \/ /\ exchange = "KRAKEN"
        /\ Go("main", "start", "opening")
        /\ subscribed' = TRUE
        /\ UNCHANGED requests
     \/ /\ Go("main", "opening", "idle")
        /\ Send("subscribe")
        /\ UNCHANGED subscribed
     \/ /\ exchange = "BINANCE"
        /\ Go("main", "start", "reset")
        /\ Send("subscribe")
        /\ UNCHANGED subscribed
  /\ UNCHANGED <<lastUpdateId, hasSnapshot, timer>>

ResetState ==
  /\ Go("main", "reset", "idle")
  /\ subscribed' = TRUE
  /\ hasSnapshot' = FALSE
  /\ UNCHANGED <<requests, lastUpdateId, timer>>

(* A validity timer is due: the one m_snapshotValidityTimerId names, or    *)
(* another.                                                                *)
Fire ==
  /\ timers > 0
  /\ Go("main", "idle", "check")
  /\ timers' = timers - 1
  /\ \/ own /\ own' = FALSE
     \/ (own => timers > 1) /\ UNCHANGED own
  /\ UNCHANGED <<requests, flags, watched>>

(* checkSnapshotValidity: missing, or too old; the age is read before the  *)
(* flag is cleared.                                                        *)
CheckMissing ==
  /\ Go("main", "check", IF hasSnapshot THEN "age" ELSE "restore")
  /\ UNCHANGED <<requests, flags, timer>>

CheckAge ==
  /\ Go("main", "age", IF fresh THEN "rearm" ELSE "stale")
  /\ UNCHANGED <<requests, flags, timer>>

ClearSnapshot ==
  /\ Go("main", "stale", "restore")
  /\ hasSnapshot' = FALSE
  /\ UNCHANGED <<requests, lastUpdateId, subscribed, timer>>

(* Binance's resubscribeOrderBook is not implemented.                      *)
Restore ==
  /\ Go("main", "restore", IF exchange = "KRAKEN" THEN "resubscribe" ELSE "rearm")
  /\ UNCHANGED <<requests, flags, timer>>

RearmWhenRestored ==  \* while a snapshot is on its way, it is to start the timer
  /\ Go("main", "rearm", "idle")
  /\ IF hasSnapshot THEN StartTimer ELSE UNCHANGED timer
  /\ UNCHANGED <<requests, flags>>

(* The callback starts the timer again, at the usual interval.             *)
Rearm ==
  /\ Go("main", "rearm", "idle")
  /\ StartTimer
  /\ UNCHANGED <<requests, flags>>

MainThread ==
  \/ ResubscribeOrderBook("main")
  \/ /\ \/ SubscribeOrderBook
        \/ ResetState
        \/ Fire
        \/ CheckMissing
        \/ CheckAge
        \/ ClearSnapshot
        \/ Restore
        \/ Rearm
     /\ UNCHANGED <<exchange, server, feeding, ticker, stream, book, fresh, inCooldown,
                    calls, next, history>>

-----------------------------------------------------------------------------
(* The IO thread.  updateOrderBook merges, unless told that the levels are *)
(* all there are.                                                          *)
Merge(levels, id) ==
  /\ book' = [p \in Prices |-> IF p \in levels THEN server[id][p] ELSE book[p]]
  /\ fresh' = TRUE
WholeBook(id) == book' = server[id] /\ fresh' = TRUE

hand == Head(stream)  \* the message being handled; the next is read after it
Finish == stream' = Tail(stream)
Take(class, to) ==
  /\ exchange = class
  /\ stream # <<>>
  /\ Go("io", "idle", to)

TimerRestarts ==
  /\ Go("io", "start", next)
  /\ StartTimer
  /\ next' = "idle"
  /\ UNCHANGED <<stream, book, lastUpdateId, hasSnapshot, fresh, inCooldown, calls, history>>

(* What a handler's catch swallows, or a check of its form refuses.        *)
Unread == unreadable < MaxUnreadable /\ unreadable' = unreadable + 1

(* Kraken.  The call is counted before the levels are parsed, and after    *)
(* the symbol is.                                                          *)
Count == calls' = (calls + 1) % CheckPeriod

UnreadableKraken ==
  /\ Take("KRAKEN", "idle")
  /\ Finish
  /\ Count \/ UNCHANGED calls
  /\ Unread
  /\ missed' = TRUE /\ heard' = hand.id
  /\ UNCHANGED <<book, lastUpdateId, hasSnapshot, fresh, inCooldown, timer, next>>

KrakenUpdate ==
  /\ Take("KRAKEN", "update")
  /\ Count
  /\ UNCHANGED <<stream, book, lastUpdateId, hasSnapshot, fresh, inCooldown, timer, next, history>>

(* The levels are taken in; when it is this call's turn the checksum of    *)
(* the book is compared with the message's, if that can be read.           *)
KrakenMerge ==
  IF hand.kind = "snapshot" THEN WholeBook(hand.id) ELSE Merge(Said(hand.id), hand.id)

IsOrderBookValid == book' = server[hand.id]

KrakenApply ==
  /\ pc["io"] = "update"
  /\ KrakenMerge
  /\ \/ /\ Go("io", "update",
             IF calls = 1 /\ ~IsOrderBookValid THEN "resubscribe"
             ELSE IF hand.kind = "snapshot" THEN "mark" ELSE "idle")
        /\ UNCHANGED unreadable
     \/ Go("io", "update", "idle") /\ Unread
  /\ Finish
  /\ heard' = hand.id
  /\ missed' = (missed /\ hand.kind # "snapshot")
  /\ UNCHANGED <<lastUpdateId, hasSnapshot, inCooldown, calls, timer, next>>

(* The snapshot is marked.                                                 *)
Mark ==
  /\ Go("io", "mark", "start")
  /\ MarkSnapshot
  /\ UNCHANGED <<stream, book, lastUpdateId, fresh, inCooldown, calls, next, history>>

(* Binance.  Without a snapshot the handler first asks for one.            *)
BinanceUpdate ==
  /\ Take("BINANCE", IF hasSnapshot THEN "compare" ELSE "request")
  /\ heard' = Max({heard, hand.id})
  /\ UNCHANGED <<stream, book, lastUpdateId, hasSnapshot, fresh, inCooldown, calls, timer, next,
                 unreadable, missed>>

(* An increment that cannot be read is dropped, before a snapshot is asked *)
(* for or after, and the flag stays.                                       *)
UnreadableBinance ==
  /\ exchange = "BINANCE" /\ stream # <<>>
  /\ Go("io", "idle", "idle") \/ Go("io", "compare", "idle")
  /\ Finish
  /\ Unread
  /\ missed' = TRUE /\ heard' = Max({heard, hand.id})
  /\ UNCHANGED <<book, lastUpdateId, hasSnapshot, fresh, inCooldown, calls, timer, next>>

(* getOrderBookSnapshot: refused in a cooldown; it fails, which may start  *)
(* a cooldown, and the increment is dropped; or it brings the book of now, *)
(* marked before it is merged.  An answer without the id, or with a level  *)
(* that cannot be read, passes for a snapshot: the increment goes on.      *)
RequestFails ==
  /\ Go("io", "request", "idle")
  /\ Finish
  /\ inCooldown' \in {c \in BOOLEAN : inCooldown => c}
  /\ UNCHANGED <<book, lastUpdateId, hasSnapshot, fresh, calls, timer, next, history>>

RequestSucceeds ==
  /\ Go("io", "request", "mark")
  /\ ~inCooldown
  /\ lastUpdateId' = Now
  /\ next' = "merge"
  /\ heard' = Now
  /\ UNCHANGED <<stream, book, hasSnapshot, fresh, inCooldown, calls, timer,
                 unreadable, missed>>

RequestUnreadable ==
  /\ Go("io", "request", "compare")
  /\ ~inCooldown
  /\ Unread
  /\ missed' = TRUE
  /\ UNCHANGED <<stream, book, lastUpdateId, hasSnapshot, fresh, inCooldown, calls, timer,
                 next, heard>>

(* The snapshot's levels are merged like an increment's, and it is marked  *)
(* again; unless one cannot be read.                                       *)
MergeSnapshot ==
  /\ pc["io"] = "merge"
  /\ \/ /\ Listed(lastUpdateId) # {}
        /\ Merge(Listed(lastUpdateId), lastUpdateId)
        /\ Go("io", "merge", "mark")
        /\ next' = "compare"
     \/ /\ Listed(lastUpdateId) = {}
        /\ Go("io", "merge", "compare")
        /\ UNCHANGED <<book, fresh, next>>
  /\ missed' = FALSE
  /\ UNCHANGED <<stream, lastUpdateId, hasSnapshot, inCooldown, calls, timer, heard,
                 unreadable>>

MergeUnreadable ==
  /\ Go("io", "merge", "compare")
  /\ Unread
  /\ missed' = TRUE
  /\ UNCHANGED <<stream, book, lastUpdateId, hasSnapshot, fresh, inCooldown, calls, timer,
                 next, heard>>

(* Increments the snapshot has are skipped, and those that only remove.    *)
SkippedNever == Said(hand.id) \cap Listed(hand.id) = {}  \* ids not compared
Skipped == hand.id <= lastUpdateId \/ Said(hand.id) \cap Listed(hand.id) = {}

SkipIncrement ==
  /\ Go("io", "compare", "idle")
  /\ Skipped
  /\ Finish
  /\ UNCHANGED <<book, lastUpdateId, hasSnapshot, fresh, inCooldown, calls, timer, next,
                 history>>

BinanceApply ==
  /\ Go("io", "compare", "mark")
  /\ ~Skipped
  /\ Merge(Said(hand.id), hand.id)
  /\ Finish
  /\ UNCHANGED <<lastUpdateId, hasSnapshot, inCooldown, calls, timer, next, history>>

IoThread ==
  \/ ResubscribeOrderBook("io")
  \/ /\ \/ UnreadableKraken
        \/ KrakenUpdate
        \/ KrakenApply
        \/ BinanceUpdate
        \/ UnreadableBinance
        \/ RequestFails
        \/ RequestSucceeds
        \/ RequestUnreadable
        \/ MergeSnapshot
        \/ MergeUnreadable
        \/ SkipIncrement
        \/ BinanceApply
        \/ Mark
        \/ TimerRestarts
     /\ UNCHANGED <<exchange, server, feeding, requests, ticker, subscribed>>

-----------------------------------------------------------------------------
Init ==
  /\ exchange \in {"KRAKEN", "BINANCE"}
  /\ server = <<[p \in Prices |-> IF p = CHOOSE q \in Prices : TRUE THEN 1 ELSE 0]>>
  /\ feeding = FALSE /\ requests = <<>> /\ ticker = FALSE /\ stream = <<>>
  /\ book = [p \in Prices |-> 0]
  /\ lastUpdateId = 0 /\ hasSnapshot = FALSE /\ subscribed = FALSE
  /\ fresh = TRUE /\ inCooldown = FALSE /\ calls = 0
  /\ timers = 0 /\ own = FALSE /\ watched = FALSE
  /\ pc = [main |-> "start", io |-> "idle"]
  /\ next = "idle"
  /\ heard = 0 /\ unreadable = 0 /\ missed = FALSE

Next ==
  \/ ServerUpdates \/ FeedBegins \/ FeedEnds \/ ServerAnswers \/ Ages
  \/ MainThread
  \/ IoThread

Spec == Init /\ [][Next]_vars

-----------------------------------------------------------------------------
(* The state of the pair and its timer has its types.                      *)
TypeOK ==
  /\ exchange \in {"KRAKEN", "BINANCE"}
  /\ \A id \in 1..Now : server[id] \in [Prices -> 0..id]
  /\ feeding \in BOOLEAN /\ ticker \in BOOLEAN
  /\ requests \in Seq({"subscribe", "unsubscribe"})
  /\ stream \in Seq([kind : {"update", "snapshot"}, id : 1..Now])
  /\ book \in [Prices -> 0..Now]
  /\ lastUpdateId \in 0..Now /\ hasSnapshot \in BOOLEAN /\ subscribed \in BOOLEAN
  /\ fresh \in BOOLEAN /\ inCooldown \in BOOLEAN
  /\ calls \in 0..(CheckPeriod - 1)
  /\ timers \in 0..MaxTimers /\ own \in BOOLEAN /\ watched \in BOOLEAN
  /\ pc["main"] \in {"start", "opening", "reset", "idle", "check", "age", "stale",
                     "restore", "resubscribe", "unsubscribe", "unsubscribing",
                     "subscribe", "subscribing", "rearm"}
  /\ pc["io"] \in {"idle", "update", "request", "merge", "compare", "mark", "start",
                   "resubscribe", "unsubscribe", "unsubscribing", "subscribe",
                   "subscribing"}
  /\ next \in {"idle", "merge", "compare"}
  /\ heard \in 0..Now /\ unreadable \in 0..MaxUnreadable /\ missed \in BOOLEAN

(* Between messages the book shows what was last heard of the exchange's.  *)
(* Binance's, when it is marked as having a snapshot, shows every level    *)
(* the exchange had then, as it was, whatever came before the snapshot and *)
(* whatever was dropped for want of one (it may show others too: see       *)
(* SkipIncrement); Kraken's is equal.  Not so from a message that could    *)
(* not be read, be it Binance's snapshot itself, until a snapshot has been *)
(* taken in: nothing else mends the book                                   *)
(* (api_binance.cpp 92-109, 175-231, api_kraken.cpp 246-305).              *)
BookAsHeard ==
  pc["io"] = "idle" /\ heard # 0 /\ ~missed =>
    IF exchange = "BINANCE"
      THEN hasSnapshot => \A p \in Listed(heard) : book[p] = server[heard][p]
      ELSE book = server[heard]

(* Once a validity timer was started there always is one, or a thread that *)
(* is about to start it: no order of the callback on main and the restarts *)
(* on the IO thread loses the last (api_exchange.h 121-151).               *)
CheckGoesOn ==
  watched => timers > 0 \/ Checking \/ pc["io"] = "start"

(* Two threads that subscribe again at once, each unsubscribing first if   *)
(* the flag says so, never end with the subscription gone: when neither is *)
(* at it the flag is set, and the exchange sends the ticker or has a       *)
(* request to before it that nothing undoes (api_kraken.cpp 34-96).        *)
StillSubscribed ==
  pc["main"] \in {"idle", "check", "age", "stale", "restore", "resubscribe", "rearm"}
  /\ pc["io"] \notin {"unsubscribe", "unsubscribing", "subscribe", "subscribing"} =>
    /\ subscribed
    /\ IF requests # <<>> THEN Last(requests) = "subscribe" ELSE ticker
=============================================================================
