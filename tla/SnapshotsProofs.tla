--------------------------- MODULE SnapshotsProofs ---------------------------
(***************************************************************************)
(* Theorems about Snapshots, for any prices and bounds and any period of   *)
(* the checksum: the check of a snapshot's age goes on, the book shows     *)
(* what was last heard of the exchange's as far as it could be read, and   *)
(* subscribing again never ends with the subscription gone.                *)
(***************************************************************************)
EXTENDS Snapshots, TLAPS

MainPlaces ==
  {"start", "opening", "reset", "idle", "check", "age", "stale", "restore",
   "resubscribe", "unsubscribe", "unsubscribing", "subscribe", "subscribing", "rearm"}
IoPlaces ==
  {"idle", "update", "request", "merge", "compare", "mark", "start",
   "resubscribe", "unsubscribe", "unsubscribing", "subscribe", "subscribing"}
PlacesOK ==
  /\ pc \in [{"main", "io"} -> MainPlaces \cup IoPlaces]
  /\ pc["main"] \in MainPlaces /\ pc["io"] \in IoPlaces
Message == [kind : {"update", "snapshot"}, id : Nat \ {0}]
Level == [Prices -> Nat]

(* The types, but for the limits on messages' ids and timers.              *)
Types ==
  /\ exchange \in {"KRAKEN", "BINANCE"}
  /\ feeding \in BOOLEAN /\ ticker \in BOOLEAN
  /\ book \in Level
  /\ lastUpdateId \in Nat /\ hasSnapshot \in BOOLEAN /\ subscribed \in BOOLEAN
  /\ fresh \in BOOLEAN /\ inCooldown \in BOOLEAN
  /\ calls \in 0..(CheckPeriod - 1)
  /\ timers \in Nat /\ own \in BOOLEAN /\ watched \in BOOLEAN
  /\ PlacesOK
  /\ next \in {"idle", "merge", "compare"}
  /\ heard \in Nat /\ unreadable \in 0..MaxUnreadable /\ missed \in BOOLEAN

Lists ==
  /\ server \in Seq(Level) /\ Len(server) > 0
  /\ requests \in Seq({"subscribe", "unsubscribe"})
  /\ stream \in Seq(Message)

(* Nothing is from an update that was not made.                            *)
Known ==
  /\ \A id \in 1..Now : \A p \in Prices : server[id][p] <= id
  /\ \A i \in 1..Len(stream) : stream[i].id <= Now
  /\ \A p \in Prices : book[p] <= Now
  /\ lastUpdateId <= heard /\ heard <= Now

(* A timer in the store, or a thread that is about to start one.           *)
Restarting == pc["io"] = "start"
Limited ==
  /\ timers + (IF Checking THEN 1 ELSE 0) + (IF Restarting THEN 1 ELSE 0) <= MaxTimers
  /\ own => timers > 0
  /\ watched => timers > 0 \/ Checking \/ Restarting

(* Which code belongs to which exchange, and where a message is in hand.   *)
Holding == pc["io"] \in {"request", "merge", "compare"} \/ next # "idle"
Control ==
  /\ exchange = "KRAKEN" =>
       /\ next = "idle" /\ lastUpdateId = 0
       /\ pc["io"] \notin {"request", "merge", "compare"}
  /\ exchange = "BINANCE" =>
       /\ pc["io"] \notin {"update", "resubscribe", "unsubscribe", "unsubscribing",
                          "subscribe", "subscribing"}
       /\ pc["main"] \notin {"opening", "resubscribe", "unsubscribe", "unsubscribing",
                            "subscribe", "subscribing"}
  /\ next # "idle" => pc["io"] \in {"mark", "start"}
  /\ pc["io"] = "update" \/ Holding => stream # <<>>

(* The messages on their way follow each other without a gap, but for what *)
(* a snapshot replaces, and while it feeds us, up to the exchange's book.  *)
Chain ==
  /\ \A i \in 1..(Len(stream) - 1) :
       stream[i + 1].kind = "update" => stream[i + 1].id = stream[i].id + 1
  /\ feeding => IF stream # <<>> THEN stream[Len(stream)].id = Now
                ELSE heard = Now \/ (exchange = "BINANCE" /\ heard = 0)
  /\ exchange = "BINANCE" =>
       /\ \A i \in 1..Len(stream) : stream[i].kind = "update"
       /\ stream # <<>> \/ heard # 0 => feeding

(* Kraken: the next message follows what was heard, or is a snapshot.      *)
Shows(n) == \A p \in Prices : server[n][p] # 0 => book[p] = server[n][p]
Kraken ==
  /\ stream # <<>> /\ stream[1].kind = "update" => heard # 0 /\ stream[1].id = heard + 1
  /\ heard # 0 /\ ~missed => book = server[heard]

(* Binance: the next message follows what was heard, or the snapshot has   *)
(* it; the one in hand is the last heard, or the snapshot has it.  What    *)
(* the book shows is known as long as nothing was missed.                  *)
NextFollows ==
  heard # 0 /\ stream # <<>> =>
    \/ stream[1].id = heard + 1
    \/ stream[1].id <= heard /\ heard = lastUpdateId
InHand ==
  /\ heard # 0 /\ stream[1].id <= heard
  /\ stream[1].id = heard \/ heard = lastUpdateId
  /\ pc["io"] = "request" => ~hasSnapshot
  /\ pc["io"] = "merge" \/ next = "merge" => heard = lastUpdateId
  /\ next = "compare" => Shows(heard) /\ heard = lastUpdateId
  /\ pc["io"] = "compare" /\ ~missed =>
       \/ Shows(heard) /\ heard = lastUpdateId
       \/ /\ stream[1].id = heard /\ lastUpdateId < heard
          /\ heard > 1 /\ Shows(heard - 1)
Binance ==
  IF Holding THEN InHand
  ELSE /\ NextFollows
       /\ pc["io"] = "idle" => (hasSnapshot => heard # 0)
       /\ pc["io"] # "idle" => heard # 0
       /\ ~missed /\ (pc["io"] # "idle" \/ hasSnapshot) => Shows(heard)

Showing == IF exchange = "KRAKEN" THEN Kraken ELSE Binance

IInv == Types /\ Lists /\ Known /\ Limited /\ Control /\ Chain /\ Showing

(* What the steps of the IO thread leave to others.                        *)
OfOthers == <<exchange, server, feeding, requests, ticker, subscribed>>

-----------------------------------------------------------------------------
(* A step of one thread moves that thread.                                 *)
LEMMA MainGoes ==
  ASSUME PlacesOK, NEW from, NEW to \in MainPlaces, Go("main", from, to)
  PROVE  /\ PlacesOK' /\ pc["main"] = from /\ pc'["main"] = to
         /\ pc'["io"] = pc["io"]
BY DEF PlacesOK, Go

LEMMA IoGoes ==
  ASSUME PlacesOK, NEW from, NEW to \in IoPlaces, Go("io", from, to)
  PROVE  /\ PlacesOK' /\ pc["io"] = from /\ pc'["io"] = to
         /\ pc'["main"] = pc["main"]
BY DEF PlacesOK, Go

(* The larger of two numbers.                                              *)
LEMMA MaxOfTwo ==
  ASSUME NEW a \in Nat, NEW b \in Nat
  PROVE  Max({a, b}) = IF a < b THEN b ELSE a
<1>1. CASE a < b
  <2>1. b \in {a, b} /\ \A x \in {a, b} : b >= x
    BY <1>1
  <2>2. \A y \in {a, b} : (\A x \in {a, b} : y >= x) => y = b
    BY <1>1
  <2>3. Max({a, b}) = b
    BY <2>1, <2>2 DEF Max
  <2>4. QED BY <1>1, <2>3
<1>2. CASE ~(a < b)
  <2>1. a \in {a, b} /\ \A x \in {a, b} : a >= x
    BY <1>2
  <2>2. \A y \in {a, b} : (\A x \in {a, b} : y >= x) => y = a
    BY <1>2
  <2>3. Max({a, b}) = a
    BY <2>1, <2>2 DEF Max
  <2>4. QED BY <1>2, <2>3
<1>3. QED BY <1>1, <1>2

(* The first message, and what is left when it has been handled.           *)
LEMMA FirstMessage ==
  ASSUME Lists, stream # <<>>
  PROVE  /\ hand = stream[1] /\ hand \in Message
         /\ Len(stream) \in Nat \ {0}
         /\ Tail(stream) \in Seq(Message)
         /\ Len(Tail(stream)) = Len(stream) - 1
         /\ \A i \in 1..(Len(stream) - 1) : Tail(stream)[i] = stream[i + 1]
         /\ Tail(stream) # <<>> => Len(stream) > 1
BY DEF Lists, hand

LEMMA InitInv == ASSUME Init PROVE IInv
<1> USE DEF Init
<1> DEFINE first == [p \in Prices |-> IF p = CHOOSE q \in Prices : TRUE THEN 1 ELSE 0]
<1>1. first \in Level /\ \A p \in Prices : first[p] <= 1
  BY DEF Level
<1>2. server = <<first>>
  OBVIOUS
<1> HIDE DEF first
<1>a. Len(server) = 1 /\ server[1] = first /\ server \in Seq(Level)
  BY <1>1, <1>2
<1>3. PlacesOK /\ pc["main"] = "start" /\ pc["io"] = "idle"
  BY DEF PlacesOK, MainPlaces, IoPlaces
<1>4. Lists
  <2>1. requests \in Seq({"subscribe", "unsubscribe"}) /\ stream \in Seq(Message)
    OBVIOUS
  <2>2. QED BY <2>1, <1>a DEF Lists
<1>b. Types
  <2>1. book \in Level
    BY DEF Level
  <2>2. calls \in 0..(CheckPeriod - 1) /\ unreadable \in 0..MaxUnreadable
    BY SnapshotsBounds
  <2>3. /\ exchange \in {"KRAKEN", "BINANCE"} /\ feeding \in BOOLEAN
        /\ lastUpdateId \in Nat /\ hasSnapshot \in BOOLEAN /\ subscribed \in BOOLEAN
        /\ fresh \in BOOLEAN /\ inCooldown \in BOOLEAN /\ ticker \in BOOLEAN
        /\ timers \in Nat /\ own \in BOOLEAN /\ watched \in BOOLEAN
        /\ next \in {"idle", "merge", "compare"}
        /\ heard \in Nat /\ missed \in BOOLEAN
    OBVIOUS
  <2> HIDE DEF Init
  <2>4. QED BY <2>1, <2>2, <2>3, <1>3 DEF Types
<1>5. Known /\ Limited /\ Control /\ Chain
  BY <1>1, <1>a, <1>3, SnapshotsBounds
  DEF Known, Now, Limited, Checking, Restarting, Control, Holding, Chain
<1>6. Showing
  BY <1>3 DEF Showing, Kraken, Binance, Holding, NextFollows
<1>7. QED BY <1>4, <1>b, <1>5, <1>6 DEF IInv

-----------------------------------------------------------------------------
(* The exchange's book has one more update, which is sent if it feeds us.  *)
LEMMA ServerUpdatesInv == ASSUME IInv, ServerUpdates PROVE IInv'
<1> DEFINE n == Len(server)
<1>1. n \in Nat \ {0} /\ Now = n
  BY DEF IInv, Lists, Now
<1>2. PICK p \in Prices, set \in BOOLEAN, removed \in SUBSET Listed(Now) :
        server' = Append(server,
            [q \in Prices |-> IF q \in removed THEN 0
                              ELSE IF set /\ q = p THEN Now + 1 ELSE server[Now][q]])
  BY DEF ServerUpdates
<1> DEFINE new == [q \in Prices |-> IF q \in removed THEN 0
                              ELSE IF set /\ q = p THEN Now + 1 ELSE server[Now][q]]
<1>3. server[n] \in Level /\ \A q \in Prices : server[n][q] <= n
  BY <1>1 DEF IInv, Lists, Known
<1>4. new \in Level /\ \A q \in Prices : new[q] <= n + 1
  BY <1>1, <1>3 DEF Level
<1> HIDE DEF new
<1>5. server' = Append(server, new)
  BY <1>2 DEF new
<1>6. /\ server' \in Seq(Level) /\ Len(server') = n + 1 /\ server'[n + 1] = new
      /\ \A i \in 1..n : server'[i] = server[i]
  BY <1>1, <1>4, <1>5 DEF IInv, Lists
<1> HIDE DEF n
<1>7. UNCHANGED <<exchange, feeding, requests, ticker, book, flags, fresh, inCooldown, calls,
                  timer, pc, next, history>>
  BY DEF ServerUpdates
<1>8. Types'
  BY <1>7 DEF IInv, Types, flags, timer, history, PlacesOK
<1>9. stream' = IF feeding THEN Append(stream, Update(n + 1)) ELSE stream
  BY <1>1 DEF ServerUpdates
<1>10. Update(n + 1) \in Message /\ Update(n + 1).id = n + 1 /\ Update(n + 1).kind = "update"
  BY <1>1 DEF Update, Message
<1>11. /\ stream' \in Seq(Message)
       /\ feeding => /\ Len(stream') = Len(stream) + 1
                     /\ stream'[Len(stream) + 1] = Update(n + 1)
       /\ \A i \in 1..Len(stream) : stream'[i] = stream[i]
       /\ Len(stream) \in Nat
  BY <1>9, <1>10 DEF IInv, Lists
<1>12. Lists'
  BY <1>1, <1>6, <1>7, <1>11 DEF IInv, Lists
<1>13. Known'
  <2>1. Now' = n + 1
    BY <1>6 DEF Now
  <2>2. \A i \in 1..Len(stream') : stream'[i].id <= n + 1
    <3>1. \A i \in 1..Len(stream) : stream[i].id <= n /\ stream[i].id \in Nat
      <4>1. \A i \in 1..Len(stream) : stream[i] \in Message
        BY DEF IInv, Lists
      <4>2. \A i \in 1..Len(stream) : stream[i].id \in Nat
        BY <4>1 DEF Message
      <4>3. QED BY <4>2, <1>1 DEF IInv, Known
    <3>2. QED BY <3>1, <1>1, <1>9, <1>10, <1>11
  <2>3. \A q \in Prices : book'[q] <= n + 1
    BY <1>1, <1>7 DEF IInv, Known, Types, Level
  <2>4. lastUpdateId' <= heard' /\ heard' <= n + 1
    BY <1>1, <1>7 DEF IInv, Known, Types, flags, history
  <2>5. \A id \in 1..(n + 1) : \A q \in Prices : server'[id][q] <= id
    <3>1. \A id \in 1..n : \A q \in Prices : server[id][q] <= id
      BY <1>1 DEF IInv, Known
    <3>2. \A id \in 1..(n + 1) : id \in 1..n \/ id = n + 1
      BY <1>1
    <3>3. QED BY <3>1, <3>2, <1>4, <1>6
  <2>6. QED BY <2>1, <2>2, <2>3, <2>4, <2>5 DEF Known
<1>14. Limited' /\ Control'
  <2>1. stream # <<>> => stream' # <<>>
    BY <1>9, <1>10, <1>11 DEF IInv, Lists
  <2>2. QED BY <2>1, <1>7
    DEF IInv, Limited, Checking, Restarting, Control, Holding, timer, flags
<1>15. Chain'
  <2>1. \A i \in 1..(Len(stream') - 1) :
          stream'[i + 1].kind = "update" => stream'[i + 1].id = stream'[i].id + 1
    <3>1. CASE feeding
      <4> SUFFICES ASSUME NEW i \in 1..(Len(stream') - 1), stream'[i + 1].kind = "update"
                   PROVE  stream'[i + 1].id = stream'[i].id + 1
        OBVIOUS
      <4>1. CASE i + 1 \in 1..Len(stream)
        BY <4>1, <1>11 DEF IInv, Chain
      <4>2. CASE i = Len(stream)
        <5>1. stream # <<>> /\ stream[Len(stream)].id = n
          BY <3>1, <4>2, <1>1, <1>11 DEF IInv, Chain
        <5>2. QED BY <5>1, <4>2, <3>1, <1>10, <1>11
      <4>3. QED BY <4>1, <4>2, <3>1, <1>11
    <3>2. CASE ~feeding
      BY <3>2, <1>9 DEF IInv, Chain
    <3>3. QED BY <3>1, <3>2
  <2>2. feeding' => stream' # <<>> /\ stream'[Len(stream')].id = Now'
    BY <1>6, <1>7, <1>10, <1>11 DEF Now
  <2>3. exchange' = "BINANCE" =>
          /\ \A i \in 1..Len(stream') : stream'[i].kind = "update"
          /\ stream' # <<>> \/ heard' # 0 => feeding'
    <3>1. \A i \in 1..Len(stream') : i \in 1..Len(stream) \/ (feeding /\ i = Len(stream) + 1)
      BY <1>9, <1>11
    <3>2. QED BY <3>1, <1>7, <1>9, <1>10, <1>11 DEF IInv, Chain, history
  <2>4. QED BY <2>1, <2>2, <2>3 DEF Chain
<1>16. Showing'
  <2>1. /\ heard' = heard /\ lastUpdateId' = lastUpdateId /\ hasSnapshot' = hasSnapshot
        /\ book' = book /\ missed' = missed /\ next' = next /\ pc' = pc /\ exchange' = exchange
    BY <1>7 DEF flags, history
  <2>2. heard \in Nat /\ heard <= n /\ \A i \in 1..heard : server'[i] = server[i]
    BY <1>1, <1>6 DEF IInv, Types, Known
  <2>3. \A i \in 1..heard : Shows(i) <=> Shows(i)'
    BY <2>1, <2>2 DEF Shows
  <2>4. stream # <<>> => stream' # <<>> /\ stream'[1] = stream[1]
    BY <1>9, <1>10, <1>11 DEF IInv, Lists
  <2>5. stream = <<>> /\ stream' # <<>> =>
          /\ stream'[1] = Update(n + 1)
          /\ heard = n \/ (exchange = "BINANCE" /\ heard = 0)
    <3>1. stream = <<>> /\ stream' # <<>> => feeding
      BY <1>9
    <3>2. QED BY <3>1, <1>1, <1>11 DEF IInv, Chain
  <2>6. CASE exchange = "KRAKEN"
    BY <2>1, <2>2, <2>4, <2>5, <2>6, <1>1, <1>10 DEF IInv, Showing, Kraken
  <2>7. CASE exchange = "BINANCE"
    <3>1. CASE Holding
      <4>1. Holding' /\ stream # <<>>
        BY <3>1, <2>1 DEF Holding, IInv, Control
      <4>2. InHand
        BY <3>1, <2>7 DEF IInv, Showing, Binance
      <4>3. InHand'
        BY <4>1, <4>2, <2>1, <2>2, <2>3, <2>4 DEF InHand
      <4>4. QED BY <4>1, <4>3, <2>1, <2>7 DEF Showing, Binance
    <3>2. CASE ~Holding
      <4>1. ~Holding'
        BY <3>2, <2>1 DEF Holding
      <4>2. /\ NextFollows
            /\ pc["io"] = "idle" => (hasSnapshot => heard # 0)
            /\ pc["io"] # "idle" => heard # 0
            /\ ~missed /\ (pc["io"] # "idle" \/ hasSnapshot) => Shows(heard)
        BY <3>2, <2>7 DEF IInv, Showing, Binance
      <4>3. NextFollows'
        BY <4>2, <2>1, <2>4, <2>5, <1>10 DEF NextFollows
      <4>4. heard # 0 => (Shows(heard) <=> Shows(heard)')
        BY <2>1, <2>2, <2>3
      <4>5. QED BY <4>1, <4>2, <4>3, <4>4, <2>1, <2>7 DEF Showing, Binance
    <3>3. QED BY <3>1, <3>2
  <2>8. QED BY <2>6, <2>7 DEF IInv, Types
<1>17. QED BY <1>8, <1>12, <1>13, <1>14, <1>15, <1>16 DEF IInv

(* The exchange begins to send its book, Kraken with a snapshot.           *)
LEMMA FeedBeginsInv == ASSUME IInv, FeedBegins PROVE IInv'
<1>1. UNCHANGED <<exchange, server, requests, ticker, book, flags, fresh, inCooldown,
                  calls, timer, pc, next, history>>
  BY DEF FeedBegins
<1> DEFINE snapshot == exchange = "KRAKEN"
<1>2. /\ stream' = IF snapshot THEN Append(stream, Snapshot(Now)) ELSE stream
      /\ ~feeding /\ feeding' = TRUE
  BY DEF FeedBegins
<1>3. Now \in Nat \ {0} /\ Now' = Now
  BY <1>1 DEF IInv, Lists, Now
<1>4. Snapshot(Now) \in Message /\ Snapshot(Now).id = Now /\ Snapshot(Now).kind = "snapshot"
  BY <1>3 DEF Snapshot, Message
<1> HIDE DEF snapshot
<1>5. /\ stream' \in Seq(Message) /\ Len(stream) \in Nat
      /\ snapshot => /\ Len(stream') = Len(stream) + 1
                     /\ stream'[Len(stream) + 1] = Snapshot(Now)
      /\ ~snapshot => stream' = stream
      /\ \A i \in 1..Len(stream) : stream'[i] = stream[i]
  BY <1>2, <1>4 DEF IInv, Lists
<1>7. Types'
  <2>1. feeding' \in BOOLEAN
    BY <1>2
  <2>2. QED BY <2>1, <1>1 DEF IInv, Types, flags, timer, history, PlacesOK
<1>8. Lists'
  BY <1>1, <1>5 DEF IInv, Lists
<1>9. Known'
  <2>1. \A i \in 1..Len(stream') : stream'[i].id <= Now
    BY <1>3, <1>4, <1>5 DEF IInv, Known
  <2>2. QED BY <2>1, <1>1, <1>3 DEF IInv, Known, flags, history
<1>10. Limited'
  BY <1>1 DEF IInv, Limited, Checking, Restarting, timer
<1>11. Control'
  <2>1. stream # <<>> => stream' # <<>>
    BY <1>5 DEF IInv, Lists
  <2>2. QED BY <2>1, <1>1 DEF IInv, Control, Holding, flags
<1>12. exchange = "BINANCE" => feeding' /\ stream' = stream
  BY <1>2, <1>5 DEF snapshot
<1>13. Chain'
  <2>1. \A i \in 1..(Len(stream') - 1) :
          stream'[i + 1].kind = "update" => stream'[i + 1].id = stream'[i].id + 1
    <3>1. CASE snapshot
      <4>1. \A i \in 1..(Len(stream') - 1) : i + 1 \in 1..Len(stream) \/ i = Len(stream)
        BY <3>1, <1>5
      <4>2. \A i \in 1..(Len(stream) - 1) :
              stream'[i + 1].kind = "update" => stream'[i + 1].id = stream'[i].id + 1
        BY <1>5 DEF IInv, Chain
      <4>3. QED BY <4>1, <4>2, <3>1, <1>4, <1>5
    <3>2. CASE ~snapshot
      BY <3>2, <1>5 DEF IInv, Chain
    <3>3. QED BY <3>1, <3>2
  <2>2. feeding' => IF stream' # <<>> THEN stream'[Len(stream')].id = Now'
                    ELSE heard' = Now' \/ (exchange' = "BINANCE" /\ heard' = 0)
    <3>1. CASE snapshot
      BY <3>1, <1>3, <1>4, <1>5
    <3>2. CASE ~snapshot
      <4>1. exchange = "BINANCE"
        BY <3>2 DEF snapshot, IInv, Types
      <4>2. stream = <<>> /\ heard = 0
        BY <4>1, <1>2 DEF IInv, Chain
      <4>3. QED BY <4>1, <4>2, <3>2, <1>1, <1>5 DEF history
    <3>3. QED BY <3>1, <3>2
  <2>3. exchange' = "BINANCE" =>
          /\ \A i \in 1..Len(stream') : stream'[i].kind = "update"
          /\ stream' # <<>> \/ heard' # 0 => feeding'
    BY <1>1, <1>12 DEF IInv, Chain
  <2>4. QED BY <2>1, <2>2, <2>3 DEF Chain
<1>14. Showing'
  <2>1. /\ heard' = heard /\ lastUpdateId' = lastUpdateId /\ hasSnapshot' = hasSnapshot
        /\ book' = book /\ missed' = missed /\ next' = next /\ pc' = pc
        /\ exchange' = exchange /\ server' = server
    BY <1>1 DEF flags, history
  <2>2. CASE exchange = "KRAKEN"
    <3>1. stream # <<>> => stream' # <<>> /\ stream'[1] = stream[1]
      BY <1>5 DEF IInv, Lists
    <3>2. stream = <<>> /\ stream' # <<>> => stream'[1].kind = "snapshot"
      BY <1>4, <1>5
    <3>3. QED BY <2>1, <2>2, <3>1, <3>2 DEF IInv, Showing, Kraken
  <2>3. CASE exchange = "BINANCE"
    BY <2>1, <2>3, <1>12
    DEF IInv, Showing, Binance, Holding, InHand, NextFollows, Shows
  <2>4. QED BY <2>2, <2>3 DEF IInv, Types
<1>15. QED BY <1>7, <1>8, <1>9, <1>10, <1>11, <1>13, <1>14 DEF IInv

(* Kraken breaks off: nothing more comes, and nothing else changes.        *)
LEMMA FeedEndsInv == ASSUME IInv, FeedEnds PROVE IInv'
<1>1. /\ UNCHANGED <<exchange, server, requests, ticker, stream, book, flags, fresh,
                     inCooldown, calls, timer, pc, next, history>>
      /\ feeding' = FALSE /\ exchange = "KRAKEN"
  BY DEF FeedEnds
<1> USE <1>1 DEF flags, timer, history
<1>2. Types' /\ Lists'
  BY DEF IInv, Types, PlacesOK, Lists
<1>3. Known' /\ Limited' /\ Control'
  BY DEF IInv, Known, Now, Limited, Checking, Restarting, Control, Holding
<1>4. Chain' /\ Showing'
  BY DEF IInv, Chain, Showing, Kraken
<1>5. QED BY <1>2, <1>3, <1>4 DEF IInv

(* A step that leaves the network and the book, and takes no message,      *)
(* keeps what the book shows, if the IO thread stays where it is and marks *)
(* no snapshot.                                                            *)
LEMMA BookKept ==
  ASSUME IInv,
         UNCHANGED <<exchange, server, feeding, stream, book, lastUpdateId, heard, missed,
                     next>>,
         pc'["io"] = pc["io"], hasSnapshot' => hasSnapshot
  PROVE  Known' /\ Chain' /\ Showing'
<1>1. Known' /\ Chain'
  BY DEF IInv, Known, Chain, Now
<1>2. Showing'
  BY DEF IInv, Showing, Kraken, Binance, Holding, InHand, NextFollows, Shows
<1>3. QED BY <1>1, <1>2

(* The exchange takes a subscription, which is the ticker's.               *)
LEMMA Answered ==
  ASSUME Lists, requests # <<>>, requests' = Tail(requests)
  PROVE  /\ requests' \in Seq({"subscribe", "unsubscribe"})
         /\ requests' = <<>> => requests[1] = Last(requests)
         /\ requests' # <<>> => Last(requests') = Last(requests)
<1>1. /\ requests' \in Seq({"subscribe", "unsubscribe"})
      /\ Len(requests') = Len(requests) - 1 /\ Len(requests) \in Nat \ {0}
      /\ \A i \in 1..Len(requests') : requests'[i] = requests[i + 1]
  BY DEF Lists
<1>2. requests' = <<>> => Len(requests) = 1
  <2>1. requests' = <<>> => Len(requests') = 0
    OBVIOUS
  <2>2. QED BY <2>1, <1>1
<1>3. requests' # <<>> => Len(requests') \in 1..Len(requests')
  BY <1>1
<1>4. QED BY <1>1, <1>2, <1>3 DEF Last

LEMMA ServerAnswersInv == ASSUME IInv, ServerAnswers PROVE IInv'
<1>1. /\ UNCHANGED <<exchange, server, feeding, stream, book, flags, fresh, inCooldown,
                     calls, timer, pc, next, history>>
      /\ requests' \in Seq({"subscribe", "unsubscribe"}) /\ ticker' \in BOOLEAN
  BY Answered DEF ServerAnswers, IInv
<1> USE <1>1 DEF flags, timer, history
<1>2. Types' /\ Lists'
  BY DEF IInv, Types, PlacesOK, Lists
<1>3. Limited' /\ Control'
  BY DEF IInv, Limited, Checking, Restarting, Control, Holding
<1>4. QED BY <1>2, <1>3, BookKept DEF IInv

-----------------------------------------------------------------------------
LEMMA AgesInv == ASSUME IInv, Ages PROVE IInv'
<1> USE DEF Ages, network, flags, timer, history
<1>1. Types'
  BY DEF IInv, Types, PlacesOK
<1>2. Lists' /\ Limited' /\ Control'
  BY DEF IInv, Lists, Limited, Checking, Restarting, Control, Holding
<1>3. QED BY <1>1, <1>2, BookKept DEF IInv

LEMMA StutterInv == ASSUME IInv, UNCHANGED vars PROVE IInv'
<1> USE DEF vars, network, flags, timer, history
<1>1. Types'
  BY DEF IInv, Types, PlacesOK
<1>2. Lists' /\ Limited' /\ Control'
  BY DEF IInv, Lists, Limited, Checking, Restarting, Control, Holding
<1>3. QED BY <1>1, <1>2, BookKept DEF IInv

(* A request joins those on their way.                                     *)
LEMMA RequestSent ==
  ASSUME Lists, NEW r \in {"subscribe", "unsubscribe"}, Send(r),
         UNCHANGED <<server, stream>>
  PROVE  /\ Lists'
         /\ requests' # <<>> /\ Last(requests') = r
BY DEF Lists, Send, Last

(* Kraken subscribes again, on either thread.                              *)
LEMMA ResubscribeInv ==
  ASSUME IInv, NEW t \in {"main", "io"}, ResubscribeOrderBook(t)
  PROVE  IInv'
<1>1. UNCHANGED <<exchange, server, feeding, ticker, stream, book, lastUpdateId,
                  hasSnapshot, fresh, inCooldown, calls, timer, next, history>>
  BY DEF ResubscribeOrderBook
<1>2. PICK from \in {"resubscribe", "unsubscribe", "unsubscribing", "subscribe",
                     "subscribing"},
           to \in {"unsubscribe", "unsubscribing", "subscribe", "subscribing",
                   Resubscribed(t)} :
        Go(t, from, to)
  BY DEF ResubscribeOrderBook, TestSubscribed, Unsubscribe, Subscribe
<1>3. Lists'
  <2>1. CASE TestSubscribed(t)
    BY <2>1, <1>1 DEF TestSubscribed, IInv, Lists
  <2>2. CASE requests' = requests
    BY <2>2, <1>1 DEF IInv, Lists
  <2>3. ASSUME NEW r \in {"subscribe", "unsubscribe"}, Send(r) PROVE Lists'
    <3>1. Lists /\ UNCHANGED <<server, stream>>
      BY <1>1 DEF IInv
    <3>2. QED BY <3>1, <2>3, RequestSent
  <2>4. QED BY <2>1, <2>2, <2>3 DEF ResubscribeOrderBook, Unsubscribe, Subscribe
<1>4. subscribed' \in BOOLEAN
  BY DEF ResubscribeOrderBook, TestSubscribed, Unsubscribe, Subscribe, IInv, Types
<1>5. CASE t = "main"
  <2>1. /\ PlacesOK' /\ pc["main"] = from /\ pc'["main"] = to /\ pc'["io"] = pc["io"]
        /\ to \in {"unsubscribe", "unsubscribing", "subscribe", "subscribing", "rearm"}
    BY <1>2, <1>5, MainGoes DEF Resubscribed, MainPlaces, IInv, Types
  <2>2. Types'
    BY <1>1, <1>4, <2>1 DEF IInv, Types, timer, history
  <2>3. exchange = "KRAKEN"
    BY <2>1 DEF IInv, Control, Types
  <2>4. Limited' /\ Control'
    BY <1>1, <2>1, <2>3 DEF IInv, Limited, Checking, Restarting, Control, Holding, timer
  <2>5. QED BY <1>1, <1>3, <2>1, <2>2, <2>4, BookKept DEF IInv, history
<1>6. CASE t = "io"
  <2>1. /\ PlacesOK' /\ pc["io"] = from /\ pc'["io"] = to /\ pc'["main"] = pc["main"]
        /\ to \in {"unsubscribe", "unsubscribing", "subscribe", "subscribing", "idle"}
    BY <1>2, <1>6, IoGoes DEF Resubscribed, IoPlaces, IInv, Types
  <2>2. Types'
    BY <1>1, <1>4, <2>1 DEF IInv, Types, timer, history
  <2>3. exchange = "KRAKEN"
    BY <2>1 DEF IInv, Control, Types
  <2>4. Limited' /\ Control'
    BY <1>1, <2>1, <2>3 DEF IInv, Limited, Checking, Restarting, Control, Holding, timer
  <2>5. Known' /\ Chain' /\ Showing'
    BY <1>1, <2>3 DEF IInv, Known, Chain, Showing, Kraken, Now, history
  <2>6. QED BY <1>3, <2>2, <2>4, <2>5 DEF IInv
<1>7. QED BY <1>5, <1>6

(* The other steps of main: subscribing at the start, and the callback.    *)
LEMMA MainInv ==
  ASSUME IInv, MainThread
  PROVE  IInv'
<1>1. CASE ResubscribeOrderBook("main")
  BY <1>1, ResubscribeInv
<1>2. CASE ~ResubscribeOrderBook("main")
  <2>1. UNCHANGED <<exchange, server, feeding, ticker, stream, book, fresh, inCooldown,
                    calls, next, history>>
    BY <1>2 DEF MainThread
  <2> USE DEF IInv
  <2>2. CASE SubscribeOrderBook
    <3>1. /\ PlacesOK' /\ pc["main"] \in {"start", "opening"}
          /\ pc'["main"] \in {"opening", "reset", "idle"}
          /\ pc'["main"] = "opening" => exchange = "KRAKEN"
          /\ pc'["io"] = pc["io"]
      BY <2>2, MainGoes DEF SubscribeOrderBook, MainPlaces, Types
    <3>2. Lists'
      <4>1. CASE requests' = requests
        BY <2>1, <4>1 DEF Lists
      <4>2. CASE Send("subscribe")
        <5>1. Lists /\ UNCHANGED <<server, stream>>
          BY <2>1
        <5>2. QED BY <5>1, <4>2, RequestSent
      <4>3. QED BY <2>2, <4>1, <4>2 DEF SubscribeOrderBook
    <3>3. Types'
      <4>1. subscribed \in BOOLEAN
        BY DEF Types
      <4>2. subscribed' = TRUE \/ subscribed' = subscribed
        BY <2>2 DEF SubscribeOrderBook, flags
      <4>3. subscribed' \in BOOLEAN
        BY <4>1, <4>2
      <4>4. UNCHANGED <<lastUpdateId, hasSnapshot, timer>>
        BY <2>2 DEF SubscribeOrderBook
      <4>5. QED BY <2>1, <3>1, <4>3, <4>4 DEF Types, timer, history
    <3>4. Limited' /\ Control'
      BY <2>1, <2>2, <3>1, <3>2
      DEF SubscribeOrderBook, Limited, Checking, Restarting, Control, Holding, timer
    <3>5. QED BY <2>1, <2>2, <3>1, <3>2, <3>3, <3>4, BookKept DEF SubscribeOrderBook, history
  <2>3. CASE Fire
    <3>1. /\ PlacesOK' /\ pc["main"] = "idle" /\ pc'["main"] = "check"
          /\ pc'["io"] = pc["io"]
      BY <2>3, MainGoes DEF Fire, MainPlaces, Types
    <3>2. /\ timers \in Nat \ {0} /\ timers' = timers - 1
          /\ own' \in BOOLEAN /\ (own' => timers > 1)
          /\ UNCHANGED <<requests, lastUpdateId, hasSnapshot, subscribed, watched>>
      <4>1. timers \in Nat \ {0} /\ timers' = timers - 1
        BY <2>3 DEF Fire, Types
      <4>2. UNCHANGED <<requests, lastUpdateId, hasSnapshot, subscribed, watched>>
        BY <2>3 DEF Fire, flags
      <4>3. own \in BOOLEAN
        BY DEF Types
      <4>4. own' = FALSE \/ (own' = own /\ (own => timers > 1))
        BY <2>3 DEF Fire
      <4>5. own' \in BOOLEAN /\ (own' => timers > 1)
        <5>1. CASE own' = FALSE
          BY <5>1
        <5>2. CASE own' = own /\ (own => timers > 1)
          <6>1. own' \in BOOLEAN
            BY <4>3, <5>2
          <6>2. QED BY <6>1, <5>2
        <5>3. QED BY <4>4, <5>1, <5>2
      <4>6. QED BY <4>1, <4>2, <4>5
    <3>3. Types' /\ Lists'
      BY <2>1, <3>1, <3>2 DEF Types, Lists, history
    <3>4. Limited' /\ Control'
      BY <2>1, <3>1, <3>2, SnapshotsBounds DEF Limited, Checking, Restarting, Control, Holding
    <3>5. QED BY <2>1, <3>1, <3>2, <3>3, <3>4, BookKept DEF history
  <2>4. CASE Rearm
    <3>1. /\ PlacesOK' /\ pc["main"] = "rearm" /\ pc'["main"] = "idle"
          /\ pc'["io"] = pc["io"]
      BY <2>4, MainGoes DEF Rearm, MainPlaces, Types
    <3>2. /\ timers' = timers + 1 /\ timers \in Nat /\ own' = TRUE /\ watched' = TRUE
          /\ UNCHANGED <<requests, lastUpdateId, hasSnapshot, subscribed>>
      BY <2>4 DEF Rearm, StartTimer, Types, flags
    <3>3. Types' /\ Lists'
      BY <2>1, <3>1, <3>2 DEF Types, Lists, history
    <3>4. Limited' /\ Control'
      BY <2>1, <3>1, <3>2, SnapshotsBounds DEF Limited, Checking, Restarting, Control, Holding
    <3>5. QED BY <2>1, <3>1, <3>2, <3>3, <3>4, BookKept DEF history
  <2>5. CASE ResetState \/ CheckMissing \/ CheckAge \/ ClearSnapshot \/ Restore
    <3>1. PICK from \in {"reset", "check", "age", "stale", "restore"},
               to \in {"idle", "age", "restore", "rearm", "stale", "resubscribe"} :
            /\ Go("main", from, to)
            /\ to = "idle" <=> from = "reset"
            /\ to = "resubscribe" => exchange = "KRAKEN"
      BY <2>5 DEF ResetState, CheckMissing, CheckAge, ClearSnapshot, Restore
    <3>2. /\ PlacesOK' /\ pc["main"] = from /\ pc'["main"] = to /\ pc'["io"] = pc["io"]
      BY <3>1, MainGoes DEF MainPlaces, Types
    <3>3. /\ UNCHANGED <<requests, lastUpdateId, timers, own, watched>>
          /\ hasSnapshot' \in BOOLEAN /\ subscribed' \in BOOLEAN
          /\ hasSnapshot' => hasSnapshot
      <4>1. hasSnapshot \in BOOLEAN /\ subscribed \in BOOLEAN
        BY DEF Types
      <4>2. CASE ResetState
        BY <4>1, <4>2 DEF ResetState, timer
      <4>3. CASE ClearSnapshot
        BY <4>1, <4>3 DEF ClearSnapshot, timer
      <4>4. CASE CheckMissing \/ CheckAge \/ Restore
        BY <4>1, <4>4 DEF CheckMissing, CheckAge, Restore, flags, timer
      <4>5. QED BY <2>5, <4>2, <4>3, <4>4
    <3>4. Types' /\ Lists'
      BY <2>1, <3>2, <3>3 DEF Types, Lists, history
    <3>5. Limited' /\ Control'
      BY <2>1, <3>1, <3>2, <3>3 DEF Limited, Checking, Restarting, Control, Holding
    <3>6. QED BY <2>1, <3>2, <3>3, <3>4, <3>5, BookKept DEF history
  <2>6. QED BY <1>2, <2>2, <2>3, <2>4, <2>5 DEF MainThread
<1>3. QED BY <1>1, <1>2

-----------------------------------------------------------------------------
(* The books of the exchange, one update apart: a level that is listed and *)
(* not said by the later update is listed in the earlier.                  *)
LEMMA SaidOrBefore ==
  ASSUME IInv, NEW id \in 1..Now, id > 1, NEW p \in Prices, p \notin Said(id)
  PROVE  server[id][p] = server[id - 1][p]
BY DEF Said

(* Levels of a book of the exchange, merged into ours or put in its place. *)
LEMMA BookTypes ==
  ASSUME IInv, NEW id \in 1..Now
  PROVE  /\ \A levels : Merge(levels, id) =>
              /\ book' \in Level /\ (\A p \in Prices : book'[p] <= Now)
              /\ fresh' \in BOOLEAN
         /\ WholeBook(id) => /\ book' \in Level /\ (\A p \in Prices : book'[p] <= Now)
                             /\ fresh' \in BOOLEAN
<1>1. server[id] \in Level /\ \A p \in Prices : server[id][p] <= Now /\ server[id][p] \in Nat
  <2>1. Now \in Nat /\ server[id] \in Level
    BY DEF IInv, Lists, Now
  <2>2. \A p \in Prices : server[id][p] <= id /\ server[id][p] \in Nat
    BY <2>1 DEF IInv, Known, Level
  <2>3. QED BY <2>1, <2>2
<1>2. book \in Level /\ \A p \in Prices : book[p] <= Now
  BY DEF IInv, Types, Known
<1>3. WholeBook(id) => /\ book' \in Level /\ (\A p \in Prices : book'[p] <= Now)
                       /\ fresh' \in BOOLEAN
  BY <1>1 DEF WholeBook
<1>4. ASSUME NEW levels, Merge(levels, id)
      PROVE  /\ book' \in Level /\ (\A p \in Prices : book'[p] <= Now)
             /\ fresh' \in BOOLEAN
  BY <1>1, <1>2, <1>4 DEF Merge, Level
<1>5. QED BY <1>3, <1>4

(* The message in hand has been handled, and is what was last heard or one *)
(* that came before it.                                                    *)
LEMMA Finished ==
  ASSUME IInv, stream # <<>>, Finish, UNCHANGED <<exchange, server, feeding>>,
         heard' \in Nat, heard' <= Now,
         Len(stream) = 1 /\ feeding => heard' = Now
  PROVE  /\ stream' \in Seq(Message)
         /\ \A i \in 1..Len(stream') : stream'[i].id <= Now
         /\ Chain'
         /\ stream' # <<>> =>
              stream'[1] = stream[2]
              /\ (stream[2].kind = "update" => stream[2].id = stream[1].id + 1)
<1>1. /\ stream' = Tail(stream) /\ stream' \in Seq(Message)
      /\ Len(stream) \in Nat \ {0} /\ Len(stream') = Len(stream) - 1
      /\ \A i \in 1..(Len(stream) - 1) : stream'[i] = stream[i + 1]
  BY FirstMessage DEF Finish, IInv
<1>2. \A i \in 1..Len(stream') : stream'[i] = stream[i + 1] /\ i + 1 \in 1..Len(stream)
  BY <1>1
<1>3. \A i \in 1..Len(stream') : stream'[i].id <= Now
  BY <1>2 DEF IInv, Known
<1>4. \A i \in 1..(Len(stream') - 1) :
        stream'[i + 1].kind = "update" => stream'[i + 1].id = stream'[i].id + 1
  <2> SUFFICES ASSUME NEW i \in 1..(Len(stream') - 1), stream'[i + 1].kind = "update"
               PROVE  stream'[i + 1].id = stream'[i].id + 1
    OBVIOUS
  <2>1. /\ i \in 1..Len(stream') /\ i + 1 \in 1..Len(stream')
        /\ i + 1 \in 1..(Len(stream) - 1)
    BY <1>1
  <2>2. stream'[i] = stream[i + 1] /\ stream'[i + 1] = stream[(i + 1) + 1]
    BY <2>1, <1>2
  <2>3. QED BY <2>1, <2>2 DEF IInv, Chain
<1>5. feeding' => IF stream' # <<>> THEN stream'[Len(stream')].id = Now'
                  ELSE heard' = Now'
  <2>1. CASE stream' # <<>>
    <3>1. Len(stream') \in 1..Len(stream') /\ Len(stream') + 1 = Len(stream)
      BY <2>1, <1>1
    <3>2. QED BY <3>1, <1>2, <2>1 DEF IInv, Chain, Now
  <2>2. CASE stream' = <<>>
    BY <2>2, <1>1 DEF Now
  <2>3. QED BY <2>1, <2>2
<1>6. exchange' = "BINANCE" =>
        /\ \A i \in 1..Len(stream') : stream'[i].kind = "update"
        /\ stream' # <<>> \/ heard' # 0 => feeding'
  BY <1>2 DEF IInv, Chain
<1>7. stream' # <<>> =>
        stream'[1] = stream[2]
        /\ (stream[2].kind = "update" => stream[2].id = stream[1].id + 1)
  <2>1. stream' # <<>> => 1 \in 1..(Len(stream) - 1) /\ 1 + 1 = 2
    BY <1>1
  <2>2. QED BY <2>1, <1>1 DEF IInv, Chain
<1>8. QED BY <1>1, <1>3, <1>4, <1>5, <1>6, <1>7 DEF Chain

(* The turn of the checksum stays within the period.                       *)
LEMMA Counted ==
  ASSUME calls \in 0..(CheckPeriod - 1), Count
  PROVE  calls' \in 0..(CheckPeriod - 1)
BY SnapshotsBounds DEF Count

(* What is in hand.                                                        *)
LEMMA HandKnown ==
  ASSUME IInv, stream # <<>>
  PROVE  /\ hand = stream[1] /\ hand.id \in 1..Now /\ hand.kind \in {"update", "snapshot"}
         /\ Now \in Nat /\ heard \in Nat /\ heard <= Now
         /\ exchange = "BINANCE" => hand.kind = "update"
         /\ Len(stream) = 1 /\ feeding => hand.id = Now
<1>1. hand = stream[1] /\ hand \in Message /\ Len(stream) \in Nat \ {0}
  BY FirstMessage DEF IInv
<1>2. 1 \in 1..Len(stream) /\ Now \in Nat
  BY <1>1 DEF IInv, Lists, Now
<1>3. hand.id \in Nat \ {0} /\ hand.kind \in {"update", "snapshot"}
  BY <1>1 DEF Message
<1>4. hand.id <= Now
  BY <1>1, <1>2 DEF IInv, Known
<1>5. QED BY <1>1, <1>2, <1>3, <1>4 DEF IInv, Chain, Types, Known

-----------------------------------------------------------------------------
(* Kraken's handler.                                                       *)
LEMMA UnreadableInv == ASSUME IInv, UnreadableKraken, UNCHANGED OfOthers PROVE IInv'
<1> USE DEF IInv, OfOthers
<1>1. /\ PlacesOK' /\ pc["io"] = "idle" /\ pc'["io"] = "idle" /\ pc'["main"] = pc["main"]
      /\ exchange = "KRAKEN" /\ stream # <<>>
  BY IoGoes DEF UnreadableKraken, Take, IoPlaces, Types
<1>2. /\ UNCHANGED <<book, lastUpdateId, hasSnapshot, fresh, inCooldown, timers, own,
                     watched, next>>
      /\ Finish /\ heard' = hand.id /\ missed' = TRUE /\ (Count \/ calls' = calls)
      /\ unreadable < MaxUnreadable /\ unreadable' = unreadable + 1
  BY DEF UnreadableKraken, Unread, timer
<1>3. heard' \in Nat \ {0} /\ heard' <= Now /\ (Len(stream) = 1 /\ feeding => heard' = Now)
  BY <1>1, <1>2, HandKnown
<1>4. /\ stream' \in Seq(Message)
      /\ \A i \in 1..Len(stream') : stream'[i].id <= Now
      /\ Chain'
      /\ stream' # <<>> =>
           stream'[1] = stream[2]
           /\ (stream[2].kind = "update" => stream[2].id = stream[1].id + 1)
  BY <1>1, <1>2, <1>3, Finished
<1>5. Types'
  <2>1. calls' \in 0..(CheckPeriod - 1)
    BY <1>2, Counted DEF Types
  <2>2. unreadable' \in 0..MaxUnreadable /\ missed' \in BOOLEAN
    BY <1>2, SnapshotsBounds DEF Types
  <2>3. QED BY <1>1, <1>2, <1>3, <2>1, <2>2 DEF Types
<1>6. Lists' /\ Known'
  BY <1>1, <1>2, <1>3, <1>4 DEF Lists, Known, Now, Control
<1>7. Limited' /\ Control'
  BY <1>1, <1>2 DEF Limited, Checking, Restarting, Control, Holding
<1>8. Showing'
  BY <1>1, <1>2, <1>3, <1>4, HandKnown DEF Showing, Kraken
<1>9. QED BY <1>4, <1>5, <1>6, <1>7, <1>8

LEMMA KrakenUpdateInv == ASSUME IInv, KrakenUpdate, UNCHANGED OfOthers PROVE IInv'
<1> USE DEF IInv, OfOthers
<1>1. /\ PlacesOK' /\ pc["io"] = "idle" /\ pc'["io"] = "update" /\ pc'["main"] = pc["main"]
      /\ exchange = "KRAKEN" /\ stream # <<>>
  BY IoGoes DEF KrakenUpdate, Take, IoPlaces, Types
<1>2. /\ UNCHANGED <<stream, book, lastUpdateId, hasSnapshot, fresh, inCooldown, timers, own,
                     watched, next, heard, unreadable, missed>>
      /\ Count
  BY DEF KrakenUpdate, timer, history
<1>3. Types'
  <2>1. calls' \in 0..(CheckPeriod - 1)
    BY <1>2, Counted DEF Types
  <2>2. QED BY <1>1, <1>2, <2>1 DEF Types
<1>4. Lists' /\ Known' /\ Chain'
  BY <1>1, <1>2 DEF Lists, Known, Now, Chain
<1>5. Limited' /\ Control'
  BY <1>1, <1>2 DEF Limited, Checking, Restarting, Control, Holding
<1>6. Showing'
  BY <1>1, <1>2 DEF Showing, Kraken
<1>7. QED BY <1>3, <1>4, <1>5, <1>6

(* The book that was equal to what was heard is equal after the message    *)
(* that follows, and after a snapshot whatever it was.                     *)
LEMMA KrakenApplyInv == ASSUME IInv, KrakenApply, UNCHANGED OfOthers PROVE IInv'
<1> USE DEF IInv, OfOthers
<1>1. /\ PlacesOK' /\ pc["io"] = "update" /\ pc'["io"] \in {"resubscribe", "mark", "idle"}
      /\ pc'["main"] = pc["main"]
  BY IoGoes DEF KrakenApply, IoPlaces, Types
<1>2. exchange = "KRAKEN" /\ stream # <<>>
  BY <1>1 DEF Control, Types
<1>3. /\ UNCHANGED <<lastUpdateId, hasSnapshot, inCooldown, calls, timers, own,
                     watched, next>>
      /\ unreadable' = unreadable \/ Unread
      /\ Finish /\ heard' = hand.id
      /\ missed' = (missed /\ hand.kind # "snapshot")
      /\ IF hand.kind = "snapshot" THEN WholeBook(hand.id) ELSE Merge(Said(hand.id), hand.id)
  BY DEF KrakenApply, KrakenMerge, timer
<1>4. /\ heard' \in Nat \ {0} /\ heard' <= Now /\ (Len(stream) = 1 /\ feeding => heard' = Now)
      /\ hand.id \in 1..Now /\ hand = stream[1] /\ hand.kind \in {"update", "snapshot"}
      /\ Now \in Nat
  BY <1>2, <1>3, HandKnown
<1>5. /\ stream' \in Seq(Message)
      /\ \A i \in 1..Len(stream') : stream'[i].id <= Now
      /\ Chain'
      /\ stream' # <<>> =>
           stream'[1] = stream[2]
           /\ (stream[2].kind = "update" => stream[2].id = stream[1].id + 1)
  BY <1>2, <1>3, <1>4, Finished
<1>6. book' \in Level /\ (\A p \in Prices : book'[p] <= Now) /\ fresh' \in BOOLEAN
  BY <1>3, <1>4, BookTypes
<1>7. Types'
  <2>1. missed' \in BOOLEAN
    BY <1>3
  <2>2. unreadable' \in 0..MaxUnreadable
    BY <1>3, SnapshotsBounds DEF Unread, Types
  <2>3. QED BY <1>1, <1>3, <1>4, <1>6, <2>1, <2>2 DEF Types
<1>8. Lists' /\ Known'
  BY <1>2, <1>3, <1>4, <1>5, <1>6 DEF Lists, Known, Now, Control
<1>9. Limited' /\ Control'
  BY <1>1, <1>2, <1>3 DEF Limited, Checking, Restarting, Control, Holding
<1>10. ~missed' => book' = server[heard']
  <2>1. CASE hand.kind = "snapshot"
    BY <2>1, <1>3 DEF WholeBook
  <2>2. CASE hand.kind = "update" /\ ~missed
    <3>1. heard # 0 /\ hand.id = heard + 1 /\ book = server[heard] /\ heard \in Nat
      BY <2>2, <1>2, <1>4 DEF Showing, Kraken, Types
    <3>2. hand.id > 1 /\ hand.id - 1 = heard
      BY <3>1
    <3>3. server[hand.id] \in Level
      BY <1>4 DEF Lists, Now
    <3>4. \A p \in Prices : book'[p] = server[hand.id][p]
      <4>1. ASSUME NEW p \in Prices PROVE book'[p] = server[hand.id][p]
        <5>1. book'[p] = IF p \in Said(hand.id) THEN server[hand.id][p] ELSE book[p]
          BY <2>2, <1>3 DEF Merge
        <5>2. p \notin Said(hand.id) => server[hand.id][p] = server[heard][p]
          BY <1>4, <3>2, SaidOrBefore
        <5>3. QED BY <5>1, <5>2, <3>1
      <4>2. QED BY <4>1
    <3>5. QED BY <3>3, <3>4, <1>3, <1>6 DEF Level
  <2>3. CASE hand.kind = "update" /\ missed
    BY <2>3, <1>3
  <2>4. QED BY <2>1, <2>2, <2>3, <1>4 DEF Types
<1>11. Showing'
  BY <1>2, <1>3, <1>4, <1>5, <1>10 DEF Showing, Kraken
<1>12. QED BY <1>5, <1>7, <1>8, <1>9, <1>11

-----------------------------------------------------------------------------
(* Both handlers mark a snapshot, which restarts the timer.                *)
LEMMA MarkInv == ASSUME IInv, Mark, UNCHANGED OfOthers PROVE IInv'
<1> USE DEF IInv, OfOthers
<1>1. /\ PlacesOK' /\ pc["io"] = "mark" /\ pc'["io"] = "start" /\ pc'["main"] = pc["main"]
  BY IoGoes DEF Mark, IoPlaces, Types
<1>2. /\ UNCHANGED <<stream, book, lastUpdateId, fresh, inCooldown, calls, next, heard,
                     unreadable, missed>>
      /\ hasSnapshot' = TRUE /\ MarkSnapshot
  BY DEF Mark, MarkSnapshot, history
<1>3. /\ own' = FALSE /\ watched' = watched
      /\ own => timers' = timers - 1 /\ timers > 0
      /\ ~own => timers' = timers /\ timers + (IF Checking THEN 1 ELSE 0) < MaxTimers
  <2>1. own => timers > 0
    BY DEF Limited
  <2>2. ~own => timers + (IF Checking THEN 1 ELSE 0) < MaxTimers
    <3>1. CASE Checking
      BY <3>1, <1>2 DEF MarkSnapshot, Checking
    <3>2. CASE ~Checking
      BY <3>2, <1>2 DEF MarkSnapshot, Checking
    <3>3. QED BY <3>1, <3>2
  <2>3. QED BY <2>1, <2>2, <1>2 DEF MarkSnapshot, StopTimer
<1>4. timers' \in Nat /\ Limited'
  <2>1. timers \in Nat /\ ~Restarting /\ Restarting' /\ (Checking' <=> Checking)
    BY <1>1 DEF Types, Restarting, Checking
  <2>2. CASE own
    BY <2>1, <2>2, <1>3, SnapshotsBounds DEF Limited
  <2>3. CASE ~own
    BY <2>1, <2>3, <1>3, SnapshotsBounds DEF Limited
  <2>4. QED BY <2>2, <2>3
<1>5. Types'
  <2>1. own' \in BOOLEAN /\ hasSnapshot' \in BOOLEAN /\ watched' \in BOOLEAN
    BY <1>2, <1>3 DEF Types
  <2>2. QED BY <1>1, <1>2, <1>4, <2>1 DEF Types
<1>6. Lists' /\ Known' /\ Chain'
  BY <1>1, <1>2 DEF Lists, Known, Now, Chain
<1>7. Control'
  BY <1>1, <1>2 DEF Control, Holding
<1>8. Showing'
  BY <1>1, <1>2
  DEF Showing, Kraken, Binance, Holding, InHand, NextFollows, Shows
<1>9. QED BY <1>4, <1>5, <1>6, <1>7, <1>8

LEMMA TimerRestartsInv == ASSUME IInv, TimerRestarts, UNCHANGED OfOthers PROVE IInv'
<1> USE DEF IInv, OfOthers
<1>1. /\ PlacesOK' /\ pc["io"] = "start" /\ pc'["io"] = next /\ pc'["main"] = pc["main"]
  <2>1. next \in IoPlaces
    BY DEF Types, IoPlaces
  <2>2. QED BY <2>1, IoGoes DEF TimerRestarts, Types
<1>2. /\ UNCHANGED <<stream, book, lastUpdateId, hasSnapshot, fresh, inCooldown, calls, heard,
                     unreadable, missed>>
      /\ next' = "idle" /\ timers' = timers + 1 /\ own' = TRUE /\ watched' = TRUE
  BY DEF TimerRestarts, StartTimer, history
<1>3. Types'
  BY <1>1, <1>2 DEF Types
<1>4. Lists' /\ Known' /\ Chain'
  BY <1>1, <1>2 DEF Lists, Known, Now, Chain
<1>5. Limited'
  BY <1>1, <1>2, SnapshotsBounds DEF Limited, Checking, Restarting, Types
<1>6. Control'
  BY <1>1, <1>2 DEF Control, Holding, Types
<1>7. Showing'
  <2>1. CASE exchange = "KRAKEN"
    BY <2>1, <1>2 DEF Showing, Kraken
  <2>2. CASE exchange = "BINANCE" /\ next = "idle"
    BY <2>2, <1>1, <1>2 DEF Showing, Binance, Holding, NextFollows, Shows
  <2>3. CASE exchange = "BINANCE" /\ next # "idle"
    <3>1. Holding /\ Holding' /\ InHand
      BY <2>3, <1>1 DEF Showing, Binance, Holding, Types
    <3>2. InHand'
      BY <2>3, <3>1, <1>1, <1>2 DEF InHand, Shows, Types
    <3>3. QED BY <2>3, <3>1, <3>2 DEF Showing, Binance
  <2>4. QED BY <2>1, <2>2, <2>3 DEF Types
<1>8. QED BY <1>3, <1>4, <1>5, <1>6, <1>7

-----------------------------------------------------------------------------
(* Binance's handler takes a message: the next after what was heard, or    *)
(* one the snapshot has.                                                   *)
LEMMA BinanceUpdateInv == ASSUME IInv, BinanceUpdate, UNCHANGED OfOthers PROVE IInv'
<1> USE DEF IInv, OfOthers
<1>1. /\ PlacesOK' /\ pc["io"] = "idle" /\ pc'["main"] = pc["main"]
      /\ pc'["io"] = IF hasSnapshot THEN "compare" ELSE "request"
      /\ exchange = "BINANCE" /\ stream # <<>>
  BY IoGoes DEF BinanceUpdate, Take, IoPlaces, Types
<1>2. /\ UNCHANGED <<stream, book, lastUpdateId, hasSnapshot, fresh, inCooldown, calls,
                     timers, own, watched, next, unreadable, missed>>
      /\ heard' = Max({heard, hand.id})
  BY DEF BinanceUpdate, timer
<1>3. /\ hand.id \in 1..Now /\ hand = stream[1] /\ Now \in Nat
      /\ heard \in Nat /\ heard <= Now /\ lastUpdateId \in Nat /\ lastUpdateId <= heard
  BY <1>1, HandKnown DEF Types, Known
<1>4. heard' = IF heard < hand.id THEN hand.id ELSE heard
  BY <1>2, <1>3, MaxOfTwo
<1>5. heard' \in Nat \ {0} /\ heard' <= Now /\ heard <= heard'
  BY <1>3, <1>4
<1>6. Types' /\ Lists'
  BY <1>1, <1>2, <1>5 DEF Types, Lists
<1>7. Known' /\ Chain'
  BY <1>1, <1>2, <1>3, <1>5 DEF Known, Now, Chain
<1>8. Limited' /\ Control'
  BY <1>1, <1>2 DEF Limited, Checking, Restarting, Control, Holding, Types
<1>9. ~Holding /\ next = "idle"
  BY <1>1 DEF Holding, Control
<1>10. /\ NextFollows /\ (hasSnapshot => heard # 0)
       /\ hasSnapshot /\ ~missed => Shows(heard)
  BY <1>1, <1>9 DEF Showing, Binance
<1>11. InHand'
  <2>1. heard = 0 => heard' = hand.id
    BY <1>3, <1>4
  <2>2. heard # 0 => \/ hand.id = heard + 1 /\ heard' = hand.id
                     \/ hand.id <= heard /\ heard = lastUpdateId /\ heard' = heard
    BY <1>1, <1>3, <1>4, <1>10 DEF NextFollows
  <2>3. stream[1].id <= heard' /\ (stream[1].id = heard' \/ heard' = lastUpdateId')
    BY <2>1, <2>2, <1>2, <1>3, <1>5
  <2>4. \A n : Shows(n)' <=> Shows(n)
    BY <1>2 DEF Shows
  <2>5. pc'["io"] = "compare" /\ ~missed' =>
          \/ Shows(heard)' /\ heard' = lastUpdateId'
          \/ /\ stream'[1].id = heard' /\ lastUpdateId' < heard'
             /\ heard' > 1 /\ Shows(heard - 1)'
    <3> SUFFICES ASSUME hasSnapshot, ~missed
                 PROVE  \/ Shows(heard') /\ heard' = lastUpdateId
                        \/ /\ stream[1].id = heard' /\ lastUpdateId < heard'
                           /\ heard' > 1 /\ Shows(heard' - 1)
      BY <1>1, <1>2, <2>4 DEF Shows
    <3>1. heard # 0 /\ Shows(heard)
      BY <1>10
    <3>2. CASE hand.id = heard + 1 /\ heard' = hand.id
      <4>1. heard' - 1 = heard /\ lastUpdateId < heard' /\ heard' > 1
        BY <3>1, <3>2, <1>3
      <4>2. QED BY <3>1, <3>2, <4>1, <1>3
    <3>3. CASE heard = lastUpdateId /\ heard' = heard
      BY <3>1, <3>3
    <3>4. QED BY <2>2, <3>1, <3>2, <3>3
  <2>6. pc'["io"] = "request" => ~hasSnapshot'
    BY <1>1, <1>2
  <2>7. QED BY <2>3, <2>5, <2>6, <1>1, <1>2, <1>5, <1>9 DEF InHand
<1>12. Showing'
  <2>1. Holding' /\ exchange' = "BINANCE"
    BY <1>1 DEF Holding
  <2>2. QED BY <2>1, <1>11 DEF Showing, Binance
<1>13. QED BY <1>6, <1>7, <1>8, <1>12

(* The message in hand of Binance has been handled, and nothing else was   *)
(* heard meanwhile: the next follows.                                      *)
LEMMA BinanceFinished ==
  ASSUME IInv, exchange = "BINANCE", Holding, Finish, UNCHANGED OfOthers,
         UNCHANGED <<heard, lastUpdateId>>
  PROVE  /\ stream # <<>> /\ InHand /\ hand = stream[1] /\ hand.id \in 1..Now
         /\ stream' \in Seq(Message)
         /\ \A i \in 1..Len(stream') : stream'[i].id <= Now
         /\ Chain' /\ NextFollows'
<1>1. stream # <<>> /\ InHand
  BY DEF IInv, Control, Showing, Binance
<1>2. /\ hand = stream[1] /\ hand.id \in 1..Now /\ Now \in Nat
      /\ heard \in Nat /\ heard <= Now
      /\ Len(stream) = 1 /\ feeding => hand.id = Now
  BY <1>1, HandKnown
<1>3. Len(stream) = 1 /\ feeding => heard' = Now
  BY <1>1, <1>2 DEF InHand
<1>4. /\ stream' \in Seq(Message)
      /\ \A i \in 1..Len(stream') : stream'[i].id <= Now
      /\ Chain'
      /\ stream' # <<>> =>
           stream'[1] = stream[2]
           /\ (stream[2].kind = "update" => stream[2].id = stream[1].id + 1)
  BY <1>1, <1>2, <1>3, Finished DEF OfOthers
<1>5. NextFollows'
  <2>1. stream' # <<>> => stream'[1].id = stream[1].id + 1
    <3>1. stream' # <<>> => 1 \in 1..Len(stream')
      BY <1>4
    <3>2. stream' # <<>> => stream'[1].kind = "update"
      BY <1>4, <3>1 DEF Chain, OfOthers
    <3>3. QED BY <1>4, <3>2
  <2>2. QED BY <2>1, <1>1, <1>2 DEF NextFollows, InHand, IInv, Types
<1>6. QED BY <1>1, <1>2, <1>4, <1>5

(* An increment that cannot be read, taken or in hand, is heard of all the *)
(* same, and missed from then on.                                          *)
LEMMA UnreadableBinanceInv ==
  ASSUME IInv, UnreadableBinance, UNCHANGED OfOthers PROVE IInv'
<1>1. /\ PlacesOK' /\ pc["io"] \in {"idle", "compare"} /\ pc'["io"] = "idle"
      /\ pc'["main"] = pc["main"] /\ exchange = "BINANCE" /\ stream # <<>>
  BY IoGoes DEF UnreadableBinance, IoPlaces, Types, IInv
<1>2. /\ UNCHANGED <<book, lastUpdateId, hasSnapshot, fresh, inCooldown, calls, timers, own,
                     watched, next>>
      /\ Finish /\ heard' = Max({heard, hand.id}) /\ missed' = TRUE
      /\ unreadable < MaxUnreadable /\ unreadable' = unreadable + 1
  BY DEF UnreadableBinance, Unread, timer
<1>3. /\ hand.id \in 1..Now /\ hand = stream[1] /\ Now \in Nat
      /\ heard \in Nat /\ heard <= Now /\ lastUpdateId \in Nat /\ lastUpdateId <= heard
      /\ Len(stream) = 1 /\ feeding => hand.id = Now
  BY <1>1, HandKnown DEF Types, Known, IInv
<1>4. heard' = IF heard < hand.id THEN hand.id ELSE heard
  BY <1>2, <1>3, MaxOfTwo
<1>5. /\ heard' \in Nat \ {0} /\ heard' <= Now /\ heard <= heard'
      /\ Len(stream) = 1 /\ feeding => heard' = Now
  BY <1>3, <1>4
<1>6. /\ stream' \in Seq(Message)
      /\ \A i \in 1..Len(stream') : stream'[i].id <= Now
      /\ Chain'
      /\ stream' # <<>> =>
           stream'[1] = stream[2]
           /\ (stream[2].kind = "update" => stream[2].id = stream[1].id + 1)
  BY <1>1, <1>2, <1>5, Finished DEF OfOthers
<1>7. next = "idle"
  BY <1>1 DEF IInv, Control
<1>8. Types'
  <2>1. unreadable' \in 0..MaxUnreadable /\ missed' \in BOOLEAN
    BY <1>2, SnapshotsBounds DEF Types, IInv
  <2>2. QED BY <1>1, <1>2, <1>5, <2>1 DEF Types, IInv, OfOthers
<1>9. Lists' /\ Known'
  BY <1>2, <1>3, <1>5, <1>6 DEF IInv, Lists, Known, Now, OfOthers
<1>10. Limited' /\ Control'
  BY <1>1, <1>2, <1>7 DEF IInv, Limited, Checking, Restarting, Control, Holding, OfOthers
<1>11. NextFollows'
  <2>1. stream' # <<>> => stream'[1].id = hand.id + 1
    <3>1. stream' # <<>> => 1 \in 1..Len(stream')
      BY <1>6
    <3>2. stream' # <<>> => stream'[1].kind = "update"
      BY <1>1, <1>6, <3>1 DEF Chain, OfOthers
    <3>3. QED BY <1>3, <1>6, <3>2
  <2>2. \/ heard = 0 \/ hand.id = heard + 1 \/ hand.id = heard
        \/ hand.id <= heard /\ heard = lastUpdateId
    <3>1. CASE pc["io"] = "idle"
      <4>1. ~Holding
        BY <3>1, <1>7 DEF Holding
      <4>2. NextFollows
        BY <4>1, <1>1 DEF IInv, Showing, Binance
      <4>3. QED BY <4>2, <1>1, <1>3 DEF NextFollows
    <3>2. CASE pc["io"] = "compare"
      <4>1. Holding
        BY <3>2 DEF Holding
      <4>2. InHand
        BY <4>1, <1>1 DEF IInv, Showing, Binance
      <4>3. QED BY <4>2, <1>3 DEF InHand
    <3>3. QED BY <1>1, <3>1, <3>2
  <2>3. heard' = hand.id \/ (hand.id <= heard' /\ heard' = lastUpdateId')
    <3>1. CASE heard < hand.id
      BY <3>1, <1>4
    <3>2. CASE hand.id = heard
      BY <3>2, <1>3, <1>4
    <3>3. CASE hand.id <= heard /\ heard = lastUpdateId
      BY <3>3, <1>2, <1>3, <1>4
    <3>4. QED BY <2>2, <1>3, <3>1, <3>2, <3>3
  <2>4. QED BY <2>1, <2>3, <1>2, <1>3, <1>5 DEF NextFollows
<1>12. Showing'
  <2>1. ~Holding' /\ exchange' = "BINANCE"
    BY <1>1, <1>2, <1>7 DEF Holding, OfOthers
  <2>2. QED BY <2>1, <1>1, <1>2, <1>5, <1>11 DEF Showing, Binance
<1>13. QED BY <1>6, <1>8, <1>9, <1>10, <1>12 DEF IInv

(* A request that fails drops the message; the pair has no snapshot.       *)
LEMMA RequestFailsInv == ASSUME IInv, RequestFails, UNCHANGED OfOthers PROVE IInv'
<1>1. /\ PlacesOK' /\ pc["io"] = "request" /\ pc'["io"] = "idle" /\ pc'["main"] = pc["main"]
  BY IoGoes DEF RequestFails, IoPlaces, Types, IInv
<1>2. exchange = "BINANCE" /\ Holding /\ next = "idle"
  BY <1>1 DEF IInv, Control, Holding, Types
<1>3. /\ UNCHANGED <<book, lastUpdateId, hasSnapshot, fresh, calls, timers, own, watched,
                     next, heard, unreadable, missed>>
      /\ Finish /\ inCooldown' \in BOOLEAN
  BY DEF RequestFails, timer, history
<1>4. /\ stream # <<>> /\ InHand
      /\ stream' \in Seq(Message)
      /\ \A i \in 1..Len(stream') : stream'[i].id <= Now
      /\ Chain' /\ NextFollows'
  BY <1>2, <1>3, BinanceFinished
<1>5. Types'
  BY <1>1, <1>3 DEF IInv, Types, OfOthers
<1>6. Lists' /\ Known'
  BY <1>3, <1>4 DEF IInv, Lists, Known, Now, OfOthers
<1>7. Limited' /\ Control'
  BY <1>1, <1>2, <1>3 DEF IInv, Limited, Checking, Restarting, Control, Holding, OfOthers
<1>8. Showing'
  <2>1. ~Holding' /\ ~hasSnapshot' /\ exchange' = "BINANCE"
    BY <1>1, <1>2, <1>3, <1>4 DEF Holding, InHand, OfOthers
  <2>2. QED BY <2>1, <1>1, <1>4 DEF Showing, Binance
<1>9. QED BY <1>4, <1>5, <1>6, <1>7, <1>8 DEF IInv

(* A request that succeeds: the snapshot is the exchange's book of now.    *)
LEMMA RequestSucceedsInv == ASSUME IInv, RequestSucceeds, UNCHANGED OfOthers PROVE IInv'
<1> USE DEF IInv, OfOthers
<1>1. /\ PlacesOK' /\ pc["io"] = "request" /\ pc'["io"] = "mark" /\ pc'["main"] = pc["main"]
  BY IoGoes DEF RequestSucceeds, IoPlaces, Types
<1>2. exchange = "BINANCE" /\ Holding /\ stream # <<>>
  BY <1>1 DEF Control, Holding, Types
<1>3. /\ UNCHANGED <<stream, book, hasSnapshot, fresh, inCooldown, calls, timers, own, watched,
                     unreadable, missed>>
      /\ lastUpdateId' = Now /\ heard' = Now /\ next' = "merge"
  BY DEF RequestSucceeds, timer
<1>4. hand.id \in 1..Now /\ hand = stream[1] /\ Now \in Nat /\ Now # 0
  BY <1>2, HandKnown
<1>5. Types' /\ Lists'
  BY <1>1, <1>3, <1>4 DEF Types, Lists
<1>6. Known'
  BY <1>3, <1>4 DEF Known, Now
<1>7. Chain'
  BY <1>2, <1>3, <1>4 DEF Chain, Now
<1>8. Limited' /\ Control'
  BY <1>1, <1>2, <1>3 DEF Limited, Checking, Restarting, Control, Holding
<1>9. Showing'
  <2>1. Holding' /\ exchange' = "BINANCE"
    BY <1>2, <1>3 DEF Holding
  <2>2. InHand'
    BY <1>1, <1>3, <1>4 DEF InHand
  <2>3. QED BY <2>1, <2>2 DEF Showing, Binance
<1>10. QED BY <1>5, <1>6, <1>7, <1>8, <1>9

(* An answer that cannot be read, before it is marked or after: what is in *)
(* hand goes on as it is, and something was missed.                        *)
LEMMA AnswerUnreadableInv ==
  ASSUME IInv, RequestUnreadable \/ MergeUnreadable, UNCHANGED OfOthers PROVE IInv'
<1> USE DEF IInv, OfOthers
<1>1. /\ PlacesOK' /\ pc["io"] \in {"request", "merge"} /\ pc'["io"] = "compare"
      /\ pc'["main"] = pc["main"]
  BY IoGoes DEF RequestUnreadable, MergeUnreadable, IoPlaces, Types
<1>2. exchange = "BINANCE" /\ Holding /\ stream # <<>> /\ next = "idle"
  BY <1>1 DEF Control, Holding, Types
<1>3. /\ UNCHANGED <<stream, book, lastUpdateId, hasSnapshot, fresh, inCooldown, calls,
                     timers, own, watched, next, heard>>
      /\ missed' = TRUE /\ unreadable < MaxUnreadable /\ unreadable' = unreadable + 1
  BY DEF RequestUnreadable, MergeUnreadable, Unread, timer
<1>4. Types' /\ Lists'
  <2>1. unreadable' \in 0..MaxUnreadable /\ missed' \in BOOLEAN
    BY <1>3, SnapshotsBounds DEF Types
  <2>2. QED BY <1>1, <1>3, <2>1 DEF Types, Lists
<1>5. Known' /\ Chain'
  BY <1>3 DEF Known, Now, Chain
<1>6. Limited' /\ Control'
  BY <1>1, <1>2, <1>3 DEF Limited, Checking, Restarting, Control, Holding
<1>7. Showing'
  <2>1. Holding' /\ exchange' = "BINANCE"
    BY <1>1, <1>2 DEF Holding
  <2>2. InHand
    BY <1>2 DEF Showing, Binance
  <2>3. InHand'
    BY <2>2, <1>1, <1>2, <1>3 DEF InHand
  <2>4. QED BY <2>1, <2>3 DEF Showing, Binance
<1>8. QED BY <1>4, <1>5, <1>6, <1>7

(* The snapshot's levels are merged, if it has any.                        *)
LEMMA MergeSnapshotInv == ASSUME IInv, MergeSnapshot, UNCHANGED OfOthers PROVE IInv'
<1> USE DEF IInv, OfOthers
<1>1. /\ PlacesOK' /\ pc["io"] = "merge" /\ pc'["main"] = pc["main"]
      /\ \/ pc'["io"] = "mark" /\ next' = "compare"
         \/ pc'["io"] = "compare" /\ next' = next
  BY IoGoes DEF MergeSnapshot, IoPlaces, Types
<1>2. exchange = "BINANCE" /\ Holding /\ stream # <<>> /\ next = "idle"
  BY <1>1 DEF Control, Holding, Types
<1>3. InHand /\ heard = lastUpdateId /\ heard # 0
  BY <1>1, <1>2 DEF Showing, Binance, InHand
<1>4. /\ UNCHANGED <<stream, lastUpdateId, hasSnapshot, inCooldown, calls, timers, own, watched,
                     heard, unreadable>>
      /\ missed' = FALSE
      /\ \/ Listed(heard) # {} /\ Merge(Listed(heard), heard)
         \/ Listed(heard) = {} /\ UNCHANGED <<book, fresh>>
  BY <1>3 DEF MergeSnapshot, timer, history
<1>5. heard \in 1..Now /\ Now \in Nat
  BY <1>2, <1>3, HandKnown
<1>6. book' \in Level /\ (\A p \in Prices : book'[p] <= Now) /\ fresh' \in BOOLEAN
  BY <1>4, <1>5, BookTypes DEF Types, Known
<1>7. Types' /\ Lists'
  BY <1>1, <1>4, <1>6 DEF Types, Lists
<1>8. Known' /\ Chain'
  BY <1>4, <1>6 DEF Known, Now, Chain
<1>9. Limited' /\ Control'
  BY <1>1, <1>2, <1>4 DEF Limited, Checking, Restarting, Control, Holding
<1>10. Shows(heard)'
  BY <1>4 DEF Shows, Merge, Listed
<1>11. Showing'
  <2>1. Holding' /\ exchange' = "BINANCE"
    BY <1>1, <1>2 DEF Holding
  <2>2. InHand'
    BY <1>1, <1>2, <1>3, <1>4, <1>10 DEF InHand
  <2>3. QED BY <2>1, <2>2 DEF Showing, Binance
<1>12. QED BY <1>7, <1>8, <1>9, <1>11

(* What the increment in hand does not say stays as it was listed before.  *)
LEMMA NotSaidShown ==
  ASSUME IInv, heard > 1, heard \in 1..Now, Shows(heard - 1), NEW p \in Prices,
         p \notin Said(heard), server[heard][p] # 0
  PROVE  book[p] = server[heard][p]
BY SaidOrBefore DEF Shows

(* A skipped increment: the snapshot has it, or it lists nothing.          *)
LEMMA SkipInv == ASSUME IInv, SkipIncrement, UNCHANGED OfOthers PROVE IInv'
<1>1. /\ PlacesOK' /\ pc["io"] = "compare" /\ pc'["io"] = "idle" /\ pc'["main"] = pc["main"]
  BY IoGoes DEF SkipIncrement, IoPlaces, Types, IInv
<1>2. exchange = "BINANCE" /\ Holding /\ next = "idle"
  BY <1>1 DEF IInv, Control, Holding, Types
<1>3. /\ UNCHANGED <<book, lastUpdateId, hasSnapshot, fresh, inCooldown, calls, timers, own,
                     watched, next, heard, unreadable, missed>>
      /\ Finish /\ Skipped
  BY DEF SkipIncrement, timer, history
<1>4. /\ stream # <<>> /\ InHand /\ hand = stream[1] /\ hand.id \in 1..Now
      /\ stream' \in Seq(Message)
      /\ \A i \in 1..Len(stream') : stream'[i].id <= Now
      /\ Chain' /\ NextFollows'
  BY <1>2, <1>3, BinanceFinished
<1>5. Types'
  BY <1>1, <1>3 DEF IInv, Types, OfOthers
<1>6. Lists' /\ Known'
  BY <1>3, <1>4 DEF IInv, Lists, Known, Now, OfOthers
<1>7. Limited' /\ Control'
  BY <1>1, <1>2, <1>3 DEF IInv, Limited, Checking, Restarting, Control, Holding, OfOthers
<1>8. heard # 0 /\ (~missed => Shows(heard))
  <2>1. heard # 0
    BY <1>4 DEF InHand
  <2>2. CASE stream[1].id = heard /\ lastUpdateId < heard /\ heard > 1 /\ Shows(heard - 1)
    <3>1. Said(heard) \cap Listed(heard) = {}
      BY <1>3, <1>4, <2>2 DEF Skipped, IInv, Types
    <3>2. \A p \in Prices : server[heard][p] # 0 => book[p] = server[heard][p]
      BY <3>1, <2>2, <1>4, NotSaidShown DEF Listed
    <3>3. QED BY <2>1, <3>2 DEF Shows
  <2>3. QED BY <2>1, <2>2, <1>1, <1>4 DEF InHand
<1>9. Showing'
  <2>1. ~Holding' /\ exchange' = "BINANCE"
    BY <1>1, <1>2, <1>3 DEF Holding, OfOthers
  <2>2. heard' # 0 /\ (~missed' => Shows(heard)')
    BY <1>3, <1>8 DEF Shows, OfOthers
  <2>3. QED BY <2>1, <2>2, <1>1, <1>4 DEF Showing, Binance
<1>10. QED BY <1>4, <1>5, <1>6, <1>7, <1>9 DEF IInv

(* An increment taken in is the one that follows.                          *)
LEMMA BinanceApplyInv == ASSUME IInv, BinanceApply, UNCHANGED OfOthers PROVE IInv'
<1>1. /\ PlacesOK' /\ pc["io"] = "compare" /\ pc'["io"] = "mark" /\ pc'["main"] = pc["main"]
  BY IoGoes DEF BinanceApply, IoPlaces, Types, IInv
<1>2. exchange = "BINANCE" /\ Holding /\ next = "idle"
  BY <1>1 DEF IInv, Control, Holding, Types
<1>3. /\ UNCHANGED <<lastUpdateId, hasSnapshot, inCooldown, calls, timers, own,
                     watched, next, heard, unreadable, missed>>
      /\ Finish /\ ~Skipped /\ Merge(Said(hand.id), hand.id)
  BY DEF BinanceApply, timer, history
<1>4. /\ stream # <<>> /\ InHand /\ hand = stream[1] /\ hand.id \in 1..Now
      /\ stream' \in Seq(Message)
      /\ \A i \in 1..Len(stream') : stream'[i].id <= Now
      /\ Chain' /\ NextFollows'
  BY <1>2, <1>3, BinanceFinished
<1>5. book' \in Level /\ (\A p \in Prices : book'[p] <= Now) /\ fresh' \in BOOLEAN
  BY <1>3, <1>4, BookTypes
<1>6. Types'
  BY <1>1, <1>3, <1>5 DEF IInv, Types, OfOthers
<1>7. Lists' /\ Known'
  BY <1>3, <1>4, <1>5 DEF IInv, Lists, Known, Now, OfOthers
<1>8. Limited' /\ Control'
  BY <1>1, <1>2, <1>3 DEF IInv, Limited, Checking, Restarting, Control, Holding, OfOthers
<1>9. /\ hand.id = heard /\ heard \in 1..Now
      /\ ~missed => heard > 1 /\ Shows(heard - 1)
  BY <1>1, <1>3, <1>4 DEF InHand, Skipped, IInv, Types
<1>10. ~missed => Shows(heard)'
  <2> SUFFICES ASSUME ~missed, NEW p \in Prices, server[heard][p] # 0
               PROVE  book'[p] = server[heard][p]
    BY <1>3 DEF Shows, OfOthers
  <2>1. book'[p] = IF p \in Said(heard) THEN server[heard][p] ELSE book[p]
    BY <1>3, <1>9 DEF Merge
  <2>2. p \notin Said(heard) => book[p] = server[heard][p]
    BY <1>9, NotSaidShown
  <2>3. QED BY <2>1, <2>2
<1>11. Showing'
  <2>1. ~Holding' /\ exchange' = "BINANCE"
    BY <1>1, <1>2, <1>3 DEF Holding, OfOthers
  <2>2. heard' # 0
    BY <1>3, <1>9
  <2>3. QED BY <2>1, <2>2, <1>1, <1>3, <1>4, <1>10 DEF Showing, Binance
<1>12. QED BY <1>4, <1>6, <1>7, <1>8, <1>11 DEF IInv

-----------------------------------------------------------------------------
LEMMA IoInv == ASSUME IInv, IoThread PROVE IInv'
<1>1. CASE ResubscribeOrderBook("io")
  BY <1>1, ResubscribeInv
<1>2. CASE ~ResubscribeOrderBook("io")
  <2>1. UNCHANGED OfOthers
    BY <1>2 DEF IoThread, OfOthers
  <2>2. CASE UnreadableKraken \/ KrakenUpdate \/ KrakenApply
    BY <2>1, <2>2, UnreadableInv, KrakenUpdateInv, KrakenApplyInv
  <2>3. CASE BinanceUpdate \/ UnreadableBinance
    BY <2>1, <2>3, BinanceUpdateInv, UnreadableBinanceInv
  <2>7. CASE RequestFails \/ RequestSucceeds \/ RequestUnreadable \/ MergeUnreadable
    BY <2>1, <2>7, RequestFailsInv, RequestSucceedsInv, AnswerUnreadableInv
  <2>4. CASE MergeSnapshot \/ SkipIncrement \/ BinanceApply
    BY <2>1, <2>4, MergeSnapshotInv, SkipInv, BinanceApplyInv
  <2>5. CASE Mark \/ TimerRestarts
    BY <2>1, <2>5, MarkInv, TimerRestartsInv
  <2>6. QED BY <1>2, <2>2, <2>3, <2>4, <2>5, <2>7 DEF IoThread
<1>3. QED BY <1>1, <1>2

LEMMA StepInv == IInv /\ [Next]_vars => IInv'
<1> SUFFICES ASSUME IInv, [Next]_vars PROVE IInv'
  OBVIOUS
<1>1. CASE ServerUpdates \/ FeedBegins \/ FeedEnds \/ ServerAnswers \/ Ages
  BY <1>1, ServerUpdatesInv, FeedBeginsInv, FeedEndsInv, ServerAnswersInv, AgesInv
<1>2. CASE MainThread \/ IoThread
  BY <1>2, MainInv, IoInv
<1>3. CASE UNCHANGED vars
  BY <1>3, StutterInv
<1>4. QED BY <1>1, <1>2, <1>3 DEF Next

LEMMA SeqOfElements ==
  ASSUME NEW R, NEW S, NEW s \in Seq(R), \A i \in 1..Len(s) : s[i] \in S
  PROVE  s \in Seq(S)
OBVIOUS

(* The invariant holds of every state.                                     *)
THEOREM Inductive == Spec => []IInv
<1>1. Init => IInv
  BY InitInv
<1>2. QED BY <1>1, StepInv, PTL DEF Spec

(* The state of the pair has its types, and there are never more validity  *)
(* timers than the bound, those about to be started included               *)
(* (api_exchange.h 121-151).                                               *)
THEOREM TypeCorrect == Spec => []TypeOK
<1>1. ASSUME IInv PROVE TypeOK
  <2> USE <1>1 DEF IInv
  <2>1. Now \in Nat
    BY DEF Lists, Now
  <2>2. \A id \in 1..Now : server[id] \in [Prices -> 0..id]
    <3>1. \A id \in 1..Now : server[id] \in Level
      BY DEF Lists, Now
    <3>2. QED BY <3>1 DEF Known, Level
  <2>3. stream \in Seq([kind : {"update", "snapshot"}, id : 1..Now])
    <3>1. \A i \in 1..Len(stream) : stream[i] \in [kind : {"update", "snapshot"}, id : 1..Now]
      <4>1. \A i \in 1..Len(stream) : stream[i] \in Message /\ stream[i].id <= Now
        BY DEF Lists, Known
      <4>2. QED BY <4>1, <2>1 DEF Message
    <3>2. stream \in Seq(Message)
      BY DEF Lists
    <3>3. QED BY <3>1, <3>2, SeqOfElements
  <2>4. book \in [Prices -> 0..Now]
    BY <2>1 DEF Types, Known, Level
  <2>5. lastUpdateId \in 0..Now /\ heard \in 0..Now
    BY <2>1 DEF Types, Known
  <2>6. timers \in 0..MaxTimers
    BY SnapshotsBounds DEF Types, Limited
  <2>7. requests \in Seq({"subscribe", "unsubscribe"})
    BY DEF Lists
  <2>8. QED BY <2>2, <2>3, <2>4, <2>5, <2>6, <2>7
    DEF TypeOK, Types, PlacesOK, MainPlaces, IoPlaces
<1>2. QED BY <1>1, Inductive, PTL

(* Between messages the book shows what was last heard: every level of     *)
(* Binance's while it is marked as having a snapshot, all of Kraken's,     *)
(* whatever was dropped before a snapshot and wherever main's check fell   *)
(* in between, as long as the snapshot and all since could be read         *)
(* (api_binance.cpp 92-109, 175-231, api_kraken.cpp 246-305).              *)
THEOREM BookIsAsHeard == Spec => []BookAsHeard
<1>1. ASSUME IInv PROVE BookAsHeard
  <2>1. CASE exchange = "KRAKEN"
    BY <1>1, <2>1 DEF IInv, Showing, Kraken, BookAsHeard
  <2>2. CASE exchange = "BINANCE"
    <3>1. pc["io"] = "idle" => ~Holding
      BY <1>1 DEF IInv, Control, Holding
    <3>2. pc["io"] = "idle" /\ hasSnapshot /\ ~missed => Shows(heard)
      BY <1>1, <2>2, <3>1 DEF IInv, Showing, Binance
    <3>3. QED BY <2>2, <3>2 DEF BookAsHeard, Shows, Listed
  <2>3. QED BY <1>1, <2>1, <2>2 DEF IInv, Types
<1>2. QED BY <1>1, Inductive, PTL

(* A validity timer, once started, is always followed by another: there is *)
(* one in the store, or a thread about to start one, though the callback   *)
(* and a snapshot on the IO thread stop and start it without a lock        *)
(* (api_exchange.h 121-151).                                               *)
THEOREM CheckNeverStops == Spec => []CheckGoesOn
<1>1. IInv => CheckGoesOn
  BY DEF IInv, Limited, Checking, Restarting, CheckGoesOn
<1>2. QED BY <1>1, Inductive, PTL
-----------------------------------------------------------------------------
(* Subscribing again.  A flag that is clear, or an unsubscription that     *)
(* stands last, is one a thread is about to make good.                     *)
Standing == IF requests # <<>> THEN Last(requests) = "subscribe" ELSE ticker
Flagging == \E t \in {"main", "io"} : pc[t] \in {"unsubscribing", "subscribe"}
Sending == \E t \in {"main", "io"} : pc[t] \in {"subscribe", "subscribing"}
Subscribing ==
  /\ pc["main"] \notin {"start", "reset"} => subscribed \/ Flagging
  /\ pc["main"] \notin {"start", "opening"} => Standing \/ Sending

(* A step that subscribes again.                                           *)
LEMMA ResubscribeKeeps ==
  ASSUME IInv, Subscribing, NEW t \in {"main", "io"}, ResubscribeOrderBook(t)
  PROVE  Subscribing'
<1>1. /\ \A u \in {"main", "io"} : u # t => pc'[u] = pc[u]
      /\ pc["main"] \in {"start", "reset", "opening"} => pc'["main"] = pc["main"]
  <2>1. PICK from \in {"resubscribe", "unsubscribe", "unsubscribing", "subscribe",
                       "subscribing"},
             to \in {"unsubscribe", "unsubscribing", "subscribe", "subscribing",
                     "idle", "rearm"} :
          Go(t, from, to)
    BY DEF ResubscribeOrderBook, TestSubscribed, Unsubscribe, Subscribe, Resubscribed
  <2>2. QED BY <2>1 DEF Go, IInv, Types, PlacesOK
<1>2. CASE TestSubscribed(t)
  <2>1. /\ pc[t] = "resubscribe" /\ requests' = requests /\ subscribed' = subscribed
        /\ ticker' = ticker
    BY <1>2 DEF TestSubscribed, Go, ResubscribeOrderBook
  <2>2. (Flagging => Flagging') /\ (Sending => Sending') /\ Standing' = Standing
    BY <2>1, <1>1 DEF Flagging, Sending, Standing
  <2>3. QED BY <2>1, <2>2, <1>1 DEF Subscribing
<1>3. CASE Unsubscribe(t)
  <2>1. CASE Go(t, "unsubscribe", "unsubscribing") /\ subscribed' = FALSE /\ UNCHANGED requests
    <3>1. pc[t] = "unsubscribe" /\ pc'[t] = "unsubscribing" /\ ticker' = ticker
      BY <2>1 DEF Go, ResubscribeOrderBook, IInv, Types, PlacesOK
    <3>2. Flagging' /\ (Sending => Sending') /\ Standing' = Standing
      BY <2>1, <3>1, <1>1 DEF Flagging, Sending, Standing
    <3>3. QED BY <3>2, <1>1 DEF Subscribing
  <2>2. CASE Go(t, "unsubscribing", "subscribe") /\ UNCHANGED subscribed
    <3>1. pc[t] = "unsubscribing" /\ pc'[t] = "subscribe"
      BY <2>2 DEF Go, IInv, Types, PlacesOK
    <3>2. Flagging' /\ Sending'
      BY <3>1 DEF Flagging, Sending
    <3>3. QED BY <3>2 DEF Subscribing
  <2>3. QED BY <1>3, <2>1, <2>2 DEF Unsubscribe
<1>4. CASE Subscribe(t)
  <2>1. CASE Go(t, "subscribe", "subscribing") /\ subscribed' = TRUE
    <3>1. pc'[t] = "subscribing"
      BY <2>1 DEF Go, IInv, Types, PlacesOK
    <3>2. Sending'
      BY <3>1 DEF Sending
    <3>3. QED BY <2>1, <3>2 DEF Subscribing
  <2>2. CASE Go(t, "subscribing", Resubscribed(t)) /\ Send("subscribe") /\ UNCHANGED subscribed
    <3>1. pc[t] = "subscribing"
      BY <2>2 DEF Go
    <3>2. requests' # <<>> /\ Last(requests') = "subscribe"
      BY <2>2, RequestSent DEF IInv, ResubscribeOrderBook
    <3>3. Standing' /\ (Flagging => Flagging')
      BY <3>1, <3>2, <1>1 DEF Standing, Flagging
    <3>4. QED BY <2>2, <3>3, <1>1 DEF Subscribing
  <2>3. QED BY <1>4, <2>1, <2>2 DEF Subscribe
<1>5. QED BY <1>2, <1>3, <1>4 DEF ResubscribeOrderBook

(* The exchange's answer, and the rest of main and of the IO thread.       *)
LEMMA OthersKeep ==
  ASSUME IInv, Subscribing, [Next]_vars, \A t \in {"main", "io"} : ~ResubscribeOrderBook(t)
  PROVE  Subscribing'
<1>1. CASE ServerUpdates \/ FeedBegins \/ FeedEnds \/ Ages \/ UNCHANGED vars
  <2>1. UNCHANGED <<pc, subscribed, requests, ticker>>
    BY <1>1 DEF ServerUpdates, FeedBegins, FeedEnds, Ages, vars, network, flags
  <2>2. QED BY <2>1 DEF Subscribing, Flagging, Sending, Standing
<1>2. CASE ServerAnswers
  <2>1. /\ UNCHANGED <<pc, subscribed>> /\ requests # <<>>
        /\ requests' = <<>> => requests[1] = Last(requests)
        /\ requests' # <<>> => Last(requests') = Last(requests)
        /\ ticker' = (requests[1] = "subscribe")
    BY <1>2, Answered DEF ServerAnswers, flags, IInv
  <2>2. Standing' = Standing
    BY <2>1 DEF Standing
  <2>3. QED BY <2>1, <2>2 DEF Subscribing, Flagging, Sending
<1>3. CASE MainThread
  <2>1. pc'["io"] = pc["io"] /\ ticker' = ticker
    <3>1. PICK from, to : Go("main", from, to)
      BY <1>3 DEF MainThread, SubscribeOrderBook, ResetState, Fire, CheckMissing, CheckAge,
                  ClearSnapshot, Restore, Rearm
    <3>2. QED BY <3>1, <1>3 DEF Go, IInv, Types, PlacesOK, MainThread
  <2>2. CASE SubscribeOrderBook
    <3>1. CASE exchange = "KRAKEN" /\ Go("main", "start", "opening") /\ subscribed' = TRUE
      <4>1. pc'["main"] = "opening"
        BY <3>1 DEF Go, IInv, Types, PlacesOK
      <4>2. QED BY <3>1, <4>1 DEF Subscribing
    <3>2. CASE Go("main", "opening", "idle") /\ Send("subscribe") /\ UNCHANGED subscribed
      <4>1. pc["main"] = "opening"
        BY <3>2 DEF Go
      <4>2. requests' # <<>> /\ Last(requests') = "subscribe"
        BY <3>2, RequestSent, <1>3 DEF IInv, MainThread
      <4>3. Standing' /\ (Flagging => Flagging')
        BY <2>1, <4>1, <4>2 DEF Standing, Flagging
      <4>4. QED BY <3>2, <4>1, <4>3 DEF Subscribing
    <3>3. CASE Go("main", "start", "reset") /\ Send("subscribe")
      <4>1. pc'["main"] = "reset"
        BY <3>3 DEF Go, IInv, Types, PlacesOK
      <4>2. requests' # <<>> /\ Last(requests') = "subscribe"
        BY <3>3, RequestSent, <1>3 DEF IInv, MainThread
      <4>3. QED BY <4>1, <4>2 DEF Subscribing, Standing
    <3>4. QED BY <2>2, <3>1, <3>2, <3>3 DEF SubscribeOrderBook
  <2>3. CASE ResetState
    <3>1. pc["main"] = "reset" /\ subscribed' = TRUE /\ requests' = requests
      BY <2>3 DEF ResetState, Go
    <3>2. Standing' = Standing /\ (Sending => Sending')
      BY <3>1, <2>1 DEF Standing, Sending
    <3>3. QED BY <3>1, <3>2 DEF Subscribing
  <2>4. CASE Fire \/ CheckMissing \/ CheckAge \/ ClearSnapshot \/ Restore \/ Rearm
    <3>1. /\ pc["main"] \in {"idle", "check", "age", "stale", "restore", "rearm"}
          /\ UNCHANGED <<requests, subscribed>>
      BY <2>4 DEF Fire, CheckMissing, CheckAge, ClearSnapshot, Restore, Rearm, Go, flags
    <3>2. Standing' = Standing /\ (Sending => Sending') /\ (Flagging => Flagging')
      BY <3>1, <2>1 DEF Standing, Sending, Flagging
    <3>3. QED BY <3>1, <3>2 DEF Subscribing
  <2>5. QED BY <1>3, <2>2, <2>3, <2>4 DEF MainThread
<1>4. CASE IoThread
  <2>1. UNCHANGED <<requests, ticker, subscribed>>
    BY <1>4 DEF IoThread
  <2>2. /\ pc'["main"] = pc["main"]
        /\ pc["io"] \notin {"unsubscribing", "subscribe", "subscribing"}
    <3>1. PICK from, to : Go("io", from, to) /\ from \in
            {"idle", "update", "request", "merge", "compare", "mark", "start"}
      BY <1>4 DEF IoThread, UnreadableKraken, KrakenUpdate, KrakenApply, BinanceUpdate,
                  UnreadableBinance, RequestFails, RequestSucceeds, RequestUnreadable,
                  MergeSnapshot, MergeUnreadable, SkipIncrement, BinanceApply, Mark,
                  TimerRestarts, Take
    <3>2. QED BY <3>1 DEF Go, IInv, Types, PlacesOK
  <2>3. Standing' = Standing /\ (Sending => Sending') /\ (Flagging => Flagging')
    BY <2>1, <2>2 DEF Standing, Sending, Flagging
  <2>4. QED BY <2>1, <2>2, <2>3 DEF Subscribing
<1>5. QED BY <1>1, <1>2, <1>3, <1>4 DEF Next

(* Whatever the order of the flag and the requests of two threads that     *)
(* subscribe again, when neither is at it the flag is set and the          *)
(* subscription stands (api_kraken.cpp 34-96).                             *)
THEOREM StaysSubscribed == Spec => []StillSubscribed
<1>1. Init => Subscribing
  BY DEF Init, Subscribing
<1>2. IInv /\ Subscribing /\ [Next]_vars => Subscribing'
  BY ResubscribeKeeps, OthersKeep
<1>3. IInv /\ Subscribing => StillSubscribed
  BY DEF Subscribing, Flagging, Sending, Standing, StillSubscribed, IInv, Types, PlacesOK
<1>4. QED BY <1>1, <1>2, <1>3, Inductive, PTL DEF Spec
=============================================================================
