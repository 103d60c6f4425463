------------------------- MODULE OrderManagerProofs -------------------------
(***************************************************************************)
(* Proofs about module OrderManager, for every set of IO threads, every    *)
(* delay, every bound and whatever a dangling pointer may read.            *)
(*                                                                         *)
(* The argument has three layers, each an inductive invariant that may use *)
(* the ones below it:                                                      *)
(*   Shape    types, the maps, and where the threads may be;               *)
(*   Settled  what EXECUTED_AS_PLANNED means, and that a cancellation or a *)
(*            settling already decided on can only hit an opportunity that *)
(*            is not;                                                      *)
(*   Owned    whose the timers are, as long as nobody shares their ids.    *)
(***************************************************************************)
EXTENDS OrderManager, FiniteSetTheorems, TLAPS

-----------------------------------------------------------------------------
(* Shape.                                                                  *)

AddSteps == {"writeId", "insert"}
JobSteps == CancelSteps \cup StopSteps \cup JudgeSteps
Steps == {"idle", "noOrders", "blocked"} \cup PlacingSteps \cup JobSteps

BooksTyped ==
  /\ nextOppId \in 1..(MaxOpps + 1)
  /\ opp \in [OppIds -> OppRecord]
  /\ nextOrderId \in 1..(2 * MaxOpps + 1)
  /\ order \in [OrderIds -> OrderRecord]
StoreTyped ==
  /\ now \in Nat
  /\ timers \subseteq TimerRecord /\ indexed \subseteq timers
  /\ batch \subseteq TimerRecord /\ robbed \subseteq TimerRecord
IdsTyped ==
  /\ nextTimerId \in Nat \ {0}
  /\ shared \subseteq drawn /\ drawn \subseteq Nat \ {0}
  /\ promised \subseteq OppIds
ControlTyped ==
  /\ pc \in [Threads -> Steps]
  /\ job \in [Threads -> 0..MaxOpps]
  /\ adding \in [Threads -> TimerRecord \cup {NoTimer}]
  /\ seen \in OrderStates

LEMMA TypeParts == TypeOK <=> BooksTyped /\ StoreTyped /\ IdsTyped /\ ControlTyped
BY DEF TypeOK, BooksTyped, StoreTyped, IdsTyped, ControlTyped, Steps, JobSteps

LEMMA TypeJoin == BooksTyped' /\ StoreTyped' /\ IdsTyped' /\ ControlTyped' => TypeOK'
BY DEF TypeOK, BooksTyped, StoreTyped, IdsTyped, ControlTyped, Steps, JobSteps

Placed == {o \in OppIds : opp[o].buyId # 0}

(* Two order ids are spent for each opportunity that has its orders.       *)
Counted == nextOrderId = 2 * Cardinality(Placed) + 1

(* A thread in handleOpportunity works on an accepted opportunity, alone,  *)
(* which has no orders before PlaceOrders and both after.                  *)
Unarmed(t) ==
  pc[t] = "arm" \/ (pc[t] \in AddSteps /\ adding[t].type = "OPPORTUNITY_TIMEOUT")
Unplaced(t) == Unarmed(t) \/ pc[t] = "place"
PlacersKnow ==
  \A t \in Threads : pc[t] \in PlacingSteps =>
    /\ job[t] \in Accepted
    /\ Unplaced(t) => opp[job[t]].buyId = 0 /\ opp[job[t]].sellId = 0
    /\ ~Unplaced(t) => HasOrders(job[t])
PlacersAlone ==
  \A t, u \in Threads :
    t # u /\ pc[t] \in PlacingSteps /\ pc[u] \in PlacingSteps => job[t] # job[u]

(* What is being added is the timeout of that opportunity or a report.     *)
Adds(t) ==
  /\ adding[t] \in TimerRecord
  /\ adding[t].type = "OPPORTUNITY_TIMEOUT" => adding[t].ref = job[t]
  /\ adding[t].type = "ORDER_TEST_STATE_CHANGE" => adding[t].ref \in 1..(nextOrderId - 1)
AddersKnow == \A t \in Threads : pc[t] \in AddSteps => Adds(t)

(* The main thread in a callback, where no other thread is.                *)
CallbackKnows ==
  /\ \A t \in Threads : pc[t] \in JobSteps => t = Main
  /\ pc[Main] = "noOrders" => job[Main] \in Accepted
  /\ pc[Main] \in JobSteps => job[Main] \in Accepted /\ HasOrders(job[Main])

(* A report timer names an order in the map.                               *)
ReportsKnown ==
  \A tm \in timers \cup batch :
    tm.type = "ORDER_TEST_STATE_CHANGE" => tm.ref \in 1..(nextOrderId - 1)

Shape ==
  /\ TypeOK
  /\ Counted
  /\ PlacersKnow
  /\ PlacersAlone
  /\ AddersKnow
  /\ CallbackKnows
  /\ ReportsKnown
  /\ MapsConsistent

LEMMA MainIsThread == Main \in Threads
BY DEF Threads

LEMMA AcceptedAreOpps == ASSUME TypeOK PROVE Accepted \subseteq OppIds
BY BoundsAssumption DEF TypeOK, Accepted, OppIds

(* The set of placed opportunities is finite and no larger than MaxOpps.   *)
LEMMA PlacedBounded ==
  /\ IsFiniteSet(Placed)
  /\ Cardinality(Placed) \in Nat
  /\ \A o \in OppIds : o \notin Placed => Cardinality(Placed) + 1 <= MaxOpps
<1>1. IsFiniteSet(OppIds) /\ Cardinality(OppIds) = MaxOpps
  BY BoundsAssumption, FS_Interval DEF OppIds
<1>2. IsFiniteSet(Placed) /\ Cardinality(Placed) \in Nat
  BY <1>1, FS_Subset, FS_CardinalityType DEF Placed
<1>3. ASSUME NEW o \in OppIds, o \notin Placed
      PROVE  Cardinality(Placed) + 1 <= MaxOpps
  <2>1. Placed \cup {o} \subseteq OppIds
    BY <1>3 DEF Placed
  <2>2. Cardinality(Placed \cup {o}) = Cardinality(Placed) + 1
    BY <1>2, <1>3, FS_AddElement
  <2>3. QED BY <2>1, <2>2, <1>1, FS_Subset
<1>4. QED BY <1>2, <1>3

LEMMA ShapeInit == Init => Shape
<1> SUFFICES ASSUME Init PROVE Shape
  OBVIOUS
<1>1. TypeOK
  <2>1. BooksTyped
    BY BoundsAssumption DEF Init, BooksTyped, OppIds, OrderIds, OppRecord, OrderRecord,
       OppStates, OrderStates, OpenOrderStates
  <2>2. StoreTyped /\ IdsTyped
    BY DEF Init, StoreTyped, IdsTyped
  <2>3. ControlTyped
    BY BoundsAssumption DEF Init, ControlTyped, Steps, OrderStates, OpenOrderStates
  <2>4. QED BY <2>1, <2>2, <2>3, TypeParts
<1>2. Counted
  <2>1. Placed = {}
    BY DEF Init, Placed
  <2>2. QED BY <2>1, FS_EmptySet DEF Init, Counted
<1>3. \A t \in Threads : pc[t] \notin PlacingSteps /\ pc[t] \notin AddSteps
                         /\ pc[t] \notin JobSteps
  BY DEF Init, PlacingSteps, AddSteps, JobSteps, CancelSteps, StopSteps, JudgeSteps
<1>4. PlacersKnow /\ PlacersAlone /\ AddersKnow
  BY <1>3 DEF PlacersKnow, PlacersAlone, AddersKnow
<1>5. CallbackKnows
  BY <1>3, MainIsThread DEF Init, CallbackKnows
<1>6. ReportsKnown /\ MapsConsistent
  BY DEF Init, ReportsKnown, MapsConsistent
<1>7. QED BY <1>1, <1>2, <1>4, <1>5, <1>6 DEF Shape

(* Steps that change states and timer ids, but no order id and no map.     *)
SameOrders ==
  \A o \in OppIds : opp'[o].buyId = opp[o].buyId /\ opp'[o].sellId = opp[o].sellId
SameMaps ==
  /\ UNCHANGED <<nextOppId, nextOrderId>>
  /\ SameOrders
  /\ \A i \in OrderIds : order'[i].opp = order[i].opp

LEMMA MapsKept ==
  ASSUME Shape, SameMaps
  PROVE  /\ Counted'
         /\ MapsConsistent'
         /\ Accepted' = Accepted
         /\ \A o \in OppIds : HasOrders(o)' <=> HasOrders(o)
<1>1. Placed' = Placed
  BY DEF Placed, SameMaps, SameOrders
<1>2. Counted'
  BY <1>1 DEF Shape, Counted, SameMaps
<1>3. Accepted' = Accepted /\ Accepted \subseteq OppIds
  BY AcceptedAreOpps DEF Shape, Accepted, SameMaps
<1>4. 1..(nextOrderId - 1) \subseteq OrderIds
  BY BoundsAssumption DEF Shape, TypeOK, OrderIds
<1>5. MapsConsistent'
  BY <1>3, <1>4 DEF Shape, MapsConsistent, SameMaps, SameOrders
<1>6. QED BY <1>2, <1>3, <1>5 DEF HasOrders, SameMaps, SameOrders

LEMMA BooksSame == UNCHANGED books => SameMaps
BY DEF books, SameMaps, SameOrders

(* What the maps say of an order that exists.                              *)
LEMMA OrderOwned ==
  ASSUME Shape, NEW i \in 1..(nextOrderId - 1)
  PROVE  /\ i \in OrderIds
         /\ order[i].opp \in Accepted /\ order[i].opp \in OppIds
         /\ HasOrders(order[i].opp)
<1>1. order[i].opp \in Accepted /\ order[i].opp \in OppIds
  BY AcceptedAreOpps DEF Shape, MapsConsistent
<1>2. i \in OrderIds
  BY BoundsAssumption DEF Shape, TypeOK, OrderIds
<1>3. HasOrders(order[i].opp)
  BY <1>1, BoundsAssumption DEF Shape, MapsConsistent, HasOrders, TypeOK, OppRecord
<1>4. QED BY <1>1, <1>2, <1>3

(* What the maps say of an opportunity that has its orders.                *)
LEMMA OppOwned ==
  ASSUME Shape, NEW o \in OppIds, HasOrders(o)
  PROVE  /\ o \in Accepted
         /\ opp[o].sellId = opp[o].buyId + 1
         /\ opp[o].buyId \in 1..(nextOrderId - 1)
         /\ opp[o].sellId \in 1..(nextOrderId - 1)
         /\ opp[o].buyId \in OrderIds /\ opp[o].sellId \in OrderIds
         /\ order[opp[o].buyId].opp = o /\ order[opp[o].sellId].opp = o
<1>1. 1..(nextOrderId - 1) \subseteq OrderIds
  BY BoundsAssumption DEF Shape, TypeOK, OrderIds
<1>2. QED BY <1>1 DEF Shape, MapsConsistent, HasOrders

(* What the threads know survives a step on which no thread moves ...      *)
LEMMA StaysKnown ==
  ASSUME Shape, SameMaps, UNCHANGED <<pc, job, adding>>
  PROVE  /\ PlacersKnow' /\ PlacersAlone' /\ AddersKnow' /\ CallbackKnows'
<1>1. Accepted' = Accepted /\ Accepted \subseteq OppIds
      /\ \A o \in OppIds : HasOrders(o)' <=> HasOrders(o)
  BY MapsKept, AcceptedAreOpps DEF Shape
<1>2. \A t \in Threads : Unplaced(t)' <=> Unplaced(t)
  BY DEF Unplaced, Unarmed
<1>3. PlacersKnow'
  <2> SUFFICES ASSUME NEW t \in Threads, pc[t] \in PlacingSteps
               PROVE  /\ job[t] \in Accepted'
                      /\ Unplaced(t)' => opp'[job[t]].buyId = 0 /\ opp'[job[t]].sellId = 0
                      /\ ~Unplaced(t)' => HasOrders(job[t])'
    BY DEF PlacersKnow, HasOrders
  <2>1. job[t] \in Accepted /\ job[t] \in OppIds
    BY <1>1 DEF Shape, PlacersKnow
  <2>2. QED BY <1>1, <1>2, <2>1 DEF Shape, PlacersKnow, SameMaps, SameOrders, HasOrders
<1>4. PlacersAlone'
  BY DEF Shape, PlacersAlone
<1>5. AddersKnow'
  BY DEF Shape, AddersKnow, Adds, SameMaps
<1>6. CallbackKnows'
  BY <1>1 DEF Shape, CallbackKnows, HasOrders, SameMaps, SameOrders
<1>7. QED BY <1>3, <1>4, <1>5, <1>6

(* ... and one on which a thread goes where it may.                        *)
LEMMA MovesKnown ==
  ASSUME Shape, SameMaps,
         NEW t \in Threads, NEW step \in Steps, NEW o \in 0..MaxOpps, Goto(t, step, o),
         \A u \in Threads \ {t} : adding'[u] = adding[u],
         step \in PlacingSteps =>
           pc[t] \in PlacingSteps /\ o = job[t] /\ (Unplaced(t)' <=> Unplaced(t)),
         step \in AddSteps => Adds(t)',
         step = "noOrders" => o \in Accepted,
         step \in JobSteps => t = Main /\ o \in Accepted /\ HasOrders(o)
  PROVE  /\ pc' \in [Threads -> Steps] /\ job' \in [Threads -> 0..MaxOpps]
         /\ PlacersKnow' /\ PlacersAlone' /\ AddersKnow' /\ CallbackKnows'
<1>1. Accepted' = Accepted /\ Accepted \subseteq OppIds
      /\ \A p \in OppIds : HasOrders(p)' <=> HasOrders(p)
  BY MapsKept, AcceptedAreOpps DEF Shape
<1>2. ControlTyped
  BY TypeParts DEF Shape
<1>3. /\ pc' \in [Threads -> Steps] /\ job' \in [Threads -> 0..MaxOpps]
      /\ pc'[t] = step /\ job'[t] = o
      /\ \A u \in Threads \ {t} : pc'[u] = pc[u] /\ job'[u] = job[u] /\ adding'[u] = adding[u]
  BY <1>2 DEF ControlTyped, Goto
<1>4. \A u \in Threads \ {t} : Unplaced(u)' <=> Unplaced(u)
  BY <1>3 DEF Unplaced, Unarmed
<1>5. PlacersKnow'
  <2> SUFFICES ASSUME NEW u \in Threads, pc'[u] \in PlacingSteps
               PROVE  /\ job'[u] \in Accepted'
                      /\ Unplaced(u)' => opp'[job'[u]].buyId = 0 /\ opp'[job'[u]].sellId = 0
                      /\ ~Unplaced(u)' => HasOrders(job[u])'
    BY DEF PlacersKnow, HasOrders
  <2>1. pc[u] \in PlacingSteps /\ job'[u] = job[u] /\ (Unplaced(u)' <=> Unplaced(u))
    BY <1>3, <1>4
  <2>2. job[u] \in Accepted /\ job[u] \in OppIds
    BY <2>1, <1>1 DEF Shape, PlacersKnow
  <2>3. Unplaced(u)' => opp'[job'[u]].buyId = 0 /\ opp'[job'[u]].sellId = 0
    BY <2>1, <2>2 DEF Shape, PlacersKnow, SameMaps, SameOrders
  <2>4. ~Unplaced(u)' => HasOrders(job[u])'
    BY <2>1, <2>2, <1>1 DEF Shape, PlacersKnow, HasOrders
  <2>5. QED BY <2>1, <2>2, <2>3, <2>4, <1>1
<1>6. PlacersAlone'
  BY <1>3 DEF Shape, PlacersAlone
<1>7. AddersKnow'
  <2> SUFFICES ASSUME NEW u \in Threads, pc'[u] \in AddSteps PROVE Adds(u)'
    BY DEF AddersKnow
  <2>1. CASE u = t
    BY <2>1, <1>3
  <2>2. CASE u # t
    BY <2>2, <1>3 DEF Shape, AddersKnow, Adds, SameMaps
  <2>3. QED BY <2>1, <2>2
<1>8. CallbackKnows'
  <2>1. "noOrders" \notin JobSteps
    BY DEF JobSteps, CancelSteps, StopSteps, JudgeSteps
  <2>2. \A u \in Threads : pc'[u] \in JobSteps => u = Main
    BY <1>3 DEF Shape, CallbackKnows
  <2>3. pc'[Main] = "noOrders" => job'[Main] \in Accepted'
    BY <1>1, <1>3, MainIsThread DEF Shape, CallbackKnows
  <2>4. pc'[Main] \in JobSteps => job'[Main] \in Accepted' /\ HasOrders(job[Main])'
    <3>1. CASE Main = t
      BY <3>1, <1>1, <1>3 DEF HasOrders
    <3>2. CASE Main # t
      BY <3>2, <1>1, <1>3, MainIsThread DEF Shape, CallbackKnows, HasOrders
    <3>3. QED BY <3>1, <3>2
  <2>5. QED BY <2>2, <2>3, <2>4 DEF CallbackKnows, HasOrders
<1>9. QED BY <1>3, <1>5, <1>6, <1>7, <1>8

(* A thread is handed a job only with one.                                 *)
LEMMA JobTyped ==
  ASSUME Shape, NEW t \in Threads
  PROVE  job[t] \in 0..MaxOpps /\ 0 \in 0..MaxOpps
BY BoundsAssumption DEF Shape, TypeOK

LEMMA PlacerKnows ==
  ASSUME Shape, NEW t \in Threads, pc[t] \in PlacingSteps
  PROVE  /\ job[t] \in Accepted /\ job[t] \in OppIds
         /\ Unplaced(t) => opp[job[t]].buyId = 0 /\ opp[job[t]].sellId = 0
         /\ ~Unplaced(t) => HasOrders(job[t])
BY AcceptedAreOpps DEF Shape, PlacersKnow

LEMMA CallbackJob ==
  ASSUME Shape, pc[Main] \in JobSteps
  PROVE  job[Main] \in Accepted /\ job[Main] \in OppIds /\ HasOrders(job[Main])
BY AcceptedAreOpps DEF Shape, CallbackKnows

-----------------------------------------------------------------------------
(* The steps, one by one: what they may break of Shape.                    *)

LEMMA TickShape == ASSUME Shape, Tick PROVE Shape'
<1>1. UNCHANGED <<books, store, ids, robbed, control>> /\ now' \in Nat
  BY DEF Tick, Shape, TypeOK
<1>2. TypeOK'
  BY <1>1, TypeParts, TypeJoin DEF Shape, BooksTyped, StoreTyped, IdsTyped, ControlTyped,
     books, store, ids, control
<1>3. SameMaps /\ UNCHANGED <<pc, job, adding, timers, batch, nextOrderId>>
  BY <1>1, BooksSame DEF books, store, control
<1>4. QED BY <1>2, <1>3, MapsKept, StaysKnown DEF Shape, ReportsKnown

LEMMA CheckTimersShape == ASSUME Shape, CheckTimers PROVE Shape'
<1>1. /\ UNCHANGED <<books, now, ids, robbed, control>>
      /\ batch' = Expired /\ timers' = timers \ Expired /\ Expired \subseteq timers
      /\ indexed' \subseteq indexed \ Expired
  BY DEF CheckTimers, Expired
<1>2. TypeOK'
  BY <1>1, TypeParts, TypeJoin DEF Shape, BooksTyped, StoreTyped, IdsTyped, ControlTyped,
     books, ids, control
<1>3. SameMaps /\ UNCHANGED <<pc, job, adding, nextOrderId>>
  BY <1>1, BooksSame DEF books, control
<1>4. ReportsKnown'
  BY <1>1, <1>3 DEF Shape, ReportsKnown
<1>5. QED BY <1>2, <1>3, <1>4, MapsKept, StaysKnown DEF Shape

LEMMA AcceptShape == ASSUME Shape, NEW t \in Threads, Accept(t) PROVE Shape'
<1>1. /\ pc[t] = "idle" /\ nextOppId' = nextOppId + 1
      /\ opp' = [opp EXCEPT ![nextOppId].state = "ACCEPTED"]
      /\ Goto(t, "arm", nextOppId)
      /\ UNCHANGED <<nextOrderId, order, clockwork, adding, seen>>
  BY DEF Accept
<1>2. nextOppId \in OppIds /\ nextOppId \notin Accepted
  BY BoundsAssumption DEF Shape, TypeOK, OppIds, Accepted, Accept
<1>3. /\ Accepted' = Accepted \cup {nextOppId}
      /\ Accepted \subseteq OppIds /\ Accepted' \subseteq OppIds
  BY <1>1, <1>2, BoundsAssumption DEF Shape, TypeOK, Accepted, OppIds
<1>4. SameOrders
  BY <1>1, <1>2 DEF SameOrders, Shape, TypeOK, OppRecord
<1>5. opp[nextOppId].buyId = 0 /\ opp[nextOppId].sellId = 0
  BY <1>2 DEF Shape, MapsConsistent
<1>6. /\ pc' \in [Threads -> Steps] /\ job' \in [Threads -> 0..MaxOpps]
      /\ pc'[t] = "arm" /\ job'[t] = nextOppId
      /\ \A u \in Threads \ {t} : pc'[u] = pc[u] /\ job'[u] = job[u]
  <2>1. nextOppId \in 0..MaxOpps /\ "arm" \in Steps
    BY <1>2 DEF OppIds, Steps, PlacingSteps
  <2>2. pc \in [Threads -> Steps] /\ job \in [Threads -> 0..MaxOpps]
    BY TypeParts DEF Shape, ControlTyped
  <2>3. QED BY <1>1, <2>1, <2>2 DEF Goto
<1>7. TypeOK'
  <2>1. opp' \in [OppIds -> OppRecord]
    <3>1. [opp[nextOppId] EXCEPT !.state = "ACCEPTED"] \in OppRecord
      BY <1>2 DEF Shape, TypeOK, OppRecord, OppStates
    <3>2. QED BY <1>1, <1>2, <3>1 DEF Shape, TypeOK
  <2>2. BooksTyped'
    BY <1>1, <1>2, <2>1, BoundsAssumption DEF BooksTyped, OppIds, Shape, TypeOK
  <2>3. StoreTyped' /\ IdsTyped'
    BY <1>1, TypeParts DEF Shape, StoreTyped, IdsTyped, clockwork, store, ids
  <2>4. ControlTyped'
    BY <1>1, <1>6, TypeParts DEF Shape, ControlTyped
  <2>5. QED BY <2>2, <2>3, <2>4, TypeJoin
<1>8. Counted'
  BY <1>1, <1>4 DEF Shape, Counted, Placed, SameOrders
<1>9. PlacersKnow'
  <2> SUFFICES ASSUME NEW u \in Threads, pc'[u] \in PlacingSteps
               PROVE  /\ job'[u] \in Accepted'
                      /\ Unplaced(u)' => opp'[job'[u]].buyId = 0 /\ opp'[job'[u]].sellId = 0
                      /\ ~Unplaced(u)' => HasOrders(job[u])'
    BY DEF PlacersKnow, HasOrders
  <2>1. CASE u = t
    BY <2>1, <1>2, <1>3, <1>4, <1>5, <1>6 DEF SameOrders, Unplaced, Unarmed
  <2>2. CASE u # t
    <3>1. pc'[u] = pc[u] /\ job'[u] = job[u] /\ (Unplaced(u)' <=> Unplaced(u))
      BY <2>2, <1>1, <1>6 DEF Unplaced, Unarmed
    <3>2. QED BY <3>1, <1>3, <1>4, PlacerKnows DEF SameOrders, HasOrders
  <2>3. QED BY <2>1, <2>2
<1>10. PlacersAlone'
  BY <1>2, <1>6 DEF Shape, PlacersAlone, PlacersKnow
<1>11. AddersKnow'
  BY <1>1, <1>6 DEF Shape, AddersKnow, Adds, AddSteps
<1>12. CallbackKnows'
  <2>1. "arm" \notin JobSteps /\ "noOrders" \notin JobSteps
    BY DEF JobSteps, CancelSteps, StopSteps, JudgeSteps
  <2>2. \A u \in Threads : pc'[u] \in JobSteps => u = Main
    BY <1>6, <2>1 DEF Shape, CallbackKnows
  <2>3. pc'[Main] \in JobSteps \cup {"noOrders"} =>
          pc[Main] = pc'[Main] /\ job'[Main] = job[Main]
    BY <1>6, <2>1, MainIsThread
  <2>4. \A o \in OppIds : HasOrders(o)' <=> HasOrders(o)
    BY <1>4 DEF SameOrders, HasOrders
  <2>5. QED BY <2>2, <2>3, <2>4, <1>3 DEF Shape, CallbackKnows, HasOrders
<1>13. ReportsKnown'
  BY <1>1 DEF Shape, ReportsKnown, clockwork, store
<1>14. MapsConsistent'
  BY <1>1, <1>3, <1>4 DEF Shape, MapsConsistent, SameOrders
<1>15. QED BY <1>7, <1>8, <1>9, <1>10, <1>11, <1>12, <1>13, <1>14 DEF Shape

(* An id drawn, for the timeout before the orders or a report after them.  *)
LEMMA DrawShape ==
  ASSUME Shape, NEW t \in Threads, NEW from \in PlacingSteps \ AddSteps,
         NEW delay \in Nat, NEW type, NEW ref, DrawId(t, from, delay, type, ref),
         \/ /\ type = "OPPORTUNITY_TIMEOUT" /\ from = "arm" /\ ref = job[t]
         \/ /\ type = "ORDER_TEST_STATE_CHANGE" /\ from \in {"timeBuy", "timeSell"}
            /\ ref \in 1..(nextOrderId - 1)
  PROVE  Shape'
<1> DEFINE new == [id |-> nextTimerId, at |-> Deadline(delay), ref |-> ref, type |-> type]
<1>1. /\ pc[t] = from /\ adding' = [adding EXCEPT ![t] = new]
      /\ drawn' = drawn \cup {nextTimerId} /\ shared' = shared \cup ({nextTimerId} \cap drawn)
      /\ Goto(t, "writeId", job[t])
      /\ UNCHANGED <<books, now, store, nextTimerId, robbed, promised, seen>>
  BY DEF DrawId
<1>2. new \in TimerRecord
  BY BoundsAssumption, JobTyped DEF TimerRecord, Deadline, Shape, TypeOK
<1>3. new.type = type /\ new.ref = ref
  OBVIOUS
<1>4. SameMaps
  BY <1>1, BooksSame
<1> HIDE DEF new
<1>5. /\ adding'[t] = new /\ \A u \in Threads \ {t} : adding'[u] = adding[u]
      /\ adding' \in [Threads -> TimerRecord \cup {NoTimer}]
  BY <1>1, <1>2 DEF Shape, TypeOK
<1>6. pc'[t] = "writeId" /\ job'[t] = job[t]
  BY <1>1 DEF Goto, Shape, TypeOK
<1>7. Unplaced(t)' <=> Unplaced(t)
  BY <1>1, <1>3, <1>5, <1>6 DEF Unplaced, Unarmed, AddSteps
<1>8. Adds(t)'
  BY <1>1, <1>2, <1>3, <1>5, <1>6 DEF Adds, books
<1>9. /\ pc' \in [Threads -> Steps] /\ job' \in [Threads -> 0..MaxOpps]
      /\ PlacersKnow' /\ PlacersAlone' /\ AddersKnow' /\ CallbackKnows'
  <2>1. "writeId" \in Steps /\ "writeId" \notin JobSteps /\ job[t] \in 0..MaxOpps
    BY JobTyped DEF Steps, PlacingSteps, JobSteps, CancelSteps, StopSteps, JudgeSteps
  <2>2. QED BY <2>1, <1>1, <1>4, <1>5, <1>7, <1>8, MovesKnown
<1>10. TypeOK'
  <2>1. BooksTyped' /\ StoreTyped'
    BY <1>1, TypeParts DEF Shape, BooksTyped, StoreTyped, books, store
  <2>2. IdsTyped'
    BY <1>1, TypeParts DEF Shape, IdsTyped
  <2>3. ControlTyped'
    BY <1>1, <1>5, <1>9, TypeParts DEF Shape, ControlTyped
  <2>4. QED BY <2>1, <2>2, <2>3, TypeJoin
<1>11. ReportsKnown'
  BY <1>1 DEF Shape, ReportsKnown, store, books
<1>12. QED BY <1>4, <1>9, <1>10, <1>11, MapsKept DEF Shape

LEMMA ArmTimeoutShape == ASSUME Shape, NEW t \in Threads, ArmTimeout(t) PROVE Shape'
BY DrawShape, DelaysAssumption DEF ArmTimeout, PlacingSteps, AddSteps

LEMMA TimeReportShape == ASSUME Shape, NEW t \in Threads, TimeReport(t) PROVE Shape'
<1>1. PICK from \in {"timeBuy", "timeSell"} :
        \E i \in {opp[job[t]].buyId, opp[job[t]].sellId} :
          DrawId(t, from, OrderDelay, "ORDER_TEST_STATE_CHANGE", i)
  BY DEF TimeReport
<1>2. pc[t] = from /\ from \in PlacingSteps \ AddSteps
  BY <1>1 DEF DrawId, PlacingSteps, AddSteps
<1>3. ~Unplaced(t)
  BY <1>2 DEF Unplaced, Unarmed, AddSteps
<1>4. opp[job[t]].buyId \in 1..(nextOrderId - 1) /\ opp[job[t]].sellId \in 1..(nextOrderId - 1)
  BY <1>2, <1>3, PlacerKnows, OppOwned
<1>5. QED BY <1>1, <1>2, <1>4, DrawShape, DelaysAssumption

LEMMA WriteIdShape == ASSUME Shape, NEW t \in Threads, WriteId(t) PROVE Shape'
<1>1. /\ pc[t] = "writeId" /\ nextTimerId' = adding[t].id + 1
      /\ Goto(t, "insert", job[t])
      /\ UNCHANGED <<books, now, store, drawn, shared, robbed, promised, adding, seen>>
  BY DEF WriteId
<1>2. SameMaps
  BY <1>1, BooksSame
<1>3. Adds(t)
  BY <1>1 DEF Shape, AddersKnow, AddSteps
<1>4. pc'[t] = "insert" /\ job'[t] = job[t]
  BY <1>1 DEF Goto, Shape, TypeOK
<1>5. (Unplaced(t)' <=> Unplaced(t)) /\ Adds(t)'
  BY <1>1, <1>3, <1>4 DEF Unplaced, Unarmed, AddSteps, Adds, books
<1>6. /\ pc' \in [Threads -> Steps] /\ job' \in [Threads -> 0..MaxOpps]
      /\ PlacersKnow' /\ PlacersAlone' /\ AddersKnow' /\ CallbackKnows'
  <2>1. "insert" \in Steps /\ "insert" \notin JobSteps /\ job[t] \in 0..MaxOpps
        /\ pc[t] \in PlacingSteps
    BY <1>1, JobTyped DEF Steps, PlacingSteps, JobSteps, CancelSteps, StopSteps, JudgeSteps
  <2>2. QED BY <2>1, <1>1, <1>2, <1>5, MovesKnown
<1>7. TypeOK'
  <2>1. BooksTyped' /\ StoreTyped'
    BY <1>1, TypeParts DEF Shape, BooksTyped, StoreTyped, books, store
  <2>2. IdsTyped'
    BY <1>1, <1>3, TypeParts DEF Shape, IdsTyped, Adds, TimerRecord
  <2>3. ControlTyped'
    BY <1>1, <1>6, TypeParts DEF Shape, ControlTyped
  <2>4. QED BY <2>1, <2>2, <2>3, TypeJoin
<1>8. ReportsKnown'
  BY <1>1 DEF Shape, ReportsKnown, store, books
<1>9. QED BY <1>2, <1>6, <1>7, <1>8, MapsKept DEF Shape

(* A timer inserted; the opportunity may be given its id.                  *)
LEMMA InsertShape ==
  ASSUME Shape, NEW t \in Threads, NEW next \in {"place", "execSell", "idle"},
         NEW o \in {job[t], 0}, Insert(t, next, o),
         \/ next = "place" /\ o = job[t] /\ adding[t].type = "OPPORTUNITY_TIMEOUT"
         \/ next = "execSell" /\ o = job[t] /\ adding[t].type # "OPPORTUNITY_TIMEOUT"
         \/ next = "idle",
         \/ UNCHANGED opp
         \/ opp' = [opp EXCEPT ![job[t]].timerId = adding[t].id],
         promised' \subseteq promised \cup {job[t]}
  PROVE  Shape'
<1>1. /\ pc[t] = "insert" /\ timers' = timers \cup {adding[t]}
      /\ indexed' \subseteq indexed \cup {adding[t]}
      /\ adding' = [adding EXCEPT ![t] = NoTimer]
      /\ Goto(t, next, o)
      /\ UNCHANGED <<nextOppId, nextOrderId, order, now, batch, nextTimerId, drawn, shared,
                     robbed, seen>>
  BY DEF Insert
<1>2. Adds(t) /\ job[t] \in OppIds
  BY <1>1, PlacerKnows DEF Shape, AddersKnow, AddSteps, PlacingSteps
<1>3. /\ opp' \in [OppIds -> OppRecord]
      /\ SameOrders
  <2>1. adding[t].id \in Nat
    BY <1>2 DEF Adds, TimerRecord
  <2>2. [opp[job[t]] EXCEPT !.timerId = adding[t].id] \in OppRecord
    BY <2>1, <1>2 DEF Shape, TypeOK, OppRecord
  <2>3. QED BY <2>2, <1>2 DEF Shape, TypeOK, SameOrders, OppRecord
<1>4. SameMaps
  BY <1>1, <1>3 DEF SameMaps
<1>5. pc'[t] = next /\ job'[t] = o
  BY <1>1 DEF Goto, Shape, TypeOK
<1>6. next # "idle" => (Unplaced(t)' <=> Unplaced(t))
  BY <1>1, <1>5 DEF Unplaced, Unarmed, AddSteps
<1>7. /\ pc' \in [Threads -> Steps] /\ job' \in [Threads -> 0..MaxOpps]
      /\ PlacersKnow' /\ PlacersAlone' /\ AddersKnow' /\ CallbackKnows'
  <2>1. /\ next \in Steps /\ next \notin JobSteps /\ next \notin AddSteps /\ next # "noOrders"
        /\ o \in 0..MaxOpps /\ pc[t] \in PlacingSteps /\ "idle" \notin PlacingSteps
    BY <1>1, JobTyped
    DEF Steps, PlacingSteps, JobSteps, CancelSteps, StopSteps, JudgeSteps, AddSteps
  <2>2. \A u \in Threads \ {t} : adding'[u] = adding[u]
    BY <1>1 DEF Shape, TypeOK
  <2>3. QED BY <2>1, <2>2, <1>1, <1>4, <1>6, MovesKnown
<1>8. TypeOK'
  <2>1. BooksTyped'
    BY <1>1, <1>3, TypeParts DEF Shape, BooksTyped
  <2>2. StoreTyped'
    BY <1>1, <1>2, TypeParts DEF Shape, StoreTyped, Adds
  <2>3. IdsTyped'
    BY <1>1, <1>2, TypeParts DEF Shape, IdsTyped
  <2>4. ControlTyped'
    BY <1>1, <1>7, TypeParts DEF Shape, ControlTyped
  <2>5. QED BY <2>1, <2>2, <2>3, <2>4, TypeJoin
<1>9. ReportsKnown'
  BY <1>1, <1>2 DEF Shape, ReportsKnown, Adds
<1>10. QED BY <1>4, <1>7, <1>8, <1>9, MapsKept DEF Shape

LEMMA InsertTimeoutShape == ASSUME Shape, NEW t \in Threads, InsertTimeout(t) PROVE Shape'
BY InsertShape DEF InsertTimeout

LEMMA InsertReportShape == ASSUME Shape, NEW t \in Threads, InsertReport(t) PROVE Shape'
BY InsertShape DEF InsertReport

LEMMA PlaceOrdersShape == ASSUME Shape, NEW t \in Threads, PlaceOrders(t) PROVE Shape'
<1> DEFINE o == job[t]
           new == [state |-> "NEW", opp |-> o]
<1>1. /\ pc[t] = "place" /\ pc[t] \in PlacingSteps
      /\ o \in Accepted /\ o \in OppIds /\ opp[o].buyId = 0 /\ opp[o].sellId = 0
  BY PlacerKnows DEF PlaceOrders, PlacingSteps, Unplaced
<1>2. nextOrderId \in OrderIds /\ nextOrderId + 1 \in OrderIds
      /\ nextOrderId \in Nat \ {0}
  <2>1. Cardinality(Placed) + 1 <= MaxOpps /\ Cardinality(Placed) \in Nat
    BY <1>1, PlacedBounded DEF Placed
  <2>2. QED BY <2>1, BoundsAssumption DEF Shape, Counted, OrderIds
<1>3. /\ order' = [order EXCEPT ![nextOrderId] = new, ![nextOrderId + 1] = new]
      /\ opp' = [opp EXCEPT ![o].buyId = nextOrderId, ![o].sellId = nextOrderId + 1]
      /\ nextOrderId' = nextOrderId + 2
      /\ Goto(t, "execBuy", o)
      /\ UNCHANGED <<nextOppId, clockwork, adding, seen>>
  BY DEF PlaceOrders
<1>4. /\ opp'[o].buyId = nextOrderId /\ opp'[o].sellId = nextOrderId + 1
      /\ \A p \in OppIds \ {o} : opp'[p] = opp[p]
  BY <1>1, <1>3 DEF Shape, TypeOK, OppRecord
<1>5. /\ order'[nextOrderId] = new /\ order'[nextOrderId + 1] = new
      /\ \A i \in 1..(nextOrderId - 1) : order'[i] = order[i]
  BY <1>2, <1>3, BoundsAssumption DEF Shape, TypeOK, OrderIds
<1>6. Accepted' = Accepted /\ Accepted \subseteq OppIds
  BY <1>3, AcceptedAreOpps DEF Accepted, Shape
<1>7. /\ pc' \in [Threads -> Steps] /\ job' \in [Threads -> 0..MaxOpps]
      /\ pc'[t] = "execBuy" /\ job'[t] = o
      /\ \A u \in Threads \ {t} : pc'[u] = pc[u] /\ job'[u] = job[u]
  <2>1. o \in 0..MaxOpps /\ "execBuy" \in Steps
    BY JobTyped DEF Steps, PlacingSteps
  <2>2. pc \in [Threads -> Steps] /\ job \in [Threads -> 0..MaxOpps]
    BY TypeParts DEF Shape, ControlTyped
  <2>3. QED BY <1>3, <2>1, <2>2 DEF Goto
<1>8. TypeOK'
  <2>1. opp' \in [OppIds -> OppRecord]
    <3>1. [opp[o] EXCEPT !.buyId = nextOrderId, !.sellId = nextOrderId + 1] \in OppRecord
      <4>1. opp[o] \in OppRecord /\ nextOrderId \in Nat /\ nextOrderId + 1 \in Nat
        BY <1>1, <1>2 DEF Shape, TypeOK
      <4> HIDE DEF o
      <4>2. QED BY <4>1 DEF OppRecord
    <3>2. opp' = [opp EXCEPT ![o] =
             [opp[o] EXCEPT !.buyId = nextOrderId, !.sellId = nextOrderId + 1]]
      BY <1>1, <1>3 DEF Shape, TypeOK, OppRecord
    <3>3. QED BY <1>1, <3>1, <3>2 DEF Shape, TypeOK
  <2>2. order' \in [OrderIds -> OrderRecord]
    <3>1. new \in OrderRecord
      BY <1>1, BoundsAssumption DEF OrderRecord, OrderStates, OpenOrderStates, OppIds
    <3>2. QED BY <1>2, <1>3, <3>1 DEF Shape, TypeOK
  <2>3. nextOrderId' \in 1..(2 * MaxOpps + 1)
    BY <1>2, <1>3, BoundsAssumption DEF OrderIds
  <2>4. nextOppId' \in 1..(MaxOpps + 1)
    BY <1>3 DEF Shape, TypeOK
  <2>5. BooksTyped'
    BY <2>1, <2>2, <2>3, <2>4 DEF BooksTyped
  <2>6. StoreTyped' /\ IdsTyped'
    BY <1>3, TypeParts DEF Shape, StoreTyped, IdsTyped, clockwork, store, ids
  <2>7. ControlTyped'
    BY <1>3, <1>7, TypeParts DEF Shape, ControlTyped
  <2>8. QED BY <2>5, <2>6, <2>7, TypeJoin
<1>9. Counted'
  <2>1. o \notin Placed /\ Placed' = Placed \cup {o}
    BY <1>1, <1>2, <1>4 DEF Placed
  <2>2. Cardinality(Placed') = Cardinality(Placed) + 1
    BY <2>1, PlacedBounded, FS_AddElement
  <2>3. QED BY <1>3, <2>2, PlacedBounded DEF Counted, Shape
<1>10. PlacersKnow'
  <2> SUFFICES ASSUME NEW u \in Threads, pc'[u] \in PlacingSteps
               PROVE  /\ job'[u] \in Accepted'
                      /\ Unplaced(u)' => opp'[job'[u]].buyId = 0 /\ opp'[job'[u]].sellId = 0
                      /\ ~Unplaced(u)' => HasOrders(job[u])'
    BY DEF PlacersKnow, HasOrders
  <2>1. CASE u = t
    BY <2>1, <1>1, <1>2, <1>4, <1>6, <1>7 DEF HasOrders, Unplaced, Unarmed, AddSteps
  <2>2. CASE u # t
    <3>1. pc'[u] = pc[u] /\ job'[u] = job[u] /\ (Unplaced(u)' <=> Unplaced(u))
      BY <2>2, <1>3, <1>7 DEF Unplaced, Unarmed
    <3>2. job[u] \in OppIds /\ job[u] # o
      BY <2>2, <3>1, <1>1, <1>6 DEF Shape, PlacersKnow, PlacersAlone
    <3>3. QED BY <3>1, <3>2, <1>4, <1>6, PlacerKnows DEF HasOrders
  <2>3. QED BY <2>1, <2>2
<1>11. PlacersAlone'
  BY <1>1, <1>7 DEF PlacersAlone, Shape
<1>12. AddersKnow'
  <2> SUFFICES ASSUME NEW u \in Threads, pc'[u] \in AddSteps PROVE Adds(u)'
    BY DEF AddersKnow
  <2>1. u # t /\ pc'[u] = pc[u] /\ job'[u] = job[u]
    BY <1>7 DEF AddSteps
  <2>2. Adds(u)
    BY <2>1 DEF Shape, AddersKnow
  <2>3. QED BY <2>1, <2>2, <1>2, <1>3 DEF Adds
<1>13. CallbackKnows'
  <2>1. "execBuy" \notin JobSteps /\ "noOrders" \notin JobSteps
    BY DEF JobSteps, CancelSteps, StopSteps, JudgeSteps
  <2>2. \A u \in Threads : pc'[u] \in JobSteps => u = Main
    BY <1>7, <2>1 DEF Shape, CallbackKnows
  <2>3. pc'[Main] \in JobSteps \cup {"noOrders"} =>
          pc[Main] = pc'[Main] /\ job'[Main] = job[Main]
    BY <1>7, <2>1, MainIsThread
  <2>4. \A p \in OppIds : HasOrders(p) => HasOrders(p)'
    BY <1>1, <1>4 DEF HasOrders
  <2>5. QED BY <2>2, <2>3, <2>4, <1>6 DEF Shape, CallbackKnows, HasOrders
<1>14. ReportsKnown'
  BY <1>2, <1>3 DEF ReportsKnown, Shape, clockwork, store
<1>15. MapsConsistent'
  <2>1. ASSUME NEW p \in OppIds
        PROVE  \/ opp'[p].buyId = 0 /\ opp'[p].sellId = 0
               \/ /\ p \in Accepted'
                  /\ opp'[p].sellId = opp'[p].buyId + 1
                  /\ {opp'[p].buyId, opp'[p].sellId} \subseteq 1..(nextOrderId' - 1)
                  /\ order'[opp'[p].buyId].opp = p
                  /\ order'[opp'[p].sellId].opp = p
    <3>1. CASE p = o
      <4>1. nextOrderId \in 1..(nextOrderId' - 1) /\ nextOrderId + 1 \in 1..(nextOrderId' - 1)
        BY <1>2, <1>3
      <4>2. opp'[p].buyId = nextOrderId /\ opp'[p].sellId = nextOrderId + 1
        BY <3>1, <1>4
      <4>3. order'[nextOrderId].opp = p /\ order'[nextOrderId + 1].opp = p
        BY <3>1, <1>5
      <4> HIDE DEF o
      <4>4. QED BY <4>1, <4>2, <4>3, <3>1, <1>1, <1>6
    <3>2. CASE p # o
      <4>1. opp'[p] = opp[p]
        BY <3>2, <1>4
      <4>2. CASE HasOrders(p)
        <5>1. 1..(nextOrderId - 1) \subseteq 1..(nextOrderId' - 1)
          BY <1>2, <1>3
        <5>2. QED BY <4>1, <4>2, <5>1, <1>5, <1>6, OppOwned
      <4>3. CASE ~HasOrders(p)
        BY <4>1, <4>3 DEF Shape, MapsConsistent, HasOrders
      <4>4. QED BY <4>2, <4>3
    <3>3. QED BY <3>1, <3>2
  <2>2. ASSUME NEW i \in 1..(nextOrderId' - 1)
        PROVE  /\ order'[i].opp \in Accepted'
               /\ i \in {opp'[order'[i].opp].buyId, opp'[order'[i].opp].sellId}
    <3>1. CASE i \in 1..(nextOrderId - 1)
      <4>1. order[i].opp # o
        BY <3>1, <1>1, OrderOwned DEF HasOrders
      <4>2. QED BY <3>1, <4>1, <1>4, <1>5, <1>6 DEF Shape, MapsConsistent
    <3>2. CASE i = nextOrderId \/ i = nextOrderId + 1
      BY <3>2, <1>1, <1>4, <1>5, <1>6
    <3>3. QED BY <3>1, <3>2, <1>2, <1>3
  <2>3. QED BY <2>1, <2>2 DEF MapsConsistent
<1>16. QED BY <1>8, <1>9, <1>10, <1>11, <1>12, <1>13, <1>14, <1>15 DEF Shape

(* A new state of one order, and of one opportunity.                       *)
LEMMA OrderStateSet ==
  ASSUME Shape, NEW i \in OrderIds, NEW s \in OrderStates,
         order' = [order EXCEPT ![i].state = s]
  PROVE  /\ order' \in [OrderIds -> OrderRecord]
         /\ order'[i].state = s
         /\ \A j \in OrderIds \ {i} : order'[j] = order[j]
         /\ \A j \in OrderIds : order'[j].opp = order[j].opp
<1>1. [order[i] EXCEPT !.state = s] \in OrderRecord
  BY DEF Shape, TypeOK, OrderRecord
<1>2. QED BY <1>1 DEF Shape, TypeOK, OrderRecord

LEMMA OppStateSet ==
  ASSUME Shape, NEW o \in OppIds, NEW s \in OppStates,
         opp' = [opp EXCEPT ![o].state = s]
  PROVE  /\ opp' \in [OppIds -> OppRecord]
         /\ opp'[o].state = s
         /\ \A p \in OppIds \ {o} : opp'[p] = opp[p]
         /\ \A p \in OppIds : opp'[p].timerId = opp[p].timerId
         /\ SameOrders
<1>1. [opp[o] EXCEPT !.state = s] \in OppRecord
  BY DEF Shape, TypeOK, OppRecord
<1>2. QED BY <1>1 DEF Shape, TypeOK, OppRecord, SameOrders

LEMMA OppTimerSet ==
  ASSUME Shape, NEW o \in OppIds, NEW id \in Nat,
         opp' = [opp EXCEPT ![o].timerId = id]
  PROVE  /\ opp' \in [OppIds -> OppRecord]
         /\ opp'[o].timerId = id
         /\ \A p \in OppIds \ {o} : opp'[p] = opp[p]
         /\ \A p \in OppIds : opp'[p].state = opp[p].state
         /\ SameOrders
<1>1. [opp[o] EXCEPT !.timerId = id] \in OppRecord
  BY DEF Shape, TypeOK, OppRecord
<1>2. QED BY <1>1 DEF Shape, TypeOK, OppRecord, SameOrders

(* What an execution does: one order of the thread's opportunity becomes   *)
(* EXECUTED, and the thread goes on.                                       *)
LEMMA ExecuteEffect ==
  ASSUME Shape, NEW t \in Threads, ExecuteBuy(t) \/ ExecuteSell(t)
  PROVE  /\ pc[t] \in {"execBuy", "execSell"} /\ pc[t] \in PlacingSteps /\ ~Unplaced(t)
         /\ job[t] \in Accepted /\ job[t] \in OppIds /\ HasOrders(job[t])
         /\ UNCHANGED <<nextOppId, opp, nextOrderId, clockwork, adding, seen>>
         /\ \E i \in {opp[job[t]].buyId, opp[job[t]].sellId} :
              i \in OrderIds /\ order' = [order EXCEPT ![i].state = "EXECUTED"]
         /\ \/ \E step \in {"timeBuy", "timeSell", "execSell"} : Goto(t, step, job[t])
            \/ Goto(t, "idle", 0)
<1>1. /\ pc[t] \in {"execBuy", "execSell"} /\ pc[t] \in PlacingSteps /\ ~Unplaced(t)
  BY DEF ExecuteBuy, ExecuteSell, PlacingSteps, Unplaced, Unarmed, AddSteps
<1>2. /\ job[t] \in Accepted /\ job[t] \in OppIds /\ HasOrders(job[t])
      /\ opp[job[t]].buyId \in OrderIds /\ opp[job[t]].sellId \in OrderIds
  BY <1>1, PlacerKnows, OppOwned
<1>3. CASE ExecuteBuy(t)
  BY <1>1, <1>2, <1>3 DEF ExecuteBuy, Execute
<1>4. CASE ExecuteSell(t)
  BY <1>1, <1>2, <1>4 DEF ExecuteSell, Execute
<1>5. QED BY <1>3, <1>4

LEMMA ExecuteShape ==
  ASSUME Shape, NEW t \in Threads, ExecuteBuy(t) \/ ExecuteSell(t)
  PROVE  Shape'
<1>1. PICK i \in OrderIds : order' = [order EXCEPT ![i].state = "EXECUTED"]
  BY ExecuteEffect
<1>2. PICK step \in {"timeBuy", "timeSell", "execSell", "idle"}, o \in {job[t], 0} :
        Goto(t, step, o) /\ (step # "idle" => o = job[t])
  BY ExecuteEffect
<1>3. UNCHANGED <<nextOppId, opp, nextOrderId, clockwork, adding, seen>>
      /\ pc[t] \in PlacingSteps /\ ~Unplaced(t)
  BY ExecuteEffect
<1>4. /\ order' \in [OrderIds -> OrderRecord]
      /\ \A j \in OrderIds : order'[j].opp = order[j].opp
  BY <1>1, OrderStateSet DEF OrderStates, ClosedOrderStates
<1>5. SameMaps
  BY <1>3, <1>4 DEF SameMaps, SameOrders
<1>6. ~Unplaced(t)'
  <2>1. pc'[t] = step
    BY <1>2 DEF Goto, Shape, TypeOK
  <2>2. QED BY <2>1 DEF Unplaced, Unarmed, AddSteps
<1>7. /\ pc' \in [Threads -> Steps] /\ job' \in [Threads -> 0..MaxOpps]
      /\ PlacersKnow' /\ PlacersAlone' /\ AddersKnow' /\ CallbackKnows'
  <2>1. /\ step \in Steps /\ step \notin JobSteps /\ step # "noOrders" /\ step \notin AddSteps
        /\ o \in 0..MaxOpps /\ "idle" \notin PlacingSteps
    BY JobTyped DEF Steps, PlacingSteps, JobSteps, CancelSteps, StopSteps, JudgeSteps, AddSteps
  <2>2. \A u \in Threads \ {t} : adding'[u] = adding[u]
    BY <1>3
  <2>3. QED BY <2>1, <2>2, <1>2, <1>3, <1>5, <1>6, MovesKnown
<1>8. TypeOK'
  <2>1. BooksTyped'
    BY <1>3, <1>4, TypeParts DEF Shape, BooksTyped
  <2>2. StoreTyped' /\ IdsTyped'
    BY <1>3, TypeParts DEF Shape, StoreTyped, IdsTyped, clockwork, store, ids
  <2>3. ControlTyped'
    BY <1>3, <1>7, TypeParts DEF Shape, ControlTyped
  <2>4. QED BY <2>1, <2>2, <2>3, TypeJoin
<1>9. ReportsKnown'
  BY <1>3 DEF Shape, ReportsKnown, clockwork, store
<1>10. QED BY <1>5, <1>7, <1>8, <1>9, MapsKept DEF Shape

(* The steps of a callback: the main thread moves, timers only go.         *)
MainMoves ==
  \/ UNCHANGED <<pc, job>>
  \/ \E step \in Steps \ PlacingSteps, o \in 0..MaxOpps :
       /\ Goto(Main, step, o)
       /\ step = "noOrders" => o \in Accepted
       /\ step \in JobSteps => o \in Accepted /\ HasOrders(o)

LEMMA MainShape ==
  ASSUME Shape, SameMaps, MainMoves,
         opp' \in [OppIds -> OppRecord], order' \in [OrderIds -> OrderRecord],
         timers' \subseteq timers, indexed' \subseteq timers', batch' \subseteq batch,
         robbed' \subseteq TimerRecord, seen' \in OrderStates,
         UNCHANGED <<now, ids, adding>>
  PROVE  Shape'
<1>1. /\ pc' \in [Threads -> Steps] /\ job' \in [Threads -> 0..MaxOpps]
      /\ PlacersKnow' /\ PlacersAlone' /\ AddersKnow' /\ CallbackKnows'
  <2>1. CASE UNCHANGED <<pc, job>>
    BY <2>1, StaysKnown, TypeParts DEF Shape, ControlTyped
  <2>2. CASE ~UNCHANGED <<pc, job>>
    <3>1. PICK step \in Steps \ PlacingSteps, o \in 0..MaxOpps :
            /\ Goto(Main, step, o)
            /\ step = "noOrders" => o \in Accepted
            /\ step \in JobSteps => o \in Accepted /\ HasOrders(o)
      BY <2>2 DEF MainMoves
    <3>2. step \notin PlacingSteps /\ step \notin AddSteps
      BY DEF AddSteps, PlacingSteps
    <3>3. QED BY <3>1, <3>2, MainIsThread, MovesKnown
  <2>3. QED BY <2>1, <2>2
<1>2. TypeOK'
  <2>1. BooksTyped'
    BY TypeParts DEF Shape, BooksTyped, SameMaps
  <2>2. StoreTyped' /\ IdsTyped'
    BY TypeParts DEF Shape, StoreTyped, IdsTyped, ids
  <2>3. ControlTyped'
    BY <1>1, TypeParts DEF Shape, ControlTyped
  <2>4. QED BY <2>1, <2>2, <2>3, TypeJoin
<1>3. ReportsKnown'
  BY DEF Shape, ReportsKnown, SameMaps
<1>4. QED BY <1>1, <1>2, <1>3, MapsKept DEF Shape

LEMMA MainStepGoes ==
  ASSUME Shape, NEW step \in {"idle"} \cup JobSteps, NEW o \in OppIds,
         MainGoesTo(step, o), o \in Accepted, HasOrders(o)
  PROVE  MainMoves
<1>1. CASE step = "idle"
  <2>1. Goto(Main, "idle", 0) /\ 0 \in 0..MaxOpps
    BY <1>1, BoundsAssumption DEF MainGoesTo
  <2>2. "idle" \in Steps \ PlacingSteps /\ "idle" \notin JobSteps
    BY DEF Steps, PlacingSteps, JobSteps, CancelSteps, StopSteps, JudgeSteps
  <2>3. QED BY <2>1, <2>2 DEF MainMoves
<1>2. CASE step # "idle"
  <2>1. Goto(Main, step, o) /\ o \in 0..MaxOpps
    BY <1>2, BoundsAssumption DEF MainGoesTo, OppIds
  <2>2. step \in Steps \ PlacingSteps /\ step # "noOrders"
    BY <1>2 DEF Steps, PlacingSteps, JobSteps, CancelSteps, StopSteps, JudgeSteps
  <2>3. QED BY <2>1, <2>2 DEF MainMoves
<1>3. QED BY <1>1, <1>2

(* What stopTimer leaves.                                                  *)
LEMMA StopLeaves ==
  ASSUME Shape, NEW o, StopTimer(o)
  PROVE  timers' \subseteq timers /\ indexed' \subseteq timers' /\ robbed' \subseteq TimerRecord
BY DEF StopTimer, Shape, TypeOK

(* The judgement yields an opportunity state.                              *)
LEMMA JudgementType ==
  ASSUME NEW old \in OppStates, NEW buy, NEW sell
  PROVE  StateAfterReport(old, buy, sell) \in OppStates
BY DEF StateAfterReport, OppStates, SettledOppStates

(* What a report does: the order becomes EXECUTED, its opportunity gets    *)
(* the state judged, and the report goes on accordingly.                   *)
LEMMA ReportEffect ==
  ASSUME Shape, NEW tm \in batch, OrderReport(tm)
  PROVE  LET i == tm.ref
             o == order[i].opp
             buy == order'[opp[o].buyId].state
             sell == order'[opp[o].sellId].state
             state == StateAfterReport(opp[o].state, buy, sell)
         IN  /\ pc[Main] = "idle"
             /\ i \in 1..(nextOrderId - 1) /\ i \in OrderIds
             /\ o \in Accepted /\ o \in OppIds /\ HasOrders(o)
             /\ order' = [order EXCEPT ![i].state = "EXECUTED"]
             /\ opp' = [opp EXCEPT ![o].state = state]
             /\ state \in OppStates
             /\ MainGoesTo(StepAfterReport(state, buy, sell), o)
             /\ batch' = batch \ {tm}
             /\ UNCHANGED <<nextOppId, nextOrderId, now, timers, indexed, ids, robbed,
                            adding, seen>>
<1> DEFINE i == tm.ref
           o == order[i].opp
           changed == [order EXCEPT ![i].state = "EXECUTED"]
           buy == changed[opp[o].buyId].state
           sell == changed[opp[o].sellId].state
           state == StateAfterReport(opp[o].state, buy, sell)
<1>1. i \in 1..(nextOrderId - 1)
  BY DEF Shape, ReportsKnown, OrderReport
<1>2. i \in OrderIds /\ o \in Accepted /\ o \in OppIds /\ HasOrders(o)
  BY <1>1, OrderOwned
<1>3. order' = changed
  BY DEF OrderReport, HandleOrderStateChange
<1>4. /\ opp' = [opp EXCEPT ![o].state = state]
      /\ MainGoesTo(StepAfterReport(state, buy, sell), o)
      /\ UNCHANGED <<nextOppId, nextOrderId>>
  BY DEF OrderReport, HandleOrderStateChange
<1>5. /\ pc[Main] = "idle" /\ batch' = batch \ {tm}
      /\ UNCHANGED <<now, timers, indexed, ids, robbed, adding, seen>>
  BY DEF OrderReport, NextInBatch
<1>6. state \in OppStates
  BY <1>2, JudgementType DEF Shape, TypeOK, OppRecord
<1> HIDE DEF state, changed
<1>7. QED BY <1>1, <1>2, <1>3, <1>4, <1>5, <1>6 DEF state, changed

LEMMA OrderReportShape == ASSUME Shape, NEW tm \in batch, OrderReport(tm) PROVE Shape'
<1> DEFINE o == order[tm.ref].opp
           buy == order'[opp[o].buyId].state
           sell == order'[opp[o].sellId].state
           state == StateAfterReport(opp[o].state, buy, sell)
<1>1. /\ tm.ref \in OrderIds /\ o \in Accepted /\ o \in OppIds /\ HasOrders(o)
      /\ order' = [order EXCEPT ![tm.ref].state = "EXECUTED"]
      /\ opp' = [opp EXCEPT ![o].state = state]
      /\ state \in OppStates
      /\ MainGoesTo(StepAfterReport(state, buy, sell), o)
      /\ batch' = batch \ {tm}
      /\ UNCHANGED <<nextOppId, nextOrderId, now, timers, indexed, ids, robbed, adding, seen>>
  BY ReportEffect
<1>2. StepAfterReport(state, buy, sell) \in {"idle"} \cup JobSteps
  BY DEF StepAfterReport, JobSteps, CancelSteps, StopSteps
<1> HIDE DEF o, buy, sell, state
<1>3. MainMoves
  BY <1>1, <1>2, MainStepGoes
<1>4. opp' \in [OppIds -> OppRecord] /\ SameOrders
  BY <1>1, OppStateSet
<1>5. order' \in [OrderIds -> OrderRecord] /\ \A j \in OrderIds : order'[j].opp = order[j].opp
  BY <1>1, OrderStateSet DEF OrderStates, ClosedOrderStates
<1>6. SameMaps
  BY <1>1, <1>4, <1>5 DEF SameMaps
<1>7. indexed \subseteq timers /\ robbed \subseteq TimerRecord /\ seen \in OrderStates
  BY DEF Shape, TypeOK
<1>8. QED BY <1>1, <1>3, <1>4, <1>5, <1>6, <1>7, MainShape

LEMMA StopAtOnceShape == ASSUME Shape, StopAtOnce PROVE Shape'
<1> DEFINE o == job[Main]
           step == CASE opp[o].state \in SettledOppStates -> "stopAgain"
                     [] opp[o].state = "CANCELLING" -> "checkBuy"
                     [] OTHER -> "idle"
<1>1. /\ pc[Main] = "stop" /\ StopTimer(o) /\ MainGoesTo(step, o)
      /\ UNCHANGED <<books, now, ids, batch, adding, seen>>
  BY DEF StopAtOnce
<1>2. o \in Accepted /\ o \in OppIds /\ HasOrders(o)
  BY <1>1, CallbackJob DEF JobSteps, StopSteps
<1>3. step \in {"idle"} \cup JobSteps
  BY DEF JobSteps, CancelSteps, StopSteps
<1> HIDE DEF o, step
<1>4. MainMoves
  BY <1>1, <1>2, <1>3, MainStepGoes
<1>5. SameMaps
  BY <1>1, BooksSame
<1>6. opp' \in [OppIds -> OppRecord] /\ order' \in [OrderIds -> OrderRecord]
      /\ seen' \in OrderStates
  BY <1>1 DEF books, Shape, TypeOK
<1>7. QED BY <1>1, <1>4, <1>5, <1>6, StopLeaves, MainShape

LEMMA StopWhenSettledShape == ASSUME Shape, StopWhenSettled PROVE Shape'
<1> DEFINE o == job[Main]
<1>1. /\ pc[Main] = "stopAgain" /\ StopTimer(o) /\ Goto(Main, "idle", 0)
      /\ opp' = [opp EXCEPT ![o].timerId = 0]
      /\ UNCHANGED <<nextOppId, nextOrderId, order, now, ids, batch, adding, seen>>
  BY DEF StopWhenSettled
<1>2. o \in Accepted /\ o \in OppIds /\ HasOrders(o)
  BY <1>1, CallbackJob DEF JobSteps, StopSteps
<1> HIDE DEF o
<1>3. MainMoves
  BY <1>1, <1>2, MainStepGoes DEF MainGoesTo
<1>4. opp' \in [OppIds -> OppRecord] /\ SameOrders
  BY <1>1, <1>2, OppTimerSet
<1>5. SameMaps /\ order' \in [OrderIds -> OrderRecord] /\ seen' \in OrderStates
  BY <1>1, <1>4 DEF SameMaps, Shape, TypeOK
<1>6. QED BY <1>1, <1>3, <1>4, <1>5, StopLeaves, MainShape

LEMMA TimeoutShape ==
  ASSUME Shape, NEW tm \in batch, NEW id,
         \/ TimeoutUnknown(tm, id)
         \/ TimeoutWithoutOrders(tm, id)
         \/ TimeoutReadsBuy(tm, id)
  PROVE  Shape'
<1>1. /\ UNCHANGED <<books, now, timers, indexed, ids, robbed, adding>>
      /\ batch' \subseteq batch
  BY DEF TimeoutUnknown, TimeoutWithoutOrders, TimeoutReadsBuy, TimeoutFor, NextInBatch
<1>2. SameMaps /\ opp' \in [OppIds -> OppRecord] /\ order' \in [OrderIds -> OrderRecord]
  BY <1>1, BooksSame DEF Shape, TypeOK, books
<1>3. seen \in OrderStates /\ indexed \subseteq timers /\ robbed \subseteq TimerRecord
  BY DEF Shape, TypeOK
<1>4. id \in Accepted => id \in OppIds /\ id \in 0..MaxOpps
  BY AcceptedAreOpps, BoundsAssumption DEF OppIds, Shape
<1>5. MainMoves /\ seen' \in OrderStates
  <2>1. CASE TimeoutUnknown(tm, id)
    BY <2>1, <1>3 DEF TimeoutUnknown, MainMoves
  <2>2. CASE TimeoutWithoutOrders(tm, id)
    <3>1. "noOrders" \in Steps \ PlacingSteps /\ "noOrders" \notin JobSteps
      BY DEF Steps, PlacingSteps, JobSteps, CancelSteps, StopSteps, JudgeSteps
    <3>2. QED BY <2>2, <3>1, <1>3, <1>4 DEF TimeoutWithoutOrders, MainMoves
  <2>3. CASE TimeoutReadsBuy(tm, id)
    <3>1. id \in Accepted /\ HasOrders(id) /\ Goto(Main, "judgeSell", id) /\ seen' = BuyState(id)
      BY <2>3 DEF TimeoutReadsBuy
    <3>2. MainMoves
      BY <3>1, <1>4, MainStepGoes DEF MainGoesTo, JobSteps, JudgeSteps
    <3>3. order[opp[id].buyId] \in OrderRecord
      BY <3>1, <1>4, OppOwned DEF Shape, TypeOK
    <3>4. QED BY <3>1, <3>2, <3>3 DEF BuyState, OrderRecord
  <2>4. QED BY <2>1, <2>2, <2>3
<1>6. QED BY <1>1, <1>2, <1>3, <1>5, MainShape

(* Steps of the main thread that only move it.                             *)
LEMMA OnlyMainMoves ==
  ASSUME Shape, MainMoves, UNCHANGED <<books, clockwork, adding>>, seen' \in OrderStates
  PROVE  Shape'
<1>1. SameMaps /\ opp' \in [OppIds -> OppRecord] /\ order' \in [OrderIds -> OrderRecord]
  BY BooksSame DEF Shape, TypeOK, books
<1>2. UNCHANGED <<now, timers, indexed, batch, robbed, ids, adding>>
  BY DEF clockwork, store, ids
<1>3. indexed \subseteq timers /\ robbed \subseteq TimerRecord
  BY DEF Shape, TypeOK
<1>4. QED BY <1>1, <1>2, <1>3, MainShape

LEMMA LogShape == ASSUME Shape, LogOpportunity PROVE Shape'
<1>1. job[Main] \in 0..MaxOpps /\ 0 \in 0..MaxOpps
  BY MainIsThread, JobTyped
<1>2. /\ {"idle", "blocked"} \subseteq Steps \ PlacingSteps
      /\ "idle" \notin JobSteps /\ "blocked" \notin JobSteps
  BY DEF Steps, PlacingSteps, JobSteps, CancelSteps, StopSteps, JudgeSteps
<1>3. Goto(Main, "idle", 0) \/ Goto(Main, "blocked", job[Main])
  BY DEF LogOpportunity
<1>4. MainMoves
  BY <1>1, <1>2, <1>3 DEF MainMoves
<1>5. UNCHANGED <<books, clockwork, adding>> /\ seen' \in OrderStates
  BY DEF LogOpportunity, Shape, TypeOK
<1>6. QED BY <1>4, <1>5, OnlyMainMoves

(* What the judgement of the sell order does.                              *)
LEMMA JudgeEffect ==
  ASSUME Shape, JudgeSell
  PROVE  LET legs == {seen, SellState(job[Main])}
         IN  /\ pc[Main] = "judgeSell"
             /\ job[Main] \in Accepted /\ job[Main] \in OppIds /\ HasOrders(job[Main])
             /\ seen' = "NONE" /\ UNCHANGED <<books, clockwork, adding>>
             /\ \/ legs = {"NEW"} /\ MainGoesTo("checkBuy", job[Main])
                \/ legs \subseteq ClosedOrderStates /\ MainGoesTo("idle", job[Main])
                \/ /\ legs # {"NEW"} /\ ~(legs \subseteq ClosedOrderStates)
                   /\ MainGoesTo("settle", job[Main])
<1>1. pc[Main] = "judgeSell" /\ seen' = "NONE" /\ UNCHANGED <<books, clockwork, adding>>
  BY DEF JudgeSell, Judged
<1>2. job[Main] \in Accepted /\ job[Main] \in OppIds /\ HasOrders(job[Main])
  BY <1>1, CallbackJob DEF JobSteps, JudgeSteps
<1> DEFINE legs == {seen, SellState(job[Main])}
<1> HIDE DEF legs
<1>3. CASE legs = {"NEW"}
  BY <1>1, <1>2, <1>3 DEF JudgeSell, Judged, legs
<1>4. CASE legs # {"NEW"} /\ legs \subseteq ClosedOrderStates
  BY <1>1, <1>2, <1>4 DEF JudgeSell, Judged, legs
<1>5. CASE legs # {"NEW"} /\ ~(legs \subseteq ClosedOrderStates)
  BY <1>1, <1>2, <1>5 DEF JudgeSell, Judged, legs
<1>6. QED BY <1>3, <1>4, <1>5

LEMMA JudgeShape == ASSUME Shape, JudgeSell PROVE Shape'
<1>1. /\ job[Main] \in Accepted /\ job[Main] \in OppIds /\ HasOrders(job[Main])
      /\ seen' = "NONE" /\ UNCHANGED <<books, clockwork, adding>>
      /\ \E step \in {"checkBuy", "idle", "settle"} : MainGoesTo(step, job[Main])
  BY JudgeEffect
<1>2. MainMoves
  BY <1>1, MainStepGoes DEF JobSteps, CancelSteps, JudgeSteps
<1>3. QED BY <1>1, <1>2, OnlyMainMoves DEF OrderStates, OpenOrderStates

LEMMA SettleEffect ==
  ASSUME Shape, Settle
  PROVE  /\ pc[Main] = "settle"
         /\ job[Main] \in Accepted /\ job[Main] \in OppIds /\ HasOrders(job[Main])
         /\ opp' = [opp EXCEPT ![job[Main]].state = "EXECUTION_TIMEOUT"]
         /\ "EXECUTION_TIMEOUT" \in OppStates
         /\ Goto(Main, "checkBuy", job[Main])
         /\ UNCHANGED <<nextOppId, nextOrderId, order, clockwork, adding, seen>>
<1>1. pc[Main] \in JobSteps
  BY DEF Settle, JobSteps, JudgeSteps
<1>2. QED BY <1>1, CallbackJob DEF Settle, OppStates, SettledOppStates

LEMMA SettleShape == ASSUME Shape, Settle PROVE Shape'
<1>1. opp' \in [OppIds -> OppRecord] /\ SameOrders
  BY SettleEffect, OppStateSet
<1>2. SameMaps /\ order' \in [OrderIds -> OrderRecord] /\ seen' \in OrderStates
  BY <1>1, SettleEffect DEF SameMaps, Shape, TypeOK
<1>3. MainMoves
  <2>1. MainGoesTo("checkBuy", job[Main]) /\ "checkBuy" \in JobSteps
    BY SettleEffect DEF MainGoesTo, JobSteps, CancelSteps
  <2>2. QED BY <2>1, SettleEffect, MainStepGoes
<1>4. UNCHANGED <<now, timers, indexed, batch, robbed, ids, adding>>
  BY SettleEffect DEF clockwork, store, ids
<1>5. indexed \subseteq timers /\ robbed \subseteq TimerRecord
  BY DEF Shape, TypeOK
<1>6. QED BY <1>1, <1>2, <1>3, <1>4, <1>5, MainShape

(* What a step of the cancellation does: Main is in it, and at most one of *)
(* the two orders of its opportunity becomes CANCELLED.                    *)
LEMMA CancelEffect ==
  ASSUME Shape, CancelOrders
  PROVE  /\ pc[Main] \in CancelSteps
         /\ job[Main] \in Accepted /\ job[Main] \in OppIds /\ HasOrders(job[Main])
         /\ UNCHANGED <<nextOppId, opp, nextOrderId, clockwork, adding, seen>>
         /\ \/ UNCHANGED order
            \/ /\ pc[Main] \in {"cancelBuy", "cancelSell"}
               /\ \E i \in {opp[job[Main]].buyId, opp[job[Main]].sellId} :
                    i \in OrderIds /\ order' = [order EXCEPT ![i].state = "CANCELLED"]
         /\ \E step \in CancelSteps \cup {"idle"} : MainGoesTo(step, job[Main])
<1> DEFINE o == job[Main]
<1>1. pc[Main] \in CancelSteps
  BY DEF CancelOrders, CheckLeg, CancelLeg, CancelSteps
<1>2. /\ o \in Accepted /\ o \in OppIds /\ HasOrders(o)
      /\ opp[o].buyId \in OrderIds /\ opp[o].sellId \in OrderIds
  BY <1>1, CallbackJob, OppOwned DEF JobSteps
<1>3. CASE CheckLeg("checkBuy", opp[o].buyId, "cancelBuy", "checkSell")
  BY <1>1, <1>2, <1>3 DEF CheckLeg, CancelSteps, MainGoesTo, books
<1>4. CASE CancelLeg("cancelBuy", opp[o].buyId, "checkSell")
  BY <1>1, <1>2, <1>4 DEF CancelLeg, CancelSteps
<1>5. CASE CheckLeg("checkSell", opp[o].sellId, "cancelSell", "idle")
  BY <1>1, <1>2, <1>5 DEF CheckLeg, CancelSteps, MainGoesTo, books
<1>6. CASE CancelLeg("cancelSell", opp[o].sellId, "idle")
  BY <1>1, <1>2, <1>6 DEF CancelLeg, CancelSteps
<1>7. QED BY <1>3, <1>4, <1>5, <1>6 DEF CancelOrders

LEMMA CancelShape == ASSUME Shape, CancelOrders PROVE Shape'
<1>1. MainMoves
  BY CancelEffect, MainStepGoes DEF JobSteps
<1>2. order' \in [OrderIds -> OrderRecord] /\ \A j \in OrderIds : order'[j].opp = order[j].opp
  <2>1. CASE UNCHANGED order
    BY <2>1 DEF Shape, TypeOK
  <2>2. CASE ~UNCHANGED order
    <3>1. PICK i \in OrderIds : order' = [order EXCEPT ![i].state = "CANCELLED"]
      BY <2>2, CancelEffect
    <3>2. QED BY <3>1, OrderStateSet DEF OrderStates, ClosedOrderStates
  <2>3. QED BY <2>1, <2>2
<1>3. UNCHANGED <<nextOppId, opp, nextOrderId, now, timers, indexed, batch, robbed, ids,
                  adding, seen>>
  BY CancelEffect DEF clockwork, store, ids
<1>4. SameMaps
  BY <1>2, <1>3 DEF SameMaps, SameOrders
<1>5. /\ indexed \subseteq timers /\ robbed \subseteq TimerRecord /\ seen \in OrderStates
      /\ opp \in [OppIds -> OppRecord]
  BY DEF Shape, TypeOK
<1>6. QED BY <1>1, <1>2, <1>3, <1>4, <1>5, MainShape

LEMMA ShapeStep == Shape /\ [Next]_vars => Shape'
<1> SUFFICES ASSUME Shape, [Next]_vars PROVE Shape'
  OBVIOUS
<1>1. CASE Tick
  BY <1>1, TickShape
<1>2. CASE CheckTimers
  BY <1>2, CheckTimersShape
<1>3. CASE Callback
  BY <1>3, OrderReportShape, StopAtOnceShape, StopWhenSettledShape, TimeoutShape, LogShape,
     JudgeShape, SettleShape, CancelShape DEF Callback
<1>4. ASSUME NEW t \in Threads, Accept(t) PROVE Shape'
  BY <1>4, AcceptShape
<1>5. ASSUME NEW t \in Threads, Placing(t) PROVE Shape'
  BY <1>5, ArmTimeoutShape, WriteIdShape, InsertTimeoutShape, PlaceOrdersShape, ExecuteShape,
     TimeReportShape, InsertReportShape DEF Placing
<1>6. CASE UNCHANGED vars
  <2>1. UNCHANGED <<books, clockwork, adding, pc, job, seen>>
    BY <1>6 DEF vars, control
  <2>2. MainMoves /\ seen' \in OrderStates
    BY <2>1 DEF MainMoves, Shape, TypeOK
  <2>3. QED BY <2>1, <2>2, OnlyMainMoves
<1>7. QED BY <1>1, <1>2, <1>3, <1>4, <1>5, <1>6 DEF Next

LEMMA ShapeAlways == Spec => []Shape
<1>1. QED BY ShapeInit, ShapeStep, PTL DEF Spec

(* Every variable keeps its type, and the order ids never run past the two *)
(* each opportunity is due (m_nextOrderId, lines 210-218).                 *)
THEOREM TypeCorrect == Spec => []TypeOK
<1>1. Shape => TypeOK
  BY DEF Shape
<1>2. QED BY <1>1, ShapeAlways, PTL

(* The three maps agree in every reachable state, whatever the threads are *)
(* doing (handleAction, lines 207-219).                                    *)
THEOREM MapsAgree == Spec => []MapsConsistent
<1>1. Shape => MapsConsistent
  BY DEF Shape
<1>2. QED BY <1>1, ShapeAlways, PTL

-----------------------------------------------------------------------------
(* Settled.                                                                *)

LiveOrderStates == {"NEW", "EXECUTED", "CANCELLED"}
KnowingSteps == {"cancelBuy", "cancelSell", "judgeSell", "settle"}

(* The states an order of the deployed program takes.                      *)
OrdersLive == \A i \in 1..(nextOrderId - 1) : order[i].state \in LiveOrderStates

(* What the main thread relies on between two steps of a callback.  Only   *)
(* it settles an opportunity, so what it read of an order that was not     *)
(* executed yet still tells that its opportunity is not planned, and no    *)
(* order returns to NEW.                                                   *)
MainKnows ==
  LET o == job[Main]
  IN  /\ pc[Main] \in {"cancelBuy", "cancelSell", "settle"} =>
           opp[o].state # "EXECUTED_AS_PLANNED"
      /\ pc[Main] = "judgeSell" =>
           /\ seen \in LiveOrderStates
           /\ seen = "NEW" => opp[o].state # "EXECUTED_AS_PLANNED"
           /\ seen # "NEW" => BuyState(o) # "NEW"
      /\ pc[Main] = "settle" => BuyState(o) # "NEW" \/ SellState(o) # "NEW"

(* An id not handed out yet still has what the constructor gives.          *)
Fresh == \A o \in OppIds \ Accepted : opp[o].state = "ACCEPTED" /\ opp[o].timerId = 0

Settled == OrdersLive /\ MainKnows /\ Fresh /\ PlannedMeansExecuted

LEMMA SettledInit == Init => Settled
<1> SUFFICES ASSUME Init PROVE Settled
  OBVIOUS
<1>1. pc[Main] = "idle" /\ 1..(nextOrderId - 1) = {} /\ Accepted = {}
  BY MainIsThread DEF Init, Accepted
<1>2. QED BY <1>1 DEF Init, Settled, OrdersLive, MainKnows, Fresh, PlannedMeansExecuted

(* Where the main thread stays, what it knows stays true as long as no     *)
(* opportunity becomes planned and no order new.                           *)
LEMMA KnowsKept ==
  ASSUME Shape, Settled,
         pc'[Main] = pc[Main] /\ job'[Main] = job[Main] /\ seen' = seen,
         \A o \in OppIds :
           /\ HasOrders(o) => opp'[o].buyId = opp[o].buyId /\ opp'[o].sellId = opp[o].sellId
           /\ opp'[o].state = "EXECUTED_AS_PLANNED" => opp[o].state = "EXECUTED_AS_PLANNED",
         \A i \in 1..(nextOrderId - 1) : order'[i].state = "NEW" => order[i].state = "NEW"
  PROVE  MainKnows'
<1> DEFINE o == job[Main]
<1>1. CASE pc[Main] \notin KnowingSteps
  BY <1>1 DEF MainKnows, KnowingSteps
<1>2. CASE pc[Main] \in KnowingSteps
  <2>1. o \in OppIds /\ HasOrders(o)
    BY <1>2, CallbackJob DEF KnowingSteps, JobSteps, CancelSteps, JudgeSteps
  <2>2. opp[o].buyId \in 1..(nextOrderId - 1) /\ opp[o].sellId \in 1..(nextOrderId - 1)
    BY <2>1, OppOwned
  <2>3. /\ BuyState(o)' = "NEW" => BuyState(o) = "NEW"
        /\ SellState(o)' = "NEW" => SellState(o) = "NEW"
    BY <2>1, <2>2 DEF BuyState, SellState
  <2>4. opp'[o].state = "EXECUTED_AS_PLANNED" => opp[o].state = "EXECUTED_AS_PLANNED"
    BY <2>1
  <2>5. MainKnows
    BY DEF Settled
  <2>6. QED BY <2>3, <2>4, <2>5 DEF MainKnows, BuyState, SellState
<1>3. QED BY <1>1, <1>2

LEMMA NothingToKnow == ASSUME pc'[Main] \notin KnowingSteps PROVE MainKnows'
BY DEF MainKnows, KnowingSteps

(* A thread that goes to no such step.                                     *)
LEMMA ElsewhereGone ==
  ASSUME Shape, NEW t \in Threads, NEW step, step \notin KnowingSteps, NEW o, Goto(t, step, o)
  PROVE  \/ pc'[Main] = pc[Main] /\ job'[Main] = job[Main]
         \/ pc'[Main] \notin KnowingSteps
BY MainIsThread DEF Goto, Shape, TypeOK

(* Steps that leave the states of orders and opportunities alone.          *)
LEMMA QuietSettled ==
  ASSUME Shape, Settled, SameOrders,
         UNCHANGED <<nextOppId, nextOrderId, order>>,
         \A o \in OppIds : /\ opp'[o].state = opp[o].state
                           /\ o \notin Accepted => opp'[o].timerId = opp[o].timerId,
         \/ pc'[Main] = pc[Main] /\ job'[Main] = job[Main] /\ seen' = seen
         \/ pc'[Main] \notin KnowingSteps
  PROVE  Settled'
<1>1. Accepted' = Accepted /\ Accepted \subseteq OppIds
  BY AcceptedAreOpps DEF Accepted, Shape
<1>2. OrdersLive'
  BY DEF Settled, OrdersLive
<1>3. MainKnows'
  BY KnowsKept, NothingToKnow DEF SameOrders
<1>4. Fresh'
  BY <1>1 DEF Settled, Fresh
<1>5. PlannedMeansExecuted'
  BY <1>1 DEF Settled, PlannedMeansExecuted, HasOrders, BuyState, SellState, SameOrders
<1>6. QED BY <1>2, <1>3, <1>4, <1>5 DEF Settled

LEMMA BooksKeptSettled ==
  ASSUME Shape, Settled, UNCHANGED books,
         \/ pc'[Main] = pc[Main] /\ job'[Main] = job[Main] /\ seen' = seen
         \/ pc'[Main] \notin KnowingSteps
  PROVE  Settled'
BY QuietSettled DEF books, SameOrders

(* What becomes of the planned opportunities when one order i changes: a   *)
(* planned one must not own it, or it must become EXECUTED.                *)
LEMMA OrderChangeSettled ==
  ASSUME Shape, Settled, NEW i \in OrderIds, NEW s \in {"EXECUTED", "CANCELLED"},
         order' = [order EXCEPT ![i].state = s],
         UNCHANGED <<nextOppId, opp, nextOrderId>>,
         s = "EXECUTED" \/ opp[order[i].opp].state # "EXECUTED_AS_PLANNED"
  PROVE  OrdersLive' /\ Fresh' /\ PlannedMeansExecuted'
<1>1. s \in OrderStates
  BY DEF OrderStates, ClosedOrderStates
<1>2. /\ order'[i].state = s
      /\ \A j \in OrderIds \ {i} : order'[j] = order[j]
  BY <1>1, OrderStateSet
<1>3. Accepted' = Accepted /\ Accepted \subseteq OppIds
  BY AcceptedAreOpps DEF Accepted, Shape
<1>4. OrdersLive'
  <2> SUFFICES ASSUME NEW j \in 1..(nextOrderId - 1) PROVE order'[j].state \in LiveOrderStates
    BY DEF OrdersLive
  <2>1. j \in OrderIds /\ order[j].state \in LiveOrderStates
    BY OrderOwned DEF Settled, OrdersLive
  <2>2. QED BY <2>1, <1>2 DEF LiveOrderStates
<1>5. Fresh'
  BY <1>3 DEF Settled, Fresh
<1>6. PlannedMeansExecuted'
  <2> SUFFICES ASSUME NEW p \in Accepted, opp[p].state = "EXECUTED_AS_PLANNED"
               PROVE  HasOrders(p)' /\ BuyState(p)' = "EXECUTED" /\ SellState(p)' = "EXECUTED"
    BY <1>3 DEF PlannedMeansExecuted
  <2>1. HasOrders(p) /\ BuyState(p) = "EXECUTED" /\ SellState(p) = "EXECUTED" /\ p \in OppIds
    BY <1>3 DEF Settled, PlannedMeansExecuted
  <2>2. /\ opp[p].buyId \in OrderIds /\ opp[p].sellId \in OrderIds
        /\ order[opp[p].buyId].opp = p /\ order[opp[p].sellId].opp = p
    BY <2>1, OppOwned
  <2>3. s = "EXECUTED" \/ (opp[p].buyId # i /\ opp[p].sellId # i)
    BY <2>2
  <2>4. QED BY <2>1, <2>2, <2>3, <1>2 DEF HasOrders, BuyState, SellState
<1>7. QED BY <1>4, <1>5, <1>6

LEMMA AcceptSettled ==
  ASSUME Shape, Settled, NEW t \in Threads, Accept(t)
  PROVE  Settled'
<1>1. nextOppId \in OppIds /\ nextOppId \notin Accepted
      /\ Accepted' = Accepted \cup {nextOppId} /\ Accepted \subseteq OppIds
  BY BoundsAssumption DEF Shape, TypeOK, OppIds, Accepted, Accept
<1>2. opp' = opp
  <2>1. opp[nextOppId].state = "ACCEPTED"
    BY <1>1 DEF Settled, Fresh
  <2>2. opp[nextOppId] = [opp[nextOppId] EXCEPT !.state = "ACCEPTED"]
    BY <2>1, <1>1 DEF Shape, TypeOK, OppRecord
  <2>3. QED BY <2>2, <1>1 DEF Accept, Shape, TypeOK
<1>3. UNCHANGED <<nextOrderId, order, seen>> /\ Goto(t, "arm", nextOppId)
  BY DEF Accept
<1>4. OrdersLive'
  BY <1>3 DEF Settled, OrdersLive
<1>5. MainKnows'
  BY <1>2, <1>3, ElsewhereGone, KnowsKept, NothingToKnow DEF KnowingSteps
<1>6. Fresh'
  BY <1>1, <1>2 DEF Settled, Fresh
<1>7. PlannedMeansExecuted'
  <2>1. opp[nextOppId].state = "ACCEPTED"
    BY <1>1 DEF Settled, Fresh
  <2>2. QED BY <2>1, <1>1, <1>2, <1>3
    DEF Settled, PlannedMeansExecuted, HasOrders, BuyState, SellState
<1>8. QED BY <1>4, <1>5, <1>6, <1>7 DEF Settled

(* The steps of an addTimer, and the assignment of its id.                 *)
LEMMA AddingSettled ==
  ASSUME Shape, Settled, NEW t \in Threads,
         ArmTimeout(t) \/ WriteId(t) \/ InsertTimeout(t) \/ TimeReport(t) \/ InsertReport(t)
  PROVE  Settled'
<1>1. /\ UNCHANGED <<nextOppId, nextOrderId, order, seen>>
      /\ \E step \in {"writeId", "insert", "place", "execSell", "idle"}, o \in {job[t], 0} :
           Goto(t, step, o)
  BY DEF ArmTimeout, WriteId, InsertTimeout, TimeReport, InsertReport, DrawId, Insert, books
<1>2. \/ pc'[Main] = pc[Main] /\ job'[Main] = job[Main]
      \/ pc'[Main] \notin KnowingSteps
  BY <1>1, ElsewhereGone DEF KnowingSteps
<1>3. CASE UNCHANGED opp
  BY <1>1, <1>2, <1>3, BooksKeptSettled DEF books
<1>4. CASE InsertTimeout(t)
  <2>1. /\ pc[t] = "insert" /\ adding[t].type = "OPPORTUNITY_TIMEOUT"
        /\ opp' = [opp EXCEPT ![job[t]].timerId = adding[t].id]
    BY <1>4 DEF InsertTimeout, Insert
  <2>2. job[t] \in Accepted /\ job[t] \in OppIds /\ adding[t].id \in Nat
    BY <2>1, PlacerKnows DEF PlacingSteps, Shape, AddersKnow, Adds, AddSteps, TimerRecord
  <2>3. /\ \A p \in OppIds \ {job[t]} : opp'[p] = opp[p]
        /\ \A p \in OppIds : opp'[p].state = opp[p].state
        /\ SameOrders
    BY <2>1, <2>2, OppTimerSet
  <2>4. QED BY <2>2, <2>3, <1>1, <1>2, QuietSettled
<1>5. QED BY <1>3, <1>4
  DEF ArmTimeout, WriteId, TimeReport, InsertReport, DrawId, books

LEMMA PlaceOrdersSettled ==
  ASSUME Shape, Settled, NEW t \in Threads, PlaceOrders(t)
  PROVE  Settled'
<1> DEFINE o == job[t]
           new == [state |-> "NEW", opp |-> o]
<1>1. o \in Accepted /\ o \in OppIds /\ ~HasOrders(o) /\ Accepted \subseteq OppIds
  BY PlacerKnows, AcceptedAreOpps
  DEF PlaceOrders, PlacingSteps, Unplaced, HasOrders, Shape
<1>2. /\ order' = [order EXCEPT ![nextOrderId] = new, ![nextOrderId + 1] = new]
      /\ opp' = [opp EXCEPT ![o].buyId = nextOrderId, ![o].sellId = nextOrderId + 1]
      /\ nextOrderId' = nextOrderId + 2
      /\ nextOppId' = nextOppId /\ seen' = seen
      /\ Goto(t, "execBuy", o)
  BY DEF PlaceOrders
<1>3. /\ nextOrderId' \in 1..(2 * MaxOpps + 1) /\ nextOrderId \in 1..(2 * MaxOpps + 1)
  BY PlaceOrdersShape DEF Shape, TypeOK
<1>4. /\ nextOrderId \in OrderIds /\ nextOrderId + 1 \in OrderIds
      /\ \A i \in 1..(nextOrderId - 1) : i \in OrderIds /\ i # nextOrderId /\ i # nextOrderId + 1
  BY <1>2, <1>3, BoundsAssumption DEF OrderIds
<1>5. /\ order'[nextOrderId] = new /\ order'[nextOrderId + 1] = new
      /\ \A i \in 1..(nextOrderId - 1) : order'[i] = order[i]
  BY <1>2, <1>4, BoundsAssumption DEF Shape, TypeOK, OrderIds
<1>6. /\ opp'[o].state = opp[o].state
      /\ opp'[o].timerId = opp[o].timerId
      /\ \A p \in OppIds \ {o} : opp'[p] = opp[p]
  BY <1>1, <1>2 DEF Shape, TypeOK, OppRecord
<1>7. OrdersLive'
  <2> SUFFICES ASSUME NEW i \in 1..(nextOrderId' - 1)
               PROVE  order'[i].state \in LiveOrderStates
    BY DEF OrdersLive
  <2>1. i \in 1..(nextOrderId - 1) \/ i = nextOrderId \/ i = nextOrderId + 1
    BY <1>2, <1>3
  <2>2. QED BY <2>1, <1>5 DEF Settled, OrdersLive, LiveOrderStates
<1>8. MainKnows'
  <2>1. \A p \in OppIds :
          /\ HasOrders(p) => opp'[p].buyId = opp[p].buyId /\ opp'[p].sellId = opp[p].sellId
          /\ opp'[p].state = opp[p].state
    BY <1>1, <1>6
  <2>2. \A i \in 1..(nextOrderId - 1) : order'[i].state = order[i].state
    BY <1>5
  <2>3. \/ pc'[Main] = pc[Main] /\ job'[Main] = job[Main]
        \/ pc'[Main] \notin KnowingSteps
    BY <1>2, ElsewhereGone DEF KnowingSteps
  <2>4. QED BY <2>1, <2>2, <2>3, <1>2, KnowsKept, NothingToKnow
<1>9. Fresh'
  BY <1>1, <1>2, <1>6 DEF Settled, Fresh, Accepted
<1>10. PlannedMeansExecuted'
  <2> SUFFICES ASSUME NEW p \in Accepted, opp'[p].state = "EXECUTED_AS_PLANNED"
               PROVE  HasOrders(p)' /\ BuyState(p)' = "EXECUTED" /\ SellState(p)' = "EXECUTED"
    BY <1>2 DEF PlannedMeansExecuted, Accepted
  <2>1. p # o
    BY <1>1, <1>6 DEF Settled, PlannedMeansExecuted
  <2>2. p \in OppIds /\ opp'[p] = opp[p]
    BY <2>1, <1>1, <1>6
  <2>3. HasOrders(p) /\ BuyState(p) = "EXECUTED" /\ SellState(p) = "EXECUTED"
    BY <2>2 DEF Settled, PlannedMeansExecuted
  <2>4. opp[p].buyId \in 1..(nextOrderId - 1) /\ opp[p].sellId \in 1..(nextOrderId - 1)
    BY <2>2, <2>3, OppOwned
  <2>5. QED BY <2>2, <2>3, <2>4, <1>5 DEF HasOrders, BuyState, SellState
<1>11. QED BY <1>7, <1>8, <1>9, <1>10 DEF Settled

LEMMA ExecuteSettled ==
  ASSUME Shape, Settled, NEW t \in Threads, ExecuteBuy(t) \/ ExecuteSell(t)
  PROVE  Settled'
<1>1. PICK i \in OrderIds : order' = [order EXCEPT ![i].state = "EXECUTED"]
  BY ExecuteEffect
<1>2. /\ UNCHANGED <<nextOppId, opp, nextOrderId, seen>>
      /\ \E step \in {"timeBuy", "timeSell", "execSell", "idle"}, o \in {job[t], 0} :
           Goto(t, step, o)
  BY ExecuteEffect
<1>3. OrdersLive' /\ Fresh' /\ PlannedMeansExecuted'
  BY <1>1, <1>2, OrderChangeSettled
<1>4. \/ pc'[Main] = pc[Main] /\ job'[Main] = job[Main]
      \/ pc'[Main] \notin KnowingSteps
  BY <1>2, ElsewhereGone DEF KnowingSteps
<1>5. \A j \in 1..(nextOrderId - 1) : order'[j].state = "NEW" => order[j].state = "NEW"
  <2>1. /\ order'[i].state = "EXECUTED" /\ \A j \in OrderIds \ {i} : order'[j] = order[j]
    BY <1>1, OrderStateSet DEF OrderStates, ClosedOrderStates
  <2>2. QED BY <2>1, OrderOwned
<1>6. MainKnows'
  BY <1>2, <1>4, <1>5, KnowsKept, NothingToKnow
<1>7. QED BY <1>3, <1>6 DEF Settled

(* The judgement says planned only of two executed orders, or again.       *)
LEMMA JudgementPlanned ==
  ASSUME NEW old, NEW buy \in LiveOrderStates, NEW sell \in LiveOrderStates,
         StateAfterReport(old, buy, sell) = "EXECUTED_AS_PLANNED"
  PROVE  (buy = "EXECUTED" /\ sell = "EXECUTED") \/ old = "EXECUTED_AS_PLANNED"
<1>1. CASE buy = "EXECUTED" /\ sell = "EXECUTED"
  BY <1>1
<1>2. CASE ~(buy = "EXECUTED" /\ sell = "EXECUTED")
  <2>1. {buy, sell} # {"EXECUTED"}
    BY <1>2
  <2>2. StateAfterReport(old, buy, sell)
          \in {"CANCELLED", "PARTIALLY_EXECUTED", "CANCELLING", old}
    BY <2>1 DEF StateAfterReport
  <2>3. QED BY <2>2
<1>3. QED BY <1>1, <1>2

LEMMA OrderReportSettled ==
  ASSUME Shape, Settled, NEW tm \in batch, OrderReport(tm)
  PROVE  Settled'
<1> DEFINE i == tm.ref
           o == order[i].opp
           buy == order'[opp[o].buyId].state
           sell == order'[opp[o].sellId].state
           state == StateAfterReport(opp[o].state, buy, sell)
<1>1. /\ i \in OrderIds /\ o \in Accepted /\ o \in OppIds /\ HasOrders(o)
      /\ order' = [order EXCEPT ![i].state = "EXECUTED"]
      /\ opp' = [opp EXCEPT ![o].state = state]
      /\ state \in OppStates
      /\ MainGoesTo(StepAfterReport(state, buy, sell), o)
      /\ UNCHANGED <<nextOppId, nextOrderId, seen>>
  BY ReportEffect
<1>2. /\ opp[o].buyId \in 1..(nextOrderId - 1) /\ opp[o].sellId \in 1..(nextOrderId - 1)
      /\ opp[o].buyId \in OrderIds /\ opp[o].sellId \in OrderIds
  BY <1>1, OppOwned
<1>3. /\ order'[i].state = "EXECUTED"
      /\ \A j \in OrderIds \ {i} : order'[j] = order[j]
  BY <1>1, OrderStateSet DEF OrderStates, ClosedOrderStates
<1>4. \A j \in 1..(nextOrderId - 1) : j \in OrderIds /\ order'[j].state \in LiveOrderStates
  <2> SUFFICES ASSUME NEW j \in 1..(nextOrderId - 1)
               PROVE  j \in OrderIds /\ order'[j].state \in LiveOrderStates
    OBVIOUS
  <2>1. j \in OrderIds /\ order[j].state \in LiveOrderStates
    BY OrderOwned DEF Settled, OrdersLive
  <2>2. QED BY <2>1, <1>3 DEF LiveOrderStates
<1>5. buy \in LiveOrderStates /\ sell \in LiveOrderStates
  BY <1>2, <1>4
<1>6. opp[o].state = "EXECUTED_AS_PLANNED" => buy = "EXECUTED" /\ sell = "EXECUTED"
  BY <1>1, <1>2, <1>3 DEF Settled, PlannedMeansExecuted, BuyState, SellState
<1>7. state = "EXECUTED_AS_PLANNED" => buy = "EXECUTED" /\ sell = "EXECUTED"
  BY <1>5, <1>6, JudgementPlanned
<1>8. StepAfterReport(state, buy, sell) \in {"idle", "stop", "stopAgain", "checkBuy"}
  BY DEF StepAfterReport
<1> HIDE DEF state, buy, sell
<1>9. /\ opp'[o].state = state /\ SameOrders
      /\ \A p \in OppIds \ {o} : opp'[p] = opp[p]
      /\ \A p \in OppIds : opp'[p].timerId = opp[p].timerId
  BY <1>1, OppStateSet
<1>10. Accepted' = Accepted /\ Accepted \subseteq OppIds
  BY <1>1, AcceptedAreOpps DEF Shape, Accepted
<1>11. OrdersLive'
  BY <1>1, <1>4 DEF OrdersLive
<1>12. MainKnows'
  <2>1. pc'[Main] = StepAfterReport(state, buy, sell)
    BY <1>1, MainIsThread DEF MainGoesTo, Goto, Shape, TypeOK
  <2>2. QED BY <2>1, <1>8, NothingToKnow DEF KnowingSteps
<1>13. Fresh'
  BY <1>1, <1>9, <1>10 DEF Settled, Fresh
<1>14. PlannedMeansExecuted'
  <2> SUFFICES ASSUME NEW p \in Accepted, opp'[p].state = "EXECUTED_AS_PLANNED"
               PROVE  HasOrders(p)' /\ BuyState(p)' = "EXECUTED" /\ SellState(p)' = "EXECUTED"
    BY <1>10 DEF PlannedMeansExecuted
  <2>1. CASE p = o
    BY <2>1, <1>1, <1>7, <1>9, <1>10 DEF HasOrders, BuyState, SellState, SameOrders, buy, sell
  <2>2. CASE p # o
    <3>1. p \in OppIds /\ opp'[p] = opp[p]
      BY <2>2, <1>9, <1>10
    <3>2. HasOrders(p) /\ BuyState(p) = "EXECUTED" /\ SellState(p) = "EXECUTED"
      BY <3>1 DEF Settled, PlannedMeansExecuted
    <3>3. opp[p].buyId \in OrderIds /\ opp[p].sellId \in OrderIds
      BY <3>1, <3>2, OppOwned
    <3>4. QED BY <3>1, <3>2, <3>3, <1>3 DEF HasOrders, BuyState, SellState
  <2>3. QED BY <2>1, <2>2
<1>15. QED BY <1>11, <1>12, <1>13, <1>14 DEF Settled

LEMMA StopSettled == ASSUME Shape, Settled, StopAtOnce \/ StopWhenSettled PROVE Settled'
<1>1. pc'[Main] \notin KnowingSteps
  BY MainIsThread DEF StopAtOnce, StopWhenSettled, MainGoesTo, Goto, Shape, TypeOK, KnowingSteps
<1>2. CASE StopAtOnce
  BY <1>1, <1>2, BooksKeptSettled DEF StopAtOnce
<1>3. CASE StopWhenSettled
  <2>1. job[Main] \in Accepted /\ job[Main] \in OppIds
    BY <1>3, CallbackJob DEF StopWhenSettled, JobSteps, StopSteps
  <2>2. /\ opp' = [opp EXCEPT ![job[Main]].timerId = 0]
        /\ UNCHANGED <<nextOppId, nextOrderId, order>>
    BY <1>3 DEF StopWhenSettled
  <2>3. /\ \A p \in OppIds \ {job[Main]} : opp'[p] = opp[p]
        /\ \A p \in OppIds : opp'[p].state = opp[p].state
        /\ SameOrders
    BY <2>1, <2>2, OppTimerSet
  <2>4. QED BY <1>1, <2>1, <2>2, <2>3, QuietSettled
<1>4. QED BY <1>2, <1>3

LEMMA TimeoutSettled ==
  ASSUME Shape, Settled, NEW tm \in batch, NEW id,
         \/ TimeoutUnknown(tm, id)
         \/ TimeoutWithoutOrders(tm, id)
         \/ TimeoutReadsBuy(tm, id)
  PROVE  Settled'
<1>1. UNCHANGED books
  BY DEF TimeoutUnknown, TimeoutWithoutOrders, TimeoutReadsBuy, TimeoutFor
<1>2. CASE TimeoutUnknown(tm, id)
  BY <1>1, <1>2, BooksKeptSettled DEF TimeoutUnknown
<1>3. CASE TimeoutWithoutOrders(tm, id)
  <2>1. pc'[Main] = "noOrders"
    BY <1>3, MainIsThread DEF TimeoutWithoutOrders, Goto, Shape, TypeOK
  <2>2. QED BY <2>1, <1>1, BooksKeptSettled DEF KnowingSteps
<1>4. CASE TimeoutReadsBuy(tm, id)
  <2>1. /\ id \in Accepted /\ id \in OppIds /\ HasOrders(id) /\ seen' = BuyState(id)
        /\ pc'[Main] = "judgeSell" /\ job'[Main] = id
    BY <1>4, MainIsThread, AcceptedAreOpps DEF TimeoutReadsBuy, Goto, Shape, TypeOK
  <2>2. BuyState(id) \in LiveOrderStates
    BY <2>1, OppOwned DEF Settled, OrdersLive, BuyState
  <2>3. BuyState(id) = "NEW" => opp[id].state # "EXECUTED_AS_PLANNED"
    BY <2>1 DEF Settled, PlannedMeansExecuted
  <2>4. MainKnows'
    BY <2>1, <2>2, <2>3, <1>1 DEF MainKnows, BuyState, books
  <2>5. OrdersLive' /\ Fresh' /\ PlannedMeansExecuted'
    BY <1>1 DEF Settled, OrdersLive, Fresh, PlannedMeansExecuted, books, Accepted, HasOrders,
       BuyState, SellState
  <2>6. QED BY <2>4, <2>5 DEF Settled
<1>5. QED BY <1>2, <1>3, <1>4

LEMMA LogSettled == ASSUME Shape, Settled, LogOpportunity PROVE Settled'
<1>1. pc'[Main] \in {"idle", "blocked"} /\ UNCHANGED books
  BY MainIsThread DEF LogOpportunity, Goto, Shape, TypeOK
<1>2. QED BY <1>1, BooksKeptSettled DEF KnowingSteps

(* Settling is decided on one leg NEW and one not, neither read again.     *)
LEMMA JudgeSettled == ASSUME Shape, Settled, JudgeSell PROVE Settled'
<1> DEFINE o == job[Main]
           legs == {seen, SellState(o)}
<1>1. /\ pc[Main] = "judgeSell" /\ o \in Accepted /\ o \in OppIds /\ HasOrders(o)
      /\ UNCHANGED books
      /\ \/ MainGoesTo("checkBuy", o)
         \/ MainGoesTo("idle", o)
         \/ MainGoesTo("settle", o) /\ legs # {"NEW"} /\ ~(legs \subseteq ClosedOrderStates)
  BY JudgeEffect
<1>2. CASE MainGoesTo("checkBuy", o) \/ MainGoesTo("idle", o)
  <2>1. pc'[Main] \in {"checkBuy", "idle"}
    BY <1>2, MainIsThread DEF MainGoesTo, Goto, Shape, TypeOK
  <2>2. QED BY <2>1, <1>1, BooksKeptSettled DEF KnowingSteps
<1>3. CASE MainGoesTo("settle", o) /\ legs # {"NEW"} /\ ~(legs \subseteq ClosedOrderStates)
  <2>1. pc'[Main] = "settle" /\ job'[Main] = o
    BY <1>3, MainIsThread DEF MainGoesTo, Goto, Shape, TypeOK
  <2>2. /\ seen \in LiveOrderStates
        /\ seen = "NEW" => opp[o].state # "EXECUTED_AS_PLANNED"
        /\ seen # "NEW" => BuyState(o) # "NEW"
    BY <1>1 DEF Settled, MainKnows
  <2>3. SellState(o) \in LiveOrderStates
        /\ (SellState(o) = "NEW" => opp[o].state # "EXECUTED_AS_PLANNED")
    BY <1>1, OppOwned DEF Settled, OrdersLive, SellState, PlannedMeansExecuted
  <2>4. (seen = "NEW" /\ SellState(o) # "NEW") \/ (seen # "NEW" /\ SellState(o) = "NEW")
    BY <1>3, <2>2, <2>3 DEF LiveOrderStates, ClosedOrderStates
  <2>5. /\ opp[o].state # "EXECUTED_AS_PLANNED"
        /\ BuyState(o) # "NEW" \/ SellState(o) # "NEW"
    BY <2>2, <2>3, <2>4
  <2>6. MainKnows'
    BY <2>1, <2>5, <1>1 DEF MainKnows, BuyState, SellState, books
  <2>7. OrdersLive' /\ Fresh' /\ PlannedMeansExecuted'
    BY <1>1 DEF Settled, OrdersLive, Fresh, PlannedMeansExecuted, books, Accepted, HasOrders,
       BuyState, SellState
  <2>8. QED BY <2>6, <2>7 DEF Settled
<1>4. QED BY <1>1, <1>2, <1>3

LEMMA SettleSettled == ASSUME Shape, Settled, Settle PROVE Settled'
<1> DEFINE o == job[Main]
<1>1. /\ o \in Accepted /\ o \in OppIds
      /\ opp' = [opp EXCEPT ![o].state = "EXECUTION_TIMEOUT"]
      /\ "EXECUTION_TIMEOUT" \in OppStates
      /\ Goto(Main, "checkBuy", o)
      /\ UNCHANGED <<nextOppId, nextOrderId, order>>
  BY SettleEffect
<1>2. /\ opp'[o].state = "EXECUTION_TIMEOUT"
      /\ \A p \in OppIds \ {o} : opp'[p] = opp[p]
  BY <1>1, OppStateSet
<1>3. Accepted' = Accepted /\ Accepted \subseteq OppIds
  BY <1>1, AcceptedAreOpps DEF Shape, Accepted
<1>4. MainKnows'
  <2>1. pc'[Main] = "checkBuy"
    BY <1>1, MainIsThread DEF Goto, Shape, TypeOK
  <2>2. QED BY <2>1, NothingToKnow DEF KnowingSteps
<1>5. OrdersLive' /\ Fresh'
  BY <1>1, <1>2, <1>3 DEF Settled, OrdersLive, Fresh
<1>6. PlannedMeansExecuted'
  BY <1>1, <1>2, <1>3 DEF Settled, PlannedMeansExecuted, HasOrders, BuyState, SellState
<1>7. QED BY <1>4, <1>5, <1>6 DEF Settled

LEMMA CancelSettled == ASSUME Shape, Settled, CancelOrders PROVE Settled'
<1> DEFINE o == job[Main]
<1>1. /\ pc[Main] \in CancelSteps
      /\ o \in Accepted /\ o \in OppIds /\ HasOrders(o)
      /\ UNCHANGED <<nextOppId, opp, nextOrderId, clockwork, adding, seen>>
  BY CancelEffect
<1>2. /\ opp[o].buyId \in OrderIds /\ opp[o].sellId \in OrderIds
      /\ order[opp[o].buyId].opp = o /\ order[opp[o].sellId].opp = o
  BY <1>1, OppOwned
<1>3. pc'[Main] \in CancelSteps \cup {"idle"}
  BY CancelEffect, MainIsThread DEF MainGoesTo, Goto, Shape, TypeOK
<1>4. CASE UNCHANGED order
  <2>1. CASE pc'[Main] \notin {"cancelBuy", "cancelSell"}
    BY <2>1, <1>1, <1>3, <1>4, BooksKeptSettled DEF books, KnowingSteps, CancelSteps
  <2>2. CASE pc'[Main] \in {"cancelBuy", "cancelSell"}
    <3>1. /\ job'[Main] = o
          /\ \/ order[opp[o].buyId].state \in OpenOrderStates
             \/ order[opp[o].sellId].state \in OpenOrderStates
      BY <2>2, MainIsThread
      DEF CancelOrders, CheckLeg, CancelLeg, MainGoesTo, Goto, Shape, TypeOK
    <3>2. opp[o].state # "EXECUTED_AS_PLANNED"
      BY <3>1, <1>1 DEF Settled, PlannedMeansExecuted, BuyState, SellState, OpenOrderStates
    <3>3. MainKnows'
      BY <2>2, <3>1, <3>2, <1>1 DEF MainKnows
    <3>4. OrdersLive' /\ Fresh' /\ PlannedMeansExecuted'
      BY <1>1, <1>4 DEF Settled, OrdersLive, Fresh, PlannedMeansExecuted, Accepted, HasOrders,
         BuyState, SellState
    <3>5. QED BY <3>3, <3>4 DEF Settled
  <2>3. QED BY <2>1, <2>2
<1>5. CASE ~UNCHANGED order
  <2>1. PICK i \in OrderIds : /\ i \in {opp[o].buyId, opp[o].sellId}
                              /\ order' = [order EXCEPT ![i].state = "CANCELLED"]
    BY <1>5, CancelEffect
  <2>2. pc[Main] \in {"cancelBuy", "cancelSell"}
    BY <1>5, CancelEffect
  <2>3. opp[o].state # "EXECUTED_AS_PLANNED"
    BY <2>2 DEF Settled, MainKnows
  <2>4. order[i].opp = o
    BY <2>1, <1>2
  <2>5. OrdersLive' /\ Fresh' /\ PlannedMeansExecuted'
    BY <2>1, <2>3, <2>4, <1>1, OrderChangeSettled
  <2>6. pc'[Main] \notin KnowingSteps
    <3>1. pc'[Main] \notin {"cancelBuy", "cancelSell"}
      BY <1>5, MainIsThread
      DEF CancelOrders, CheckLeg, CancelLeg, books, MainGoesTo, Goto, Shape, TypeOK
    <3>2. QED BY <3>1, <1>3 DEF KnowingSteps, CancelSteps
  <2>7. QED BY <2>5, <2>6, NothingToKnow DEF Settled
<1>6. QED BY <1>4, <1>5

LEMMA SettledStep == Shape /\ Settled /\ [Next]_vars => Settled'
<1> SUFFICES ASSUME Shape, Settled, [Next]_vars PROVE Settled'
  OBVIOUS
<1>1. CASE Tick \/ CheckTimers
  BY <1>1, BooksKeptSettled DEF Tick, CheckTimers, control
<1>2. CASE Callback
  BY <1>2, OrderReportSettled, StopSettled, TimeoutSettled, LogSettled, JudgeSettled,
     SettleSettled, CancelSettled DEF Callback
<1>3. ASSUME NEW t \in Threads, Accept(t) PROVE Settled'
  BY <1>3, AcceptSettled
<1>4. ASSUME NEW t \in Threads, Placing(t) PROVE Settled'
  BY <1>4, AddingSettled, PlaceOrdersSettled, ExecuteSettled DEF Placing
<1>5. CASE UNCHANGED vars
  BY <1>5, BooksKeptSettled DEF vars, control
<1>6. QED BY <1>1, <1>2, <1>3, <1>4, <1>5 DEF Next

LEMMA SettledAlways == Spec => []Settled
<1>1. QED BY SettledInit, SettledStep, ShapeAlways, PTL DEF Spec

(* An opportunity is EXECUTED_AS_PLANNED only while both of its orders are *)
(* EXECUTED, although Order::cancel and Order::execute never look at the   *)
(* state they overwrite (order.cpp 29-58) and cancelOrder checks it        *)
(* without a lock (order_mgr.cpp 227-254).                                 *)
THEOREM PlannedExecuted == Spec => []PlannedMeansExecuted
<1>1. Settled => PlannedMeansExecuted
  BY DEF Settled
<1>2. QED BY <1>1, SettledAlways, PTL

-----------------------------------------------------------------------------
(* Owned.  Two timers may share an id; what follows is about the others.   *)

Adding == {adding[t] : t \in {u \in Threads : pc[u] \in AddSteps}}
Live == timers \cup batch \cup Adding

(* Ids of live timers were drawn, and those not shared once; 0 never was.  *)
LiveDrawn == \A tm \in Live : tm.id \in drawn
TimersDistinct == \A tm, u \in Live : tm.id = u.id /\ tm.id \notin shared => tm = u

(* So were the ids the opportunities hold, but for the initial 0; each is  *)
(* that of a timeout of the opportunity, and only a shared id was robbed.  *)
TimeoutIdsKnown == \A o \in OppIds : opp[o].timerId \in drawn \cup {0}
IdsOwned ==
  \A o \in Accepted : \A tm \in Live :
    tm.id = opp[o].timerId /\ tm.id \notin shared => IsTimeoutOf(tm, o)
RobbedShared == \A tm \in robbed : tm.id \in shared

(* A timeout still in the store is the one its opportunity names, and      *)
(* found by its id; one about to arm its timeout names none.               *)
TimeoutsArmed ==
  \A tm \in timers : tm.type = "OPPORTUNITY_TIMEOUT" /\ tm.id \notin shared =>
    tm \in indexed /\ tm.ref \in Accepted /\ opp[tm.ref].timerId = tm.id
UnarmedHaveNone == \A t \in Threads : Unarmed(t) => opp[job[t]].timerId = 0

Owned ==
  /\ LiveDrawn
  /\ TimersDistinct
  /\ TimeoutIdsKnown
  /\ IdsOwned
  /\ RobbedShared
  /\ TimeoutsArmed
  /\ UnarmedHaveNone
  /\ PlannedHasNoTimeout

LEMMA OwnedInit == Init => Owned
<1> SUFFICES ASSUME Init PROVE Owned
  OBVIOUS
<1>1. \A t \in Threads : pc[t] \notin AddSteps /\ ~Unarmed(t)
  BY DEF Init, AddSteps, Unarmed
<1>2. Live = {}
  BY <1>1 DEF Init, Live, Adding
<1>3. QED BY <1>1, <1>2
  DEF Init, Owned, LiveDrawn, TimersDistinct, TimeoutIdsKnown, IdsOwned, RobbedShared,
      TimeoutsArmed, UnarmedHaveNone, PlannedHasNoTimeout, Accepted

(* No thread begins to add a timer.                                        *)
AddsKept ==
  \A t \in Threads :
    /\ pc'[t] \in AddSteps =>
         pc[t] \in AddSteps /\ adding'[t] = adding[t] /\ job'[t] = job[t]
    /\ pc'[t] = "arm" => pc[t] = "arm" /\ job'[t] = job[t]

LEMMA AddsKeptGone ==
  ASSUME Shape, NEW t \in Threads, NEW step, step \notin AddSteps \cup {"arm"}, NEW o,
         Goto(t, step, o), UNCHANGED adding
  PROVE  AddsKept
BY DEF AddsKept, Goto, Shape, TypeOK

LEMMA AddsKeptStays == ASSUME UNCHANGED <<pc, job, adding>> PROVE AddsKept
BY DEF AddsKept

LEMMA UnarmedJobs == ASSUME Shape, NEW t \in Threads, Unarmed(t) PROVE job[t] \in OppIds
BY PlacerKnows DEF Unarmed, AddSteps, PlacingSteps

(* Steps that begin no timer, at most move timers to the batch or let them *)
(* go, and make no opportunity planned but one whose timeout they go on to *)
(* stop.                                                                   *)
LEMMA OwnedKept ==
  ASSUME Shape, Owned, AddsKept,
         timers' \subseteq timers, timers' \cup batch' \subseteq timers \cup batch,
         \A tm \in timers' : tm \in indexed /\ tm.id \notin shared => tm \in indexed',
         \A tm \in robbed' : tm \in robbed \/ tm.id \in shared,
         UNCHANGED <<nextOppId, drawn, shared>>,
         \A o \in OppIds :
           /\ opp'[o].timerId = opp[o].timerId
           /\ opp'[o].state = "EXECUTED_AS_PLANNED" /\ ~(pc'[Main] \in StopSteps /\ job'[Main] = o) =>
                opp[o].state = "EXECUTED_AS_PLANNED" /\ ~(pc[Main] \in StopSteps /\ job[Main] = o)
  PROVE  Owned'
<1>1. Accepted' = Accepted /\ Accepted \subseteq OppIds
  BY AcceptedAreOpps DEF Shape, Accepted
<1>2. Live' \subseteq Live
  BY DEF Live, Adding, AddsKept
<1>3. LiveDrawn' /\ TimersDistinct' /\ RobbedShared'
  BY <1>2 DEF Owned, LiveDrawn, TimersDistinct, RobbedShared
<1>4. TimeoutIdsKnown'
  BY DEF Owned, TimeoutIdsKnown
<1>5. IdsOwned'
  BY <1>1, <1>2 DEF Owned, IdsOwned
<1>6. TimeoutsArmed'
  BY <1>1 DEF Owned, TimeoutsArmed
<1>7. UnarmedHaveNone'
  <2> SUFFICES ASSUME NEW t \in Threads, Unarmed(t)' PROVE opp'[job'[t]].timerId = 0
    BY DEF UnarmedHaveNone
  <2>1. Unarmed(t) /\ job'[t] = job[t]
    BY DEF Unarmed, AddsKept
  <2>2. QED BY <2>1, UnarmedJobs DEF Owned, UnarmedHaveNone
<1>8. PlannedHasNoTimeout'
  BY <1>1 DEF Owned, PlannedHasNoTimeout
<1>9. QED BY <1>3, <1>4, <1>5, <1>6, <1>7, <1>8 DEF Owned

(* Those of them that touch neither timers nor ids.                        *)
LEMMA OwnedStays ==
  ASSUME Shape, Owned, AddsKept,
         UNCHANGED <<nextOppId, timers, indexed, robbed, drawn, shared>>, batch' \subseteq batch,
         \A o \in OppIds :
           /\ opp'[o].timerId = opp[o].timerId
           /\ opp'[o].state = "EXECUTED_AS_PLANNED" /\ ~(pc'[Main] \in StopSteps /\ job'[Main] = o) =>
                opp[o].state = "EXECUTED_AS_PLANNED" /\ ~(pc[Main] \in StopSteps /\ job[Main] = o)
  PROVE  Owned'
<1>1. /\ timers' \subseteq timers /\ timers' \cup batch' \subseteq timers \cup batch
      /\ \A tm \in timers' : tm \in indexed /\ tm.id \notin shared => tm \in indexed'
      /\ \A tm \in robbed' : tm \in robbed \/ tm.id \in shared
  OBVIOUS
<1>2. QED BY <1>1, OwnedKept

(* A thread that goes elsewhere.                                           *)
LEMMA NotStopping ==
  ASSUME Shape, NEW t \in Threads, NEW step, NEW o, Goto(t, step, o), NEW p,
         t = Main => pc[Main] \notin StopSteps,
         ~(pc'[Main] \in StopSteps /\ job'[Main] = p)
  PROVE  ~(pc[Main] \in StopSteps /\ job[Main] = p)
BY MainIsThread DEF Goto, Shape, TypeOK

LEMMA AcceptOwned ==
  ASSUME Shape, Settled, Owned, NEW t \in Threads, Accept(t)
  PROVE  Owned'
<1>1. nextOppId \in OppIds /\ nextOppId \notin Accepted
      /\ Accepted' = Accepted \cup {nextOppId} /\ Accepted \subseteq OppIds
  BY BoundsAssumption DEF Shape, TypeOK, OppIds, Accepted, Accept
<1>2. /\ pc[t] = "idle" /\ Goto(t, "arm", nextOppId)
      /\ opp' = [opp EXCEPT ![nextOppId].state = "ACCEPTED"]
      /\ UNCHANGED <<timers, indexed, batch, drawn, shared, robbed, adding>>
  BY DEF Accept, clockwork, store, ids
<1>3. /\ opp'[nextOppId].state = "ACCEPTED"
      /\ \A o \in OppIds \ {nextOppId} : opp'[o] = opp[o]
      /\ \A o \in OppIds : opp'[o].timerId = opp[o].timerId
  BY <1>1, <1>2, OppStateSet DEF OppStates
<1>4. opp[nextOppId].timerId = 0
  BY <1>1 DEF Settled, Fresh
<1>5. /\ pc'[t] = "arm" /\ job'[t] = nextOppId
      /\ \A u \in Threads \ {t} : pc'[u] = pc[u] /\ job'[u] = job[u]
  BY <1>2 DEF Goto, Shape, TypeOK
<1>6. Live' = Live
  BY <1>2, <1>5 DEF Live, Adding, AddSteps
<1>7. LiveDrawn' /\ TimersDistinct' /\ RobbedShared'
  BY <1>2, <1>6 DEF Owned, LiveDrawn, TimersDistinct, RobbedShared
<1>8. TimeoutIdsKnown'
  BY <1>2, <1>3 DEF Owned, TimeoutIdsKnown
<1>9. IdsOwned'
  <2> SUFFICES ASSUME NEW o \in Accepted', NEW tm \in Live, tm.id = opp[o].timerId,
                      tm.id \notin shared
               PROVE  IsTimeoutOf(tm, o)
    BY <1>1, <1>2, <1>3, <1>6 DEF IdsOwned, IsTimeoutOf
  <2>1. tm.id # 0
    BY DEF Owned, LiveDrawn, Shape, TypeOK
  <2>2. QED BY <2>1, <1>1, <1>4 DEF Owned, IdsOwned
<1>10. TimeoutsArmed'
  BY <1>1, <1>2, <1>3 DEF Owned, TimeoutsArmed
<1>11. UnarmedHaveNone'
  <2> SUFFICES ASSUME NEW u \in Threads, Unarmed(u)' PROVE opp'[job'[u]].timerId = 0
    BY DEF UnarmedHaveNone
  <2>1. CASE u = t
    BY <2>1, <1>1, <1>3, <1>4, <1>5
  <2>2. CASE u # t
    <3>1. Unarmed(u) /\ job'[u] = job[u]
      BY <2>2, <1>2, <1>5 DEF Unarmed
    <3>2. QED BY <3>1, <1>3, UnarmedJobs DEF Owned, UnarmedHaveNone
  <2>3. QED BY <2>1, <2>2
<1>12. PlannedHasNoTimeout'
  <2> SUFFICES ASSUME NEW o \in Accepted', opp'[o].state = "EXECUTED_AS_PLANNED",
                      ~(pc'[Main] \in StopSteps /\ job'[Main] = o),
                      NEW tm \in timers, IsTimeoutOf(tm, o)
               PROVE  tm.id \in shared
    BY <1>2 DEF PlannedHasNoTimeout, IsTimeoutOf
  <2>1. o \in Accepted /\ opp[o].state = "EXECUTED_AS_PLANNED"
    BY <1>1, <1>3
  <2>2. ~(pc[Main] \in StopSteps /\ job[Main] = o)
    BY <1>2, NotStopping DEF StopSteps
  <2>3. QED BY <2>1, <2>2 DEF Owned, PlannedHasNoTimeout
<1>13. QED BY <1>7, <1>8, <1>9, <1>10, <1>11, <1>12 DEF Owned

(* An id drawn: a new one, unless it is shared from now on.                *)
LEMMA DrawOwned ==
  ASSUME Shape, Owned, NEW t \in Threads, NEW from \in PlacingSteps \ AddSteps,
         NEW delay, NEW type, NEW ref, DrawId(t, from, delay, type, ref),
         type = "OPPORTUNITY_TIMEOUT" => from = "arm"
  PROVE  Owned'
<1> DEFINE new == [id |-> nextTimerId, at |-> Deadline(delay), ref |-> ref, type |-> type]
<1>1. /\ pc[t] = from /\ adding' = [adding EXCEPT ![t] = new]
      /\ drawn' = drawn \cup {nextTimerId} /\ shared' = shared \cup ({nextTimerId} \cap drawn)
      /\ Goto(t, "writeId", job[t])
      /\ UNCHANGED <<books, timers, indexed, batch, robbed>>
  BY DEF DrawId, store
<1>2. new.id = nextTimerId /\ new.type = type /\ nextTimerId \in Nat \ {0}
  BY DEF Shape, TypeOK
<1> HIDE DEF new
<1>3. /\ pc'[t] = "writeId" /\ job'[t] = job[t] /\ adding'[t] = new
      /\ \A u \in Threads \ {t} : pc'[u] = pc[u] /\ job'[u] = job[u] /\ adding'[u] = adding[u]
  BY <1>1 DEF Goto, Shape, TypeOK
<1>4. Live' \subseteq Live \cup {new}
  BY <1>1, <1>3 DEF Live, Adding
<1>5. shared \subseteq shared' /\ nextTimerId \in drawn'
      /\ (nextTimerId \notin shared' => nextTimerId \notin drawn)
  BY <1>1
<1>6. UNCHANGED <<nextOppId, opp>> /\ Accepted' = Accepted /\ Accepted \subseteq OppIds
  BY <1>1, AcceptedAreOpps DEF books, Accepted, Shape
<1>7. LiveDrawn'
  BY <1>1, <1>2, <1>4 DEF Owned, LiveDrawn
<1>8. TimersDistinct'
  <2> SUFFICES ASSUME NEW tm \in Live \cup {new}, NEW u \in Live \cup {new}, tm.id = u.id,
                      tm.id \notin shared'
               PROVE  tm = u
    BY <1>4 DEF TimersDistinct
  <2>1. tm \in Live /\ u \in Live => tm = u
    BY <1>5 DEF Owned, TimersDistinct
  <2>2. \A v \in Live : v.id \in drawn
    BY DEF Owned, LiveDrawn
  <2>3. QED BY <2>1, <2>2, <1>2, <1>5
<1>9. TimeoutIdsKnown' /\ RobbedShared'
  BY <1>1, <1>6 DEF Owned, TimeoutIdsKnown, RobbedShared
<1>10. IdsOwned'
  <2> SUFFICES ASSUME NEW o \in Accepted, NEW tm \in Live \cup {new}, tm.id = opp[o].timerId,
                      tm.id \notin shared'
               PROVE  IsTimeoutOf(tm, o)
    BY <1>4, <1>6 DEF IdsOwned, IsTimeoutOf
  <2>1. opp[o].timerId \in drawn \cup {0}
    BY <1>6 DEF Owned, TimeoutIdsKnown
  <2>2. tm # new
    BY <2>1, <1>2, <1>5
  <2>3. QED BY <2>2, <1>5 DEF Owned, IdsOwned
<1>11. TimeoutsArmed'
  BY <1>1, <1>5, <1>6 DEF Owned, TimeoutsArmed
<1>12. UnarmedHaveNone'
  <2> SUFFICES ASSUME NEW u \in Threads, Unarmed(u)' PROVE opp'[job'[u]].timerId = 0
    BY DEF UnarmedHaveNone
  <2>1. Unarmed(u) /\ job'[u] = job[u]
    BY <1>1, <1>2, <1>3 DEF Unarmed
  <2>2. QED BY <2>1, <1>6 DEF Owned, UnarmedHaveNone
<1>13. PlannedHasNoTimeout'
  <2> SUFFICES ASSUME NEW o \in Accepted, opp[o].state = "EXECUTED_AS_PLANNED",
                      ~(pc'[Main] \in StopSteps /\ job'[Main] = o),
                      NEW tm \in timers, IsTimeoutOf(tm, o)
               PROVE  tm.id \in shared
    BY <1>1, <1>5, <1>6 DEF PlannedHasNoTimeout, IsTimeoutOf
  <2>1. ~(pc[Main] \in StopSteps /\ job[Main] = o)
    <3>1. t = Main => pc[Main] \notin StopSteps
      BY <1>1 DEF PlacingSteps, StopSteps
    <3>2. QED BY <3>1, <1>1, NotStopping
  <2>2. QED BY <2>1 DEF Owned, PlannedHasNoTimeout
<1>14. QED BY <1>7, <1>8, <1>9, <1>10, <1>11, <1>12, <1>13 DEF Owned

(* A timer inserted.  Its opportunity, when it is a timeout, takes its id: *)
(* whoever has that id and does not share it is that timer.                *)
LEMMA InsertOwned ==
  ASSUME Shape, Settled, Owned, NEW t \in Threads, NEW next \in {"place", "execSell", "idle"},
         NEW o, Insert(t, next, o),
         \/ /\ adding[t].type = "ORDER_TEST_STATE_CHANGE"
            /\ UNCHANGED opp
         \/ /\ adding[t].type = "OPPORTUNITY_TIMEOUT"
            /\ opp' = [opp EXCEPT ![job[t]].timerId = adding[t].id]
  PROVE  Owned'
<1> DEFINE new == adding[t]
           j == job[t]
<1>1. /\ pc[t] = "insert" /\ timers' = timers \cup {new} /\ batch' = batch
      /\ indexed' = {tm \in indexed : tm.id # new.id} \cup {new}
      /\ adding' = [adding EXCEPT ![t] = NoTimer]
      /\ Goto(t, next, o)
      /\ UNCHANGED <<nextOppId, drawn, shared, robbed>>
  BY DEF Insert
<1>2. /\ new \in TimerRecord /\ new.id \in Nat
      /\ j \in Accepted /\ j \in OppIds
      /\ new.type = "OPPORTUNITY_TIMEOUT" => new.ref = j /\ Unarmed(t)
  BY <1>1, PlacerKnows DEF Shape, AddersKnow, Adds, AddSteps, PlacingSteps, Unarmed, TimerRecord
<1>3. new \in Live
  BY <1>1 DEF Live, Adding, AddSteps
<1>4. /\ pc'[t] \notin AddSteps \cup {"arm"}
      /\ \A u \in Threads \ {t} : pc'[u] = pc[u] /\ job'[u] = job[u] /\ adding'[u] = adding[u]
  BY <1>1 DEF Goto, Shape, TypeOK, AddSteps
<1>5. Live' \subseteq Live
  BY <1>1, <1>3, <1>4 DEF Live, Adding
<1>6. Accepted' = Accepted /\ Accepted \subseteq OppIds
  BY <1>1, AcceptedAreOpps DEF Accepted, Shape
<1>7. /\ \A p \in OppIds \ {j} : opp'[p] = opp[p]
      /\ \A p \in OppIds : opp'[p].state = opp[p].state
      /\ new.type = "OPPORTUNITY_TIMEOUT" => opp'[j].timerId = new.id
      /\ new.type # "OPPORTUNITY_TIMEOUT" => opp' = opp
  <2>1. CASE UNCHANGED opp /\ new.type = "ORDER_TEST_STATE_CHANGE"
    BY <2>1
  <2>2. CASE new.type = "OPPORTUNITY_TIMEOUT" /\ opp' = [opp EXCEPT ![j].timerId = new.id]
    BY <2>2, <1>2, OppTimerSet
  <2>3. QED BY <2>1, <2>2
<1>8. new.id \in drawn
  BY <1>3 DEF Owned, LiveDrawn
<1> HIDE DEF new, j
<1>9. LiveDrawn' /\ TimersDistinct' /\ RobbedShared'
  BY <1>1, <1>5 DEF Owned, LiveDrawn, TimersDistinct, RobbedShared
<1>10. TimeoutIdsKnown'
  BY <1>1, <1>2, <1>7, <1>8 DEF Owned, TimeoutIdsKnown
<1>11. IdsOwned'
  <2> SUFFICES ASSUME NEW p \in Accepted, NEW tm \in Live, tm.id = opp'[p].timerId,
                      tm.id \notin shared
               PROVE  IsTimeoutOf(tm, p)
    BY <1>1, <1>5, <1>6 DEF IdsOwned, IsTimeoutOf
  <2>1. CASE p = j /\ new.type = "OPPORTUNITY_TIMEOUT"
    <3>1. tm = new
      BY <2>1, <1>3, <1>7 DEF Owned, TimersDistinct
    <3>2. QED BY <3>1, <2>1, <1>2 DEF IsTimeoutOf
  <2>2. CASE ~(p = j /\ new.type = "OPPORTUNITY_TIMEOUT")
    BY <2>2, <1>6, <1>7 DEF Owned, IdsOwned
  <2>3. QED BY <2>1, <2>2
<1>12. TimeoutsArmed'
  <2> SUFFICES ASSUME NEW tm \in timers \cup {new}, tm.type = "OPPORTUNITY_TIMEOUT",
                      tm.id \notin shared
               PROVE  tm \in indexed' /\ tm.ref \in Accepted /\ opp'[tm.ref].timerId = tm.id
    BY <1>1, <1>6 DEF TimeoutsArmed
  <2>1. CASE tm = new
    BY <2>1, <1>1, <1>2, <1>7
  <2>2. CASE tm # new
    <3>1. tm \in timers /\ tm \in Live
      BY <2>2 DEF Live
    <3>2. tm.id # new.id
      BY <2>2, <3>1, <1>3 DEF Owned, TimersDistinct
    <3>3. tm \in indexed /\ tm.ref \in Accepted /\ opp[tm.ref].timerId = tm.id
      BY <3>1 DEF Owned, TimeoutsArmed
    <3>4. tm.id # 0
      BY <3>1 DEF Owned, LiveDrawn, Shape, TypeOK
    <3>5. opp'[tm.ref].timerId = tm.id
      <4>1. CASE tm.ref = j /\ new.type = "OPPORTUNITY_TIMEOUT"
        <5>1. opp[j].timerId = 0
          BY <4>1, <1>2 DEF Owned, UnarmedHaveNone, j
        <5>2. QED BY <5>1, <4>1, <3>3, <3>4
      <4>2. CASE ~(tm.ref = j /\ new.type = "OPPORTUNITY_TIMEOUT")
        BY <4>2, <3>3, <1>6, <1>7
      <4>3. QED BY <4>1, <4>2
    <3>6. QED BY <3>2, <3>3, <3>5, <1>1
  <2>3. QED BY <2>1, <2>2
<1>13. UnarmedHaveNone'
  <2> SUFFICES ASSUME NEW u \in Threads, Unarmed(u)' PROVE opp'[job'[u]].timerId = 0
    BY DEF UnarmedHaveNone
  <2>1. u # t /\ Unarmed(u) /\ job'[u] = job[u]
    BY <1>4 DEF Unarmed
  <2>2. job[u] \in OppIds /\ opp[job[u]].timerId = 0
    BY <2>1, UnarmedJobs DEF Owned, UnarmedHaveNone
  <2>3. job[u] # j
    BY <2>1, <1>1 DEF Shape, PlacersAlone, Unarmed, PlacingSteps, AddSteps, j
  <2>4. QED BY <2>1, <2>2, <2>3, <1>7
<1>14. PlannedHasNoTimeout'
  <2> SUFFICES ASSUME NEW p \in Accepted, opp[p].state = "EXECUTED_AS_PLANNED",
                      ~(pc'[Main] \in StopSteps /\ job'[Main] = p),
                      NEW tm \in timers \cup {new}, IsTimeoutOf(tm, p)
               PROVE  tm.id \in shared
    BY <1>1, <1>6, <1>7 DEF PlannedHasNoTimeout, IsTimeoutOf
  <2>1. ~(pc[Main] \in StopSteps /\ job[Main] = p)
    <3>1. t = Main => pc[Main] \notin StopSteps
      BY <1>1 DEF StopSteps
    <3>2. QED BY <3>1, <1>1, NotStopping
  <2>2. tm # new
    <3>1. new.type = "OPPORTUNITY_TIMEOUT" => ~HasOrders(j)
      BY <1>1, <1>2, PlacerKnows DEF HasOrders, j, PlacingSteps, Unplaced
    <3>2. HasOrders(p)
      BY DEF Settled, PlannedMeansExecuted
    <3>3. QED BY <3>1, <3>2, <1>2 DEF IsTimeoutOf
  <2>3. QED BY <2>1, <2>2 DEF Owned, PlannedHasNoTimeout
<1>15. QED BY <1>9, <1>10, <1>11, <1>12, <1>13, <1>14 DEF Owned

LEMMA AddingOwned ==
  ASSUME Shape, Settled, Owned, NEW t \in Threads,
         ArmTimeout(t) \/ WriteId(t) \/ InsertTimeout(t) \/ TimeReport(t) \/ InsertReport(t)
  PROVE  Owned'
<1>1. CASE ArmTimeout(t)
  BY <1>1, DrawOwned DEF ArmTimeout, PlacingSteps, AddSteps
<1>2. CASE TimeReport(t)
  <2>1. /\ {"timeBuy", "timeSell"} \subseteq PlacingSteps \ AddSteps
        /\ "ORDER_TEST_STATE_CHANGE" # "OPPORTUNITY_TIMEOUT"
    BY DEF PlacingSteps, AddSteps
  <2>2. QED BY <2>1, <1>2, DrawOwned DEF TimeReport
<1>3. CASE WriteId(t)
  <2>1. AddsKept
    BY <1>3 DEF WriteId, AddsKept, Goto, Shape, TypeOK, AddSteps
  <2>2. \A p : ~(pc'[Main] \in StopSteps /\ job'[Main] = p) => ~(pc[Main] \in StopSteps /\ job[Main] = p)
    BY <1>3, NotStopping DEF WriteId, StopSteps
  <2>3. QED BY <2>1, <2>2, <1>3, OwnedStays DEF WriteId, books, store
<1>4. CASE InsertTimeout(t)
  BY <1>4, InsertOwned DEF InsertTimeout
<1>5. CASE InsertReport(t)
  BY <1>5, InsertOwned DEF InsertReport
<1>6. QED BY <1>1, <1>2, <1>3, <1>4, <1>5

LEMMA PlaceOrdersOwned ==
  ASSUME Shape, Owned, NEW t \in Threads, PlaceOrders(t) PROVE Owned'
<1>1. /\ pc[t] = "place" /\ Goto(t, "execBuy", job[t])
      /\ opp' = [opp EXCEPT ![job[t]].buyId = nextOrderId, ![job[t]].sellId = nextOrderId + 1]
      /\ UNCHANGED <<nextOppId, clockwork, adding>>
  BY DEF PlaceOrders
<1>2. AddsKept
  BY <1>1, AddsKeptGone DEF AddSteps
<1>3. \A o \in OppIds : opp'[o].timerId = opp[o].timerId /\ opp'[o].state = opp[o].state
  BY <1>1 DEF Shape, TypeOK, OppRecord
<1>4. \A p : ~(pc'[Main] \in StopSteps /\ job'[Main] = p) => ~(pc[Main] \in StopSteps /\ job[Main] = p)
  BY <1>1, NotStopping DEF StopSteps
<1>5. QED BY <1>1, <1>2, <1>3, <1>4, OwnedStays DEF clockwork, store, ids

LEMMA ExecuteOwned ==
  ASSUME Shape, Owned, NEW t \in Threads, ExecuteBuy(t) \/ ExecuteSell(t)
  PROVE  Owned'
<1>1. /\ pc[t] \in {"execBuy", "execSell"}
      /\ UNCHANGED <<nextOppId, opp, clockwork, adding>>
  BY ExecuteEffect
<1>2. PICK step \in {"timeBuy", "timeSell", "execSell", "idle"}, o \in {job[t], 0} :
        Goto(t, step, o)
  BY ExecuteEffect
<1>3. AddsKept
  BY <1>1, <1>2, AddsKeptGone DEF AddSteps
<1>4. \A p : ~(pc'[Main] \in StopSteps /\ job'[Main] = p) => ~(pc[Main] \in StopSteps /\ job[Main] = p)
  BY <1>1, <1>2, NotStopping DEF StopSteps
<1>5. QED BY <1>1, <1>3, <1>4, OwnedStays DEF clockwork, store, ids

(* An opportunity planned by a report has its timeout stopped next.        *)
LEMMA OrderReportOwned ==
  ASSUME Shape, Owned, NEW tm \in batch, OrderReport(tm)
  PROVE  Owned'
<1> DEFINE o == order[tm.ref].opp
           buy == order'[opp[o].buyId].state
           sell == order'[opp[o].sellId].state
           state == StateAfterReport(opp[o].state, buy, sell)
           step == StepAfterReport(state, buy, sell)
<1>1. /\ pc[Main] = "idle" /\ o \in OppIds /\ state \in OppStates
      /\ opp' = [opp EXCEPT ![o].state = state]
      /\ MainGoesTo(step, o)
      /\ batch' \subseteq batch
      /\ UNCHANGED <<nextOppId, timers, indexed, ids, robbed, adding>>
  BY ReportEffect
<1>2. /\ step \in {"idle", "stop", "stopAgain", "checkBuy"}
      /\ state = "EXECUTED_AS_PLANNED" => step \in StopSteps
  BY DEF StepAfterReport, StopSteps, SettledOppStates
<1> HIDE DEF o, buy, sell, state, step
<1>3. /\ opp'[o].state = state /\ \A p \in OppIds \ {o} : opp'[p] = opp[p]
      /\ \A p \in OppIds : opp'[p].timerId = opp[p].timerId
  BY <1>1, OppStateSet
<1>4. pc'[Main] = step /\ (step \in StopSteps => job'[Main] = o)
  BY <1>1, MainIsThread DEF MainGoesTo, Goto, Shape, TypeOK, StopSteps
<1>5. AddsKept
  BY <1>1, <1>2, MainIsThread, AddsKeptGone DEF MainGoesTo, AddSteps
<1>6. ASSUME NEW p \in OppIds, opp'[p].state = "EXECUTED_AS_PLANNED",
             ~(pc'[Main] \in StopSteps /\ job'[Main] = p)
      PROVE  opp[p].state = "EXECUTED_AS_PLANNED" /\ ~(pc[Main] \in StopSteps /\ job[Main] = p)
  <2>1. p # o
    BY <1>6, <1>2, <1>3, <1>4
  <2>2. QED BY <2>1, <1>6, <1>1, <1>3 DEF StopSteps
<1>7. QED BY <1>1, <1>3, <1>5, <1>6, OwnedStays DEF ids

(* What stopTimer takes from the store is the timeout named, or shares its *)
(* id with it.                                                             *)
LEMMA StopRobs ==
  ASSUME Shape, Owned, NEW o \in Accepted, StopTimer(o)
  PROVE  /\ timers' \subseteq timers
         /\ \A tm \in timers' : tm \in indexed => tm \in indexed' /\ tm.id # opp[o].timerId
         /\ \A tm \in robbed' : tm \in robbed \/ tm.id \in shared
<1> DEFINE gone == {tm \in indexed : tm.id = opp[o].timerId}
<1>1. /\ timers' = timers \ gone /\ indexed' = indexed \ gone
      /\ robbed' = robbed \cup {tm \in gone : ~IsTimeoutOf(tm, o)}
  BY DEF StopTimer
<1>2. \A tm \in gone : tm \in Live
  BY DEF Shape, TypeOK, Live
<1>3. \A tm \in gone : ~IsTimeoutOf(tm, o) => tm.id \in shared
  BY <1>2 DEF Owned, IdsOwned
<1>4. QED BY <1>1, <1>3

LEMMA StopAtOnceOwned == ASSUME Shape, Owned, StopAtOnce PROVE Owned'
<1> DEFINE o == job[Main]
           step == CASE opp[o].state \in SettledOppStates -> "stopAgain"
                     [] opp[o].state = "CANCELLING" -> "checkBuy"
                     [] OTHER -> "idle"
<1>1. /\ pc[Main] = "stop" /\ StopTimer(o) /\ MainGoesTo(step, o)
      /\ UNCHANGED <<books, ids, batch, adding>>
  BY DEF StopAtOnce
<1>2. o \in Accepted /\ o \in OppIds
  BY <1>1, CallbackJob DEF JobSteps, StopSteps
<1>3. /\ step \in {"idle", "stopAgain", "checkBuy"}
      /\ opp[o].state = "EXECUTED_AS_PLANNED" => step = "stopAgain"
  BY DEF SettledOppStates
<1> HIDE DEF o, step
<1>4. pc'[Main] = step /\ (step # "idle" => job'[Main] = o)
  BY <1>1, MainIsThread DEF MainGoesTo, Goto, Shape, TypeOK
<1>5. AddsKept
  BY <1>1, <1>3, MainIsThread, AddsKeptGone DEF MainGoesTo, AddSteps
<1>6. /\ timers' \subseteq timers
      /\ \A tm \in timers' : tm \in indexed => tm \in indexed'
      /\ \A tm \in robbed' : tm \in robbed \/ tm.id \in shared
  BY <1>1, <1>2, StopRobs
<1>7. UNCHANGED <<nextOppId, opp, drawn, shared, batch>>
  BY <1>1 DEF books, ids
<1>8. ASSUME NEW p \in OppIds, opp[p].state = "EXECUTED_AS_PLANNED",
             ~(pc'[Main] \in StopSteps /\ job'[Main] = p)
      PROVE  ~(pc[Main] \in StopSteps /\ job[Main] = p)
  BY <1>8, <1>3, <1>4 DEF StopSteps, o
<1>9. QED BY <1>5, <1>6, <1>7, <1>8, OwnedKept

(* Line 334: the timeout goes, or shares its id with what went.            *)
LEMMA StopWhenSettledOwned == ASSUME Shape, Owned, StopWhenSettled PROVE Owned'
<1> DEFINE o == job[Main]
<1>1. /\ pc[Main] = "stopAgain" /\ StopTimer(o) /\ Goto(Main, "idle", 0)
      /\ opp' = [opp EXCEPT ![o].timerId = 0]
      /\ UNCHANGED <<nextOppId, ids, batch, adding>>
  BY DEF StopWhenSettled
<1>2. o \in Accepted /\ o \in OppIds
  BY <1>1, CallbackJob DEF JobSteps, StopSteps
<1> HIDE DEF o
<1>3. /\ timers' \subseteq timers
      /\ \A tm \in timers' : tm \in indexed => tm \in indexed' /\ tm.id # opp[o].timerId
      /\ \A tm \in robbed' : tm \in robbed \/ tm.id \in shared
  BY <1>1, <1>2, StopRobs
<1>4. /\ opp'[o].timerId = 0 /\ \A p \in OppIds \ {o} : opp'[p] = opp[p]
      /\ \A p \in OppIds : opp'[p].state = opp[p].state
  BY <1>1, <1>2, OppTimerSet
<1>5. /\ AddsKept
      /\ pc'[Main] = "idle"
  BY <1>1, MainIsThread, AddsKeptGone DEF AddSteps, Goto, Shape, TypeOK
<1>6. UNCHANGED <<nextOppId, drawn, shared, batch>>
  BY <1>1 DEF ids
<1>7. Accepted' = Accepted /\ Accepted \subseteq OppIds
  BY <1>6, AcceptedAreOpps DEF Shape, Accepted
<1>8. Live' \subseteq Live
  BY <1>3, <1>5, <1>6 DEF Live, Adding, AddsKept
<1>9. LiveDrawn' /\ TimersDistinct' /\ RobbedShared'
  BY <1>3, <1>6, <1>8 DEF Owned, LiveDrawn, TimersDistinct, RobbedShared
<1>10. TimeoutIdsKnown'
  BY <1>4, <1>6 DEF Owned, TimeoutIdsKnown
<1>11. IdsOwned'
  <2> SUFFICES ASSUME NEW p \in Accepted, NEW tm \in Live, tm.id = opp'[p].timerId,
                      tm.id \notin shared
               PROVE  IsTimeoutOf(tm, p)
    BY <1>6, <1>7, <1>8 DEF IdsOwned, IsTimeoutOf
  <2>1. tm.id # 0
    BY DEF Owned, LiveDrawn, Shape, TypeOK
  <2>2. QED BY <2>1, <1>4, <1>7 DEF Owned, IdsOwned
<1>12. \A tm \in timers' : tm.type = "OPPORTUNITY_TIMEOUT" /\ tm.id \notin shared =>
          /\ tm.ref # o
          /\ tm \in indexed' /\ tm.ref \in Accepted /\ opp[tm.ref].timerId = tm.id
  BY <1>3 DEF Owned, TimeoutsArmed
<1>13. TimeoutsArmed'
  BY <1>4, <1>6, <1>7, <1>12 DEF TimeoutsArmed
<1>14. UnarmedHaveNone'
  <2> SUFFICES ASSUME NEW t \in Threads, Unarmed(t)' PROVE opp'[job'[t]].timerId = 0
    BY DEF UnarmedHaveNone
  <2>1. Unarmed(t) /\ job'[t] = job[t]
    BY <1>5 DEF Unarmed, AddsKept
  <2>2. QED BY <2>1, <1>4, UnarmedJobs DEF Owned, UnarmedHaveNone
<1>15. PlannedHasNoTimeout'
  <2> SUFFICES ASSUME NEW p \in Accepted, opp[p].state = "EXECUTED_AS_PLANNED",
                      NEW tm \in timers', IsTimeoutOf(tm, p), tm.id \notin shared
               PROVE  FALSE
    BY <1>4, <1>6, <1>7 DEF PlannedHasNoTimeout, IsTimeoutOf
  <2>1. p # o
    BY <1>12 DEF IsTimeoutOf
  <2>2. ~(pc[Main] \in StopSteps /\ job[Main] = p)
    BY <2>1 DEF o
  <2>3. QED BY <2>2, <1>3 DEF Owned, PlannedHasNoTimeout
<1>16. QED BY <1>9, <1>10, <1>11, <1>13, <1>14, <1>15 DEF Owned

(* The other steps of the callbacks leave the store to itself.             *)
LEMMA CallbackOwned ==
  ASSUME Shape, Owned,
         \/ \E tm \in batch, id \in Nat : \/ TimeoutUnknown(tm, id)
                                          \/ TimeoutWithoutOrders(tm, id)
                                          \/ TimeoutReadsBuy(tm, id)
         \/ LogOpportunity \/ JudgeSell \/ Settle \/ CancelOrders
  PROVE  Owned'
<1>1. /\ UNCHANGED <<nextOppId, timers, indexed, robbed, drawn, shared, adding>>
      /\ batch' \subseteq batch
      /\ \/ UNCHANGED <<pc, job>>
         \/ \E step \in {"idle", "blocked", "noOrders"} \cup JudgeSteps \cup CancelSteps :
              \E o : Goto(Main, step, o)
      /\ pc[Main] \notin StopSteps
  <2>1. CASE \E tm \in batch, id \in Nat : \/ TimeoutUnknown(tm, id)
                                           \/ TimeoutWithoutOrders(tm, id)
                                           \/ TimeoutReadsBuy(tm, id)
    <3>1. PICK tm \in batch, id \in Nat : \/ TimeoutUnknown(tm, id)
                                          \/ TimeoutWithoutOrders(tm, id)
                                          \/ TimeoutReadsBuy(tm, id)
      BY <2>1
    <3>2. TimeoutFor(tm, id)
      BY <3>1 DEF TimeoutUnknown, TimeoutWithoutOrders, TimeoutReadsBuy
    <3>3. /\ UNCHANGED <<books, timers, indexed, ids, robbed, adding>>
          /\ batch' \subseteq batch /\ pc[Main] \notin StopSteps
      BY <3>2 DEF TimeoutFor, NextInBatch, StopSteps
    <3>4. \/ UNCHANGED <<pc, job>>
          \/ Goto(Main, "noOrders", id) \/ Goto(Main, "judgeSell", id)
      BY <3>1 DEF TimeoutUnknown, TimeoutWithoutOrders, TimeoutReadsBuy
    <3>5. QED BY <3>3, <3>4 DEF books, ids, JudgeSteps
  <2>2. CASE LogOpportunity
    BY <2>2 DEF LogOpportunity, books, clockwork, store, ids, StopSteps
  <2>3. CASE JudgeSell
    BY <2>3, JudgeEffect
    DEF MainGoesTo, books, clockwork, store, ids, StopSteps, JudgeSteps, CancelSteps
  <2>4. CASE Settle
    BY <2>4 DEF Settle, books, clockwork, store, ids, StopSteps, CancelSteps
  <2>5. CASE CancelOrders
    <3>1. /\ pc[Main] \in CancelSteps /\ UNCHANGED <<nextOppId, clockwork, adding>>
          /\ \E step \in CancelSteps \cup {"idle"} : MainGoesTo(step, job[Main])
      BY <2>5, CancelEffect
    <3>2. QED BY <3>1 DEF MainGoesTo, clockwork, store, ids, StopSteps, CancelSteps
  <2>6. QED BY <2>1, <2>2, <2>3, <2>4, <2>5
<1>2. AddsKept
  BY <1>1, MainIsThread, AddsKeptGone, AddsKeptStays DEF AddSteps, JudgeSteps, CancelSteps
<1>3. \A o \in OppIds :
        /\ opp'[o].timerId = opp[o].timerId
        /\ opp'[o].state = "EXECUTED_AS_PLANNED" => opp[o].state = "EXECUTED_AS_PLANNED"
  <2>1. CASE Settle
    BY <2>1, SettleEffect, OppStateSet
  <2>2. CASE ~Settle
    BY <2>2, JudgeEffect, CancelEffect
    DEF TimeoutUnknown, TimeoutWithoutOrders, TimeoutReadsBuy, TimeoutFor, LogOpportunity, books
  <2>3. QED BY <2>1, <2>2
<1>4. QED BY <1>1, <1>2, <1>3, OwnedStays

LEMMA OwnedStep == Shape /\ Settled /\ Owned /\ [Next]_vars => Owned'
<1> SUFFICES ASSUME Shape, Settled, Owned, [Next]_vars PROVE Owned'
  OBVIOUS
<1>1. CASE Tick
  BY <1>1, OwnedStays, AddsKeptStays DEF Tick, control, books, store, ids
<1>2. CASE CheckTimers
  <2>1. /\ Expired \subseteq timers /\ timers' = timers \ Expired /\ batch' = Expired
        /\ indexed' = {tm \in indexed : \A u \in Expired : u.id # tm.id}
        /\ UNCHANGED <<books, ids, robbed, control>>
    BY <1>2 DEF CheckTimers, Expired
  <2>2. \A tm \in timers' : tm \in indexed /\ tm.id \notin shared => tm \in indexed'
    <3>1. \A tm, u \in timers : tm.id = u.id /\ tm.id \notin shared => tm = u
      BY DEF Owned, TimersDistinct, Live
    <3>2. QED BY <2>1, <3>1
  <2>3. AddsKept /\ UNCHANGED <<nextOppId, opp, drawn, shared, pc, job>>
    BY <2>1, AddsKeptStays DEF books, ids, control
  <2>4. /\ timers' \subseteq timers /\ timers' \cup batch' \subseteq timers \cup batch
        /\ \A tm \in robbed' : tm \in robbed
    BY <2>1
  <2>5. QED BY <2>2, <2>3, <2>4, OwnedKept
<1>3. CASE Callback
  <2>1. ASSUME NEW tm \in batch, NEW id \in {tm.ref} \cup StaleReads PROVE id \in Nat
    BY <2>1, StaleAssumption DEF Shape, TypeOK, TimerRecord
  <2>2. QED BY <1>3, <2>1, OrderReportOwned, StopAtOnceOwned, StopWhenSettledOwned, CallbackOwned
    DEF Callback
<1>4. ASSUME NEW t \in Threads, Accept(t) PROVE Owned'
  BY <1>4, AcceptOwned
<1>5. ASSUME NEW t \in Threads, Placing(t) PROVE Owned'
  BY <1>5, AddingOwned, PlaceOrdersOwned, ExecuteOwned DEF Placing
<1>6. CASE UNCHANGED vars
  BY <1>6, OwnedStays, AddsKeptStays DEF vars, control, books, clockwork, store, ids
<1>7. QED BY <1>1, <1>2, <1>3, <1>4, <1>5, <1>6 DEF Next

LEMMA OwnedAlways == Spec => []Owned
<1>1. QED BY OwnedInit, OwnedStep, ShapeAlways, SettledAlways, PTL DEF Spec

(* Ids may be drawn twice (timers.cpp 57).  An opportunity's id that was   *)
(* not names its own timeout or no timer at all, however the threads' draws*)
(* interleave, and stopTimer(timeoutTimerId) takes another's timer only    *)
(* when that one shares the id (order_mgr.cpp 185, 310-335).               *)
THEOREM TimeoutIdsAreOwned == Spec => []TimeoutIdsOwned
<1>1. Owned => TimeoutIdsOwned
  BY DEF Owned, IdsOwned, RobbedShared, TimeoutIdsOwned, Live
<1>2. QED BY <1>1, OwnedAlways, PTL

(* An opportunity executed as planned has had its timeout taken out of the *)
(* store once the report is through (order_mgr.cpp 308-335), unless        *)
(* checkTimers had collected it or its id is another timer's too.          *)
THEOREM PlannedTimeoutStopped == Spec => []PlannedHasNoTimeout
<1>1. Owned => PlannedHasNoTimeout
  BY DEF Owned
<1>2. QED BY <1>1, OwnedAlways, PTL

-----------------------------------------------------------------------------
(* OrderManager implements OpportunityLifecycle, for every set of threads, *)
(* every delay, every bound and whatever a dangling pointer may read.      *)
(*                                                                         *)
(* Each step of a thread is matched with a step of one opportunity's life: *)
(*   PlaceOrders              Place                                        *)
(*   ExecuteBuy, ExecuteSell  Fill, or nothing once it is settled          *)
(*   OrderReport              Report, or nothing once it is settled        *)
(*   Settle                   TimeOut                                      *)
(*   a cancelled leg          Cancel                                       *)
(* and every other step with none.  Settled says why no leg of an          *)
(* opportunity that was executed as planned can change.                    *)

Legs == [o \in OppIds |-> LegStates(o)]
Outcome == [o \in OppIds |-> opp[o].state]
Leg == {"buy", "sell"}
LegId(o, l) == IF l = "buy" THEN opp[o].buyId ELSE opp[o].sellId

-----------------------------------------------------------------------------
(* The legs of an opportunity, leg by leg.                                 *)
LEMMA LegsShape ==
  ASSUME Shape, NEW o \in OppIds
  PROVE  /\ DOMAIN Legs[o] = Leg
         /\ Legs[o] = [l \in Leg |-> Legs[o][l]]
         /\ HasOrders(o) => \A l \in Leg : Legs[o][l] = order[LegId(o, l)].state
         /\ ~HasOrders(o) => \A l \in Leg : Legs[o][l] = "NONE"
BY DEF Legs, LegStates, LegId, Leg, BuyState, SellState

(* The two orders of an opportunity are two, and no other opportunity's.   *)
LEMMA LegIds ==
  ASSUME Shape, NEW o \in OppIds, HasOrders(o), NEW l \in Leg
  PROVE  /\ LegId(o, l) \in OrderIds
         /\ LegId(o, l) \in 1..(nextOrderId - 1)
         /\ order[LegId(o, l)].opp = o
         /\ \A k \in Leg : LegId(o, k) = LegId(o, l) => k = l
<1>1. /\ opp[o].sellId = opp[o].buyId + 1
      /\ opp[o].buyId \in 1..(nextOrderId - 1) /\ opp[o].sellId \in 1..(nextOrderId - 1)
      /\ opp[o].buyId \in OrderIds /\ opp[o].sellId \in OrderIds
      /\ order[opp[o].buyId].opp = o /\ order[opp[o].sellId].opp = o
  BY OppOwned
<1>2. opp[o].buyId # opp[o].sellId
  BY <1>1
<1>3. QED BY <1>1, <1>2 DEF LegId, Leg

(* A step that keeps every id and every order's state keeps all the legs.  *)
LEMMA LegsKept ==
  ASSUME Shape, UNCHANGED order,
         SameOrders
  PROVE  Legs' = Legs
BY DEF SameOrders, Legs, LegStates, HasOrders, BuyState, SellState

(* A step that gives one order of an opportunity another state changes     *)
(* that leg and no other.                                                  *)
LEMMA LegChanged ==
  ASSUME Shape, NEW o \in OppIds, HasOrders(o), NEW l \in Leg, NEW s,
         order' = [order EXCEPT ![LegId(o, l)].state = s],
         SameOrders
  PROVE  Legs' = [Legs EXCEPT ![o][l] = s]
<1> DEFINE i == LegId(o, l)
<1>1. i \in OrderIds /\ order[i].opp = o
  BY LegIds
<1>2. \A j \in OrderIds : order'[j].state = IF j = i THEN s ELSE order[j].state
  BY <1>1 DEF Shape, TypeOK, OrderRecord
<1>3. \A p \in OppIds : (HasOrders(p)' <=> HasOrders(p))
                        /\ \A k \in Leg : LegId(p, k)' = LegId(p, k)
  BY DEF SameOrders, HasOrders, LegId
<1>4. ASSUME NEW p \in OppIds, NEW k \in Leg
      PROVE  Legs'[p][k] = IF p = o /\ k = l THEN s ELSE Legs[p][k]
  <2>1. CASE HasOrders(p)
    <3>1. Legs'[p][k] = order'[LegId(p, k)].state /\ Legs[p][k] = order[LegId(p, k)].state
      BY <2>1, <1>3, <1>4 DEF Legs, LegStates, LegId, Leg, BuyState, SellState
    <3>2. LegId(p, k) \in OrderIds /\ order[LegId(p, k)].opp = p
      BY <2>1, <1>4, LegIds
    <3>3. LegId(p, k) = i => p = o /\ k = l
      BY <3>2, <1>1, <1>4, LegIds
    <3>4. QED BY <3>1, <3>2, <3>3, <1>2
  <2>2. CASE ~HasOrders(p)
    <3>1. p # o
      BY <2>2
    <3>2. QED BY <3>1, <2>2, <1>3, <1>4 DEF Legs, LegStates
  <2>3. QED BY <2>1, <2>2
<1>5. \A p \in OppIds : /\ Legs'[p] = [k \in Leg |-> Legs'[p][k]]
                        /\ Legs[p] = [k \in Leg |-> Legs[p][k]]
  BY DEF Legs, LegStates, Leg
<1>6. DOMAIN Legs' = OppIds /\ Legs' = [p \in OppIds |-> Legs'[p]]
  BY DEF Legs
<1>7. Legs = [p \in OppIds |-> Legs[p]]
  BY DEF Legs
<1>8. \A p \in OppIds : Legs'[p] = [Legs EXCEPT ![o][l] = s][p]
  <2>1. [Legs EXCEPT ![o][l] = s][o] = [Legs[o] EXCEPT ![l] = s]
    BY <1>7
  <2>2. Legs'[o] = [Legs[o] EXCEPT ![l] = s]
    <3>1. [Legs[o] EXCEPT ![l] = s] = [k \in Leg |-> IF k = l THEN s ELSE Legs[o][k]]
      BY <1>5
    <3>2. Legs'[o] = [k \in Leg |-> IF k = l THEN s ELSE Legs[o][k]]
      BY <1>4, <1>5
    <3>3. QED BY <3>1, <3>2
  <2>3. ASSUME NEW p \in OppIds \ {o} PROVE Legs'[p] = Legs[p]
    BY <2>3, <1>4, <1>5
  <2>4. \A p \in OppIds \ {o} : [Legs EXCEPT ![o][l] = s][p] = Legs[p]
    BY <1>7
  <2>5. QED BY <2>1, <2>2, <2>3, <2>4
<1>9. QED BY <1>6, <1>7, <1>8

(* A leg of an opportunity with orders has a live state, and both are      *)
(* EXECUTED once it is planned.                                            *)
LEMMA LegStatesKnown ==
  ASSUME Shape, Settled, NEW o \in OppIds, HasOrders(o), NEW l \in Leg
  PROVE  /\ Legs[o][l] \in LiveOrderStates
         /\ Outcome[o] = "EXECUTED_AS_PLANNED" => Legs[o][l] = "EXECUTED"
<1>1. Legs[o][l] = order[LegId(o, l)].state
  BY LegsShape
<1>2. Legs[o][l] \in LiveOrderStates
  BY <1>1, LegIds DEF Settled, OrdersLive
<1>3. Outcome[o] = "EXECUTED_AS_PLANNED" => Legs[o][l] = "EXECUTED"
  BY OppOwned DEF Settled, PlannedMeansExecuted, Outcome, Legs, LegStates, Leg
<1>4. QED BY <1>2, <1>3

-----------------------------------------------------------------------------
(* The steps, one by one.                                                  *)

(* A step that changes no leg and no outcome is none of the abstract one.  *)
LEMMA QuietStep ==
  ASSUME Legs' = Legs, Outcome' = Outcome
  PROVE  [Abstract!Next]_(Abstract!vars)
BY DEF Legs, Outcome, Abstract!vars

(* A step of the life of one opportunity is one of the abstract ones.      *)
LEMMA LifeStep ==
  ASSUME NEW o \in OppIds,
         \/ Abstract!Place(o)
         \/ Abstract!TimeOut(o)
         \/ \E l \in Leg : \/ Abstract!Fill(o, l)
                           \/ Abstract!Cancel(o, l)
                           \/ Abstract!Report(o, l)
  PROVE  [Abstract!Next]_(Abstract!vars)
BY DEF Abstract!Next, Abstract!Leg, Leg

(* The timer of an opportunity is no part of its life.                     *)
LEMMA TimerStep ==
  ASSUME Shape, UNCHANGED order, SameOrders,
         \A p \in OppIds : opp'[p].state = opp[p].state
  PROVE  [Abstract!Next]_(Abstract!vars)
<1>1. Legs' = Legs
  BY LegsKept
<1>2. Outcome' = Outcome
  BY DEF Outcome
<1>3. QED BY <1>1, <1>2, QuietStep

LEMMA BooksStep ==
  ASSUME Shape, UNCHANGED books
  PROVE  [Abstract!Next]_(Abstract!vars)
BY TimerStep DEF books, SameOrders

LEMMA AcceptLife ==
  ASSUME Shape, Settled, NEW t \in Threads, Accept(t)
  PROVE  [Abstract!Next]_(Abstract!vars)
<1>1. nextOppId \in OppIds \ Accepted
  BY BoundsAssumption DEF Shape, TypeOK, OppIds, Accepted, Accept
<1>2. \A p \in OppIds : /\ opp'[p].buyId = opp[p].buyId /\ opp'[p].sellId = opp[p].sellId
                        /\ opp'[p].state = opp[p].state
  BY <1>1 DEF Settled, Fresh, Accept, Shape, TypeOK, OppRecord
<1>3. QED BY <1>2, TimerStep DEF SameOrders, Accept

LEMMA InsertTimeoutLife ==
  ASSUME Shape, NEW t \in Threads, InsertTimeout(t)
  PROVE  [Abstract!Next]_(Abstract!vars)
<1>1. /\ pc[t] = "insert" /\ UNCHANGED order
      /\ opp' = [opp EXCEPT ![job[t]].timerId = adding[t].id]
  BY DEF InsertTimeout, Insert
<1>2. job[t] \in OppIds /\ adding[t].id \in Nat
  BY <1>1, PlacerKnows DEF PlacingSteps, Shape, AddersKnow, Adds, AddSteps, TimerRecord
<1>3. (\A p \in OppIds : opp'[p].state = opp[p].state) /\ SameOrders
  BY <1>1, <1>2, OppTimerSet
<1>4. QED BY <1>1, <1>3, TimerStep

(* Both orders, under one hold of the mutex, are the abstract placement.   *)
LEMMA PlaceLife ==
  ASSUME Shape, Settled, NEW t \in Threads, PlaceOrders(t)
  PROVE  [Abstract!Next]_(Abstract!vars)
<1>1. PICK o \in OppIds : o = job[t] /\ ~HasOrders(o)
  BY PlacerKnows DEF PlaceOrders, PlacingSteps, Unplaced, HasOrders
<1> DEFINE new == [state |-> "NEW", opp |-> o]
<1>2. /\ order' = [order EXCEPT ![nextOrderId] = new, ![nextOrderId + 1] = new]
      /\ opp' = [opp EXCEPT ![o].buyId = nextOrderId, ![o].sellId = nextOrderId + 1]
      /\ nextOrderId' = nextOrderId + 2
  BY <1>1 DEF PlaceOrders
<1>3. nextOrderId' \in 1..(2 * MaxOpps + 1) /\ nextOrderId \in 1..(2 * MaxOpps + 1)
  BY PlaceOrdersShape DEF Shape, TypeOK
<1>4. nextOrderId \in OrderIds /\ nextOrderId + 1 \in OrderIds /\ nextOrderId \in Nat \ {0}
  BY <1>2, <1>3, BoundsAssumption DEF OrderIds
<1>5. /\ order'[nextOrderId] = new /\ order'[nextOrderId + 1] = new
      /\ \A i \in 1..(nextOrderId - 1) : order'[i] = order[i]
  BY <1>2, <1>4, BoundsAssumption DEF Shape, TypeOK, OrderIds
<1>6. /\ opp'[o].buyId = nextOrderId /\ opp'[o].sellId = nextOrderId + 1
      /\ opp'[o].state = opp[o].state
      /\ \A p \in OppIds \ {o} : opp'[p] = opp[p]
  BY <1>1, <1>2 DEF Shape, TypeOK, OppRecord
<1>7. Legs'[o] = [l \in Leg |-> "NEW"]
  <2>1. HasOrders(o)' /\ BuyState(o)' = "NEW" /\ SellState(o)' = "NEW"
    BY <1>4, <1>5, <1>6 DEF HasOrders, BuyState, SellState
  <2>2. Legs'[o] = [buy |-> "NEW", sell |-> "NEW"]
    BY <1>1, <2>1 DEF Legs, LegStates
  <2>3. QED BY <2>2 DEF Leg
<1>8. ASSUME NEW p \in OppIds \ {o} PROVE Legs'[p] = Legs[p]
  <2>1. CASE HasOrders(p)
    <3>1. opp[p].buyId \in 1..(nextOrderId - 1) /\ opp[p].sellId \in 1..(nextOrderId - 1)
      BY <2>1, OppOwned
    <3>2. QED BY <3>1, <1>5, <1>6 DEF Legs, LegStates, HasOrders, BuyState, SellState
  <2>2. CASE ~HasOrders(p)
    BY <2>2, <1>6 DEF Legs, LegStates, HasOrders
  <2>3. QED BY <2>1, <2>2
<1>9. Legs' = [Legs EXCEPT ![o] = [l \in Leg |-> "NEW"]]
  BY <1>1, <1>7, <1>8 DEF Legs
<1>10. Legs[o] = [l \in Leg |-> "NONE"]
  <2>1. Legs[o] = [buy |-> "NONE", sell |-> "NONE"]
    BY <1>1 DEF Legs, LegStates
  <2>2. QED BY <2>1 DEF Leg
<1>11. Outcome' = Outcome
  BY <1>1, <1>6 DEF Outcome
<1>12. Abstract!Place(o)
  BY <1>9, <1>10, <1>11 DEF Abstract!Place, Abstract!BothLegs, Abstract!Leg, Leg, Legs, Outcome
<1>13. QED BY <1>1, <1>12, LifeStep

(* An order executed: a leg filled, or nothing new of a settled one.       *)
LEMMA ExecuteLife ==
  ASSUME Shape, Settled, NEW t \in Threads, ExecuteBuy(t) \/ ExecuteSell(t)
  PROVE  [Abstract!Next]_(Abstract!vars)
<1> DEFINE o == job[t]
<1>1. o \in OppIds /\ HasOrders(o) /\ opp' = opp
  BY ExecuteEffect
<1>2. PICK i \in {opp[o].buyId, opp[o].sellId} :
        i \in OrderIds /\ order' = [order EXCEPT ![i].state = "EXECUTED"]
  BY ExecuteEffect
<1>3. PICK l \in Leg : order' = [order EXCEPT ![LegId(o, l)].state = "EXECUTED"]
  BY <1>2 DEF LegId, Leg
<1> HIDE DEF o
<1>4. Legs' = [Legs EXCEPT ![o][l] = "EXECUTED"]
  <2>1. SameOrders
    BY <1>1 DEF SameOrders
  <2>2. QED BY <2>1, <1>1, <1>3, LegChanged
<1>5. Outcome' = Outcome
  BY <1>1 DEF Outcome
<1>6. /\ Legs[o][l] \in LiveOrderStates
      /\ Outcome[o] = "EXECUTED_AS_PLANNED" => Legs[o][l] = "EXECUTED"
  BY <1>1, LegStatesKnown
<1>7. CASE Outcome[o] = "EXECUTED_AS_PLANNED"
  <2>1. Legs' = Legs
    <3>1. [Legs[o] EXCEPT ![l] = Legs[o][l]] = Legs[o]
      BY <1>1, LegsShape
    <3>2. QED BY <3>1, <1>1, <1>4, <1>6, <1>7 DEF Legs
  <2>2. QED BY <2>1, <1>5, QuietStep
<1>8. CASE Outcome[o] # "EXECUTED_AS_PLANNED"
  <2>1. Abstract!Fill(o, l)
    BY <1>4, <1>5, <1>6, <1>8
    DEF Abstract!Fill, Abstract!Planned, Legs, Outcome, LiveOrderStates
  <2>2. QED BY <2>1, <1>1, LifeStep
<1>9. QED BY <1>7, <1>8

(* A report: both legs are judged as they then are.  A settled opportunity *)
(* reported again stays as it is.                                          *)
LEMMA ReportLife ==
  ASSUME Shape, Settled, NEW tm \in batch, OrderReport(tm)
  PROVE  [Abstract!Next]_(Abstract!vars)
<1>1. PICK o \in OppIds :
      /\ o = order[tm.ref].opp /\ HasOrders(o)
      /\ tm.ref \in 1..(nextOrderId - 1) /\ tm.ref \in OrderIds
      /\ order' = [order EXCEPT ![tm.ref].state = "EXECUTED"]
      /\ opp' = [opp EXCEPT ![o].state = StateAfterReport(opp[o].state,
                    order'[opp[o].buyId].state, order'[opp[o].sellId].state)]
      /\ StateAfterReport(opp[o].state, order'[opp[o].buyId].state,
                          order'[opp[o].sellId].state) \in OppStates
  BY ReportEffect
<1>2. HasOrders(o)
  BY <1>1
<1>3. PICK l \in Leg : LegId(o, l) = tm.ref
  BY <1>1, <1>2 DEF Shape, MapsConsistent, LegId, Leg
<1> DEFINE nowLegs == [Legs[o] EXCEPT ![l] = "EXECUTED"]
           state == StateAfterReport(opp[o].state, nowLegs["buy"], nowLegs["sell"])
<1>4. /\ LegId(o, l) \in OrderIds
      /\ \A k \in Leg : LegId(o, k) \in OrderIds /\ (LegId(o, k) = LegId(o, l) => k = l)
  BY <1>2, LegIds
<1>5. \A k \in Leg : nowLegs[k] = order'[LegId(o, k)].state
  <2>1. \A j \in OrderIds : order'[j].state = IF j = tm.ref THEN "EXECUTED" ELSE order[j].state
    BY <1>1, OrderStateSet DEF OrderStates, ClosedOrderStates
  <2>2. \A k \in Leg : nowLegs[k] = IF k = l THEN "EXECUTED" ELSE Legs[o][k]
    BY <1>2, LegsShape
  <2>3. \A k \in Leg : Legs[o][k] = order[LegId(o, k)].state
    BY <1>2, LegsShape
  <2>4. QED BY <2>1, <2>2, <2>3, <1>3, <1>4
<1>6. state = StateAfterReport(opp[o].state, order'[opp[o].buyId].state, order'[opp[o].sellId].state)
  <2> HIDE DEF nowLegs
  <2>1. /\ nowLegs["buy"] = order'[opp[o].buyId].state
        /\ nowLegs["sell"] = order'[opp[o].sellId].state
    BY <1>5 DEF LegId, Leg
  <2>2. QED BY <2>1
<1>7. SameOrders /\ \A p \in OppIds : opp'[p].state = IF p = o THEN state ELSE opp[p].state
  <2> HIDE DEF state
  <2>1. opp' = [opp EXCEPT ![o].state = state] /\ state \in OppStates
    BY <1>1, <1>6
  <2>2. QED BY <2>1, <1>2, OppStateSet
<1>8. Legs' = [Legs EXCEPT ![o] = nowLegs]
  <2>1. Legs' = [Legs EXCEPT ![o][l] = "EXECUTED"]
    <3>1. HasOrders(o) /\ order' = [order EXCEPT ![LegId(o, l)].state = "EXECUTED"]
      BY <1>1, <1>2, <1>3
    <3>2. SameOrders
      BY <1>7
    <3>3. QED BY <3>1, <3>2, LegChanged
  <2>2. QED BY <2>1
<1>9. Outcome' = [Outcome EXCEPT ![o] = state]
  <2> HIDE DEF state
  <2>1. QED BY <1>7 DEF Outcome
<1>10. /\ \A k \in Leg : nowLegs[k] \in LiveOrderStates
       /\ nowLegs[l] = "EXECUTED"
       /\ nowLegs = [k \in Leg |-> nowLegs[k]]
       /\ Legs[o][l] # "NONE"
       /\ Outcome[o] = opp[o].state
  <2>1. \A k \in Leg : Legs[o][k] \in LiveOrderStates
    BY <1>2, LegStatesKnown
  <2>2. \A k \in Leg : nowLegs[k] = IF k = l THEN "EXECUTED" ELSE Legs[o][k]
    BY LegsShape
  <2>3. nowLegs = [k \in Leg |-> nowLegs[k]]
    BY LegsShape
  <2>4. Outcome[o] = opp[o].state
    BY DEF Outcome
  <2> HIDE DEF nowLegs
  <2>5. QED BY <2>1, <2>2, <2>3, <2>4 DEF LiveOrderStates
<1>11. CASE Outcome[o] = "EXECUTED_AS_PLANNED"
  <2>1. \A k \in Leg : Legs[o][k] = "EXECUTED"
    BY <1>2, <1>11, LegStatesKnown
  <2>2. nowLegs = Legs[o]
    BY <1>2, <2>1, LegsShape
  <2>3. state = "EXECUTED_AS_PLANNED"
    <3>1. nowLegs["buy"] = "EXECUTED" /\ nowLegs["sell"] = "EXECUTED"
      BY <2>1, <2>2 DEF Leg
    <3> HIDE DEF nowLegs
    <3>2. QED BY <3>1 DEF StateAfterReport
  <2>4. Legs' = Legs /\ Outcome' = Outcome
    <3> HIDE DEF nowLegs, state
    <3>1. QED BY <2>2, <2>3, <1>8, <1>9, <1>11 DEF Legs, Outcome
  <2>5. QED BY <2>4, QuietStep
<1>12. CASE Outcome[o] # "EXECUTED_AS_PLANNED"
  <2>1. \/ nowLegs = [k \in Leg |-> "EXECUTED"] /\ state = "EXECUTED_AS_PLANNED"
        \/ (\E k \in Leg : nowLegs[k] = "CANCELLED") /\ state = "CANCELLED"
        \/ (\E k \in Leg : nowLegs[k] = "NEW") /\ state = opp[o].state
    <3> DEFINE other == IF l = "buy" THEN "sell" ELSE "buy"
    <3>1. other \in Leg /\ Leg = {l, other}
      BY DEF Leg
    <3>2. {nowLegs["buy"], nowLegs["sell"]} = {"EXECUTED", nowLegs[other]}
      BY <1>10 DEF Leg
    <3> HIDE DEF nowLegs, other
    <3>3. CASE nowLegs[other] = "EXECUTED"
      <4>1. \A k \in Leg : nowLegs[k] = "EXECUTED"
        BY <3>1, <3>3, <1>10
      <4>2. nowLegs = [k \in Leg |-> "EXECUTED"]
        BY <4>1, <1>10
      <4>3. state = "EXECUTED_AS_PLANNED"
        BY <3>2, <3>3 DEF StateAfterReport
      <4>4. QED BY <4>2, <4>3
    <3>4. CASE nowLegs[other] = "CANCELLED"
      <4>1. state = "CANCELLED"
        BY <3>2, <3>4 DEF StateAfterReport, OpenOrderStates
      <4>2. QED BY <4>1, <3>1, <3>4
    <3>5. CASE nowLegs[other] = "NEW"
      <4>1. state = opp[o].state
        BY <3>2, <3>5 DEF StateAfterReport
      <4>2. QED BY <4>1, <3>1, <3>5
    <3>6. QED BY <3>1, <3>3, <3>4, <3>5, <1>10 DEF LiveOrderStates
  <2>2. Legs[o][l] # "NONE" /\ Legs' = [Legs EXCEPT ![o] = nowLegs]
    BY <1>8, <1>10
  <2>3. state = opp[o].state => Outcome' = Outcome
    <3> HIDE DEF state
    <3>1. QED BY <1>9, <1>10 DEF Outcome
  <2>4. Abstract!Report(o, l)
    <3> HIDE DEF state
    <3>1. QED BY <2>1, <2>2, <2>3, <1>9, <1>12
      DEF Abstract!Report, Abstract!Planned, Abstract!BothLegs, Abstract!Leg, Leg, Legs, Outcome
  <2>5. QED BY <2>4, LifeStep
<1>13. QED BY <1>11, <1>12

(* The settling comes when a leg has left NEW, and never to an opportunity *)
(* executed as planned (MainKnows).                                        *)
LEMMA SettleLife ==
  ASSUME Shape, Settled, Settle
  PROVE  [Abstract!Next]_(Abstract!vars)
<1>1. PICK o \in OppIds :
      /\ o = job[Main] /\ pc[Main] = "settle" /\ HasOrders(o)
      /\ opp' = [opp EXCEPT ![o].state = "EXECUTION_TIMEOUT"]
      /\ "EXECUTION_TIMEOUT" \in OppStates
      /\ UNCHANGED order
  BY SettleEffect
<1>2. /\ opp[o].state # "EXECUTED_AS_PLANNED"
      /\ BuyState(o) # "NEW" \/ SellState(o) # "NEW"
  BY <1>1 DEF Settled, MainKnows
<1>3. /\ SameOrders /\ opp'[o].state = "EXECUTION_TIMEOUT"
      /\ \A p \in OppIds \ {o} : opp'[p] = opp[p]
  BY <1>1, OppStateSet
<1>4. Legs' = Legs
  BY <1>1, <1>3, LegsKept
<1>5. Outcome' = [Outcome EXCEPT ![o] = "EXECUTION_TIMEOUT"]
  <2>1. \A p \in OppIds :
          opp'[p].state = IF p = o THEN "EXECUTION_TIMEOUT" ELSE opp[p].state
    BY <1>3
  <2>2. QED BY <2>1 DEF Outcome
<1>6. \E l \in Leg : Legs[o][l] \notin {"NONE", "NEW"}
  <2>1. Legs[o]["buy"] = BuyState(o) /\ Legs[o]["sell"] = SellState(o)
    BY <1>1 DEF Legs, LegStates
  <2>2. \A l \in Leg : Legs[o][l] # "NONE"
    BY <1>1, LegStatesKnown DEF LiveOrderStates
  <2>3. QED BY <2>1, <2>2, <1>2 DEF Leg
<1>7. Abstract!TimeOut(o)
  BY <1>1, <1>2, <1>4, <1>5, <1>6
  DEF Abstract!TimeOut, Abstract!Planned, Abstract!Leg, Leg, Legs, Outcome
<1>8. QED BY <1>1, <1>7, LifeStep

LEMMA StopLife ==
  ASSUME Shape, StopAtOnce \/ StopWhenSettled
  PROVE  [Abstract!Next]_(Abstract!vars)
<1>1. CASE StopAtOnce
  BY <1>1, BooksStep DEF StopAtOnce
<1>2. CASE StopWhenSettled
  <2>1. job[Main] \in OppIds
    BY <1>2, CallbackJob DEF StopWhenSettled, JobSteps, StopSteps
  <2>2. opp' = [opp EXCEPT ![job[Main]].timerId = 0] /\ UNCHANGED order
    BY <1>2 DEF StopWhenSettled
  <2>3. (\A p \in OppIds : opp'[p].state = opp[p].state) /\ SameOrders
    BY <2>1, <2>2, OppTimerSet
  <2>4. QED BY <2>2, <2>3, TimerStep
<1>3. QED BY <1>1, <1>2

(* A leg cancelled: never one of a settled opportunity (MainKnows).        *)
LEMMA CancelLife ==
  ASSUME Shape, Settled, CancelOrders
  PROVE  [Abstract!Next]_(Abstract!vars)
<1>1. PICK o \in OppIds : o = job[Main] /\ HasOrders(o)
  BY CancelEffect
<1>2. opp' = opp
  BY CancelEffect
<1>3. Outcome' = Outcome
  BY <1>2 DEF Outcome
<1>4. CASE UNCHANGED order
  BY <1>2, <1>4, TimerStep DEF SameOrders
<1>5. CASE ~UNCHANGED order
  <2>1. PICK i \in {opp[o].buyId, opp[o].sellId} :
          order' = [order EXCEPT ![i].state = "CANCELLED"]
    BY <1>1, <1>5, CancelEffect
  <2>2. PICK l \in Leg : order' = [order EXCEPT ![LegId(o, l)].state = "CANCELLED"]
    BY <2>1 DEF LegId, Leg
  <2>3. Legs' = [Legs EXCEPT ![o][l] = "CANCELLED"]
    <3>1. SameOrders
      BY <1>2 DEF SameOrders
    <3>2. HasOrders(o) /\ order' = [order EXCEPT ![LegId(o, l)].state = "CANCELLED"]
      BY <1>1, <2>2
    <3>3. QED BY <3>1, <3>2, LegChanged
  <2>4. Outcome[o] # "EXECUTED_AS_PLANNED"
    <3>1. pc[Main] \in {"cancelBuy", "cancelSell"}
      BY <1>5, CancelEffect
    <3>2. QED BY <3>1, <1>1 DEF Settled, MainKnows, Outcome
  <2>5. Legs[o][l] # "NONE"
    BY <1>1, LegStatesKnown DEF LiveOrderStates
  <2>6. Abstract!Cancel(o, l)
    BY <2>3, <2>4, <2>5, <1>3 DEF Abstract!Cancel, Abstract!Planned, Legs, Outcome
  <2>7. QED BY <2>6, <1>1, LifeStep
<1>6. QED BY <1>4, <1>5

-----------------------------------------------------------------------------
LEMMA LifeInit == ASSUME Init PROVE Abstract!Init
<1>1. \A o \in OppIds : LegStates(o) = [l \in Leg |-> "NONE"]
  BY DEF Init, LegStates, HasOrders, Leg
<1>2. QED BY <1>1 DEF Init, Abstract!Init, Abstract!BothLegs, Abstract!Leg, Leg

LEMMA LifeStepKept ==
  ASSUME Shape, Settled, [Next]_vars
  PROVE  [Abstract!Next]_(Abstract!vars)
<1>1. CASE Tick \/ CheckTimers
  BY <1>1, BooksStep DEF Tick, CheckTimers
<1>2. CASE Callback
  <2>1. ASSUME NEW tm \in batch, NEW id,
               \/ TimeoutUnknown(tm, id)
               \/ TimeoutWithoutOrders(tm, id)
               \/ TimeoutReadsBuy(tm, id)
        PROVE  [Abstract!Next]_(Abstract!vars)
    BY <2>1, BooksStep DEF TimeoutUnknown, TimeoutWithoutOrders, TimeoutReadsBuy, TimeoutFor
  <2>2. CASE LogOpportunity \/ JudgeSell
    BY <2>2, BooksStep DEF LogOpportunity, JudgeSell, Judged
  <2>3. QED BY <1>2, <2>1, <2>2, ReportLife, StopLife, SettleLife, CancelLife DEF Callback
<1>3. ASSUME NEW t \in Threads, Accept(t) PROVE [Abstract!Next]_(Abstract!vars)
  BY <1>3, AcceptLife
<1>4. ASSUME NEW t \in Threads, Placing(t) PROVE [Abstract!Next]_(Abstract!vars)
  <2>1. CASE ArmTimeout(t) \/ WriteId(t) \/ TimeReport(t)
    BY <2>1, BooksStep DEF ArmTimeout, WriteId, TimeReport, DrawId
  <2>2. CASE InsertReport(t)
    <3>1. UNCHANGED books
      BY <2>2 DEF InsertReport, Insert, books
    <3>2. QED BY <3>1, BooksStep
  <2>3. QED BY <1>4, <2>1, <2>2, InsertTimeoutLife, PlaceLife, ExecuteLife DEF Placing
<1>5. CASE UNCHANGED vars
  BY <1>5, BooksStep DEF vars
<1>6. QED BY <1>1, <1>2, <1>3, <1>4, <1>5 DEF Next

(* Whatever the threads, the callbacks and the dangling pointers of the    *)
(* order manager do, every opportunity lives the abstract life: its orders *)
(* come together, once; no leg returns to NEW; and it is planned only on   *)
(* two executed legs, which then nothing undoes, not even a cancellation   *)
(* that had checked a leg before it settled (order_mgr.cpp 120-340).       *)
THEOREM LifecycleImplemented == Spec => Lifecycle
<1>1. Init => Abstract!Init
  BY LifeInit
<1>2. Shape /\ Settled /\ [Next]_vars => [Abstract!Next]_(Abstract!vars)
  BY LifeStepKept
<1>3. QED BY <1>1, <1>2, ShapeAlways, SettledAlways, PTL
  DEF Spec, Lifecycle, Abstract!Spec
=============================================================================
