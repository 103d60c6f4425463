---------------------------- MODULE TimersProofs ----------------------------
(***************************************************************************)
(* Theorems about Timers, for any threads, delays and bounds: the index is *)
(* sound, every timer is accounted for once, timers fire in order.         *)
(***************************************************************************)
EXTENDS Timers, FiniteSetTheorems, TLAPS

(* The types, and what a thread inside addTimer has in hand: a new timer,  *)
(* or on the main thread the next of the periodic timer being fired.       *)
Types ==
  /\ now \in Nat /\ nextId \in Nat \ {0} /\ nextNode \in Nat \ {0} /\ pass \in Nat
  /\ calls \in 0..MaxAdds
  /\ timers \subseteq Timer /\ batch \subseteq Timer /\ current \subseteq Timer
  /\ fired \subseteq Timer /\ stopped \subseteq Timer
  /\ pc \in [Callers -> {"idle", "readId", "writeId", "insert"}]
  /\ adding \in [Callers -> Timer]

IndexTypes == DOMAIN timerIds \subseteq Nat /\ \A i \in DOMAIN timerIds : timerIds[i] \in Nat

Continues(tm) ==
  /\ current = {tm} /\ tm.interval # 0
  /\ adding[Main].at = tm.at + tm.interval
  /\ adding[Main].interval = tm.interval /\ adding[Main].series = tm.series
InHand ==
  /\ \A t \in Others : pc[t] # "idle" => adding[t].series = 0
  /\ pc[Main] = "idle" => current = {}
  /\ pc[Main] # "idle" => \/ current = {} /\ adding[Main].series = 0
                          \/ \E tm \in current : Continues(tm)

(* What is being fired was due, and before what is not of this pass.       *)
Ahead ==
  /\ \A tm \in batch : tm.at <= now
  /\ \A tm \in batch, u \in timers : u.born = pass \/ tm.at < u.at

IInv == Types /\ IndexTypes /\ InHand /\ Ahead /\ IndexSound /\ AccountedOnce

-----------------------------------------------------------------------------
(* At the start there are no timers.                                       *)
LEMMA InitInv == Init => IInv
<1> SUFFICES ASSUME Init PROVE IInv
  OBVIOUS
<1> USE DEF Init
<1>1. Types
  BY TimerBounds DEF Types, NoTimer, Timer, FirstId
<1>2. IndexTypes /\ InHand /\ Ahead /\ IndexSound
  BY DEF IndexTypes, InHand, Ahead, IndexSound, Callers
<1>3. AccountedOnce
  BY DEF AccountedOnce, Known, Pending
<1>4. QED
  BY <1>1, <1>2, <1>3 DEF IInv

(* Time passes.                                                            *)
LEMMA TickInv == IInv /\ Tick => IInv'
<1> SUFFICES ASSUME IInv, Tick PROVE IInv'
  OBVIOUS
<1> USE DEF IInv, Tick, store, checking, calling
<1>1. Types' /\ IndexTypes'
  BY DEF Types, IndexTypes
<1>2. InHand' /\ IndexSound' /\ AccountedOnce'
  BY DEF InHand, Continues, IndexSound, AccountedOnce, Known, Pending
<1>3. Ahead'
  BY DEF Ahead, Types, Timer
<1>4. QED
  BY <1>1, <1>2, <1>3

(* No step.                                                                *)
LEMMA StutterInv == IInv /\ UNCHANGED vars => IInv'
<1> SUFFICES ASSUME IInv, UNCHANGED vars PROVE IInv'
  OBVIOUS
<1> USE DEF IInv, vars, store, checking, calling
<1>1. Types' /\ IndexTypes'
  BY DEF Types, IndexTypes
<1>2. InHand' /\ IndexSound' /\ AccountedOnce' /\ Ahead'
  BY DEF InHand, Continues, IndexSound, AccountedOnce, Known, Pending, Ahead
<1>3. QED
  BY <1>1, <1>2

(* A thread goes into addTimer.                                            *)
LEMMA AddTimerInv ==
  ASSUME IInv, NEW t \in Callers, NEW d \in Delays, NEW isPeriodic \in BOOLEAN,
         AddTimer(t, d, isPeriodic)
  PROVE  IInv'
<1> USE DEF IInv, AddTimer, StartAdd, store, checking
<1>1. Types'
  <2>1. now + d \in Nat /\ d \in Nat
    BY TimerDelays DEF Types
  <2>2. [NoTimer EXCEPT !.at = now + d, !.interval = IF isPeriodic THEN d ELSE 0] \in Timer
    BY <2>1 DEF NoTimer, Timer
  <2>3. QED
    BY <2>2, TimerBounds DEF Types
<1>2. IndexTypes' /\ IndexSound' /\ AccountedOnce' /\ Ahead'
  BY DEF IndexTypes, IndexSound, AccountedOnce, Known, Pending, Ahead
<1>3. InHand'
  <2>1. adding'[t].series = 0 /\ current' = current
    BY DEF NoTimer, Types
  <2>2. \A u \in Callers \ {t} : pc'[u] = pc[u] /\ adding'[u] = adding[u]
    BY DEF Types
  <2>3. CASE t = Main
    BY <2>1, <2>2, <2>3, TimerThreads DEF InHand, Callers
  <2>4. CASE t # Main
    BY <2>1, <2>2, <2>4 DEF InHand, Continues, Callers
  <2>5. QED
    BY <2>3, <2>4
<1>4. QED
  BY <1>1, <1>2, <1>3

(* The id is read.                                                         *)
LEMMA ReadIdInv ==
  ASSUME IInv, NEW t \in Callers, ReadId(t)
  PROVE  IInv'
<1> USE DEF IInv, ReadId, store, checking
<1>1. Types'
  BY DEF Types, Timer
<1>2. IndexTypes' /\ IndexSound' /\ AccountedOnce' /\ Ahead'
  BY DEF IndexTypes, IndexSound, AccountedOnce, Known, Pending, Ahead
<1>3. InHand'
  <2>1. /\ adding'[t].series = adding[t].series /\ adding'[t].at = adding[t].at
        /\ adding'[t].interval = adding[t].interval /\ current' = current
    BY DEF Types, Timer
  <2>2. \A u \in Callers \ {t} : pc'[u] = pc[u] /\ adding'[u] = adding[u]
    BY DEF Types
  <2>3. pc[t] # "idle"
    OBVIOUS
  <2>4. CASE t = Main
    BY <2>1, <2>2, <2>3, <2>4, TimerThreads DEF InHand, Continues, Callers, Types
  <2>5. CASE t # Main
    BY <2>1, <2>2, <2>3, <2>5 DEF InHand, Continues, Callers
  <2>6. QED
    BY <2>4, <2>5
<1>4. QED
  BY <1>1, <1>2, <1>3

(* The counter is written.                                                 *)
LEMMA WriteIdInv ==
  ASSUME IInv, NEW t \in Callers, WriteId(t)
  PROVE  IInv'
<1> USE DEF IInv, WriteId, store, checking
<1>1. Types'
  BY DEF Types, Timer
<1>2. IndexTypes' /\ IndexSound' /\ AccountedOnce' /\ Ahead'
  BY DEF IndexTypes, IndexSound, AccountedOnce, Known, Pending, Ahead
<1>3. InHand'
  BY DEF InHand, Continues, Callers, Types
<1>4. QED
  BY <1>1, <1>2, <1>3

(* stopTimer: another index entry leads to another timer.                  *)
LEMMA StopTimerInv ==
  ASSUME IInv, NEW t \in Callers, NEW id \in DOMAIN timerIds, StopTimer(t, id)
  PROVE  IInv'
<1> USE DEF IInv, StopTimer, checking, calling
<1>1. Types'
  BY DEF Types
<1>2. IndexTypes'
  BY DEF IndexTypes
<1>3. InHand' /\ Ahead'
  BY DEF InHand, Continues, Ahead
<1>4. Known' = Known
  BY DEF Known, Pending
<1>5. AccountedOnce'
  BY <1>4 DEF AccountedOnce
<1>6. IndexSound'
  <2> SUFFICES ASSUME NEW i \in DOMAIN timerIds', NEW tm \in timers,
                      tm.node = timerIds[i], tm.id = i
               PROVE  tm.node # timerIds[id] /\ timerIds'[i] = timerIds[i]
    BY DEF IndexSound
  <2>1. PICK u \in timers : u.node = timerIds[id] /\ u.id = id
    BY DEF IndexSound
  <2>2. i # id
    OBVIOUS
  <2>3. tm.node # u.node
    BY <2>1, <2>2 DEF AccountedOnce, Known, Pending
  <2>4. QED
    BY <2>1, <2>3
<1>7. QED
  BY <1>1, <1>2, <1>3, <1>5, <1>6

(* The expired timers leave the store, and with them their ids the index.  *)
LEMMA CollectInv == IInv /\ Collect => IInv'
<1> SUFFICES ASSUME IInv, Collect PROVE IInv'
  OBVIOUS
<1> USE DEF IInv, Collect, Expired, calling
<1>1. Types'
  BY DEF Types
<1>2. IndexTypes'
  BY DEF IndexTypes
<1>3. InHand'
  BY DEF InHand, Continues
<1>4. Ahead'
  BY DEF Ahead, Types, Timer
<1>5. Known' = Known
  BY DEF Known, Pending
<1>6. AccountedOnce'
  BY <1>5 DEF AccountedOnce
<1>7. IndexSound'
  BY DEF IndexSound
<1>8. QED
  BY <1>1, <1>2, <1>3, <1>4, <1>6, <1>7

(* A timer is fired; if it is periodic, the next of it is in hand first.   *)
LEMMA FireInv == IInv /\ Fire => IInv'
<1> SUFFICES ASSUME IInv, Fire PROVE IInv'
  OBVIOUS
<1> USE DEF IInv
<1>1. PICK tm \in batch :
        /\ batch' = batch \ {tm}
        /\ IF tm.interval = 0
             THEN fired' = fired \cup {tm} /\ UNCHANGED <<current, calling>>
             ELSE /\ current' = {tm}
                  /\ StartAdd(Main, [tm EXCEPT !.at = tm.at + tm.interval])
                  /\ UNCHANGED fired
  BY DEF Fire
<1>2. pc[Main] = "idle" /\ current = {} /\ UNCHANGED <<now, nextId, store, pass, calls, stopped>>
  BY DEF Fire, InHand
<1>3. tm \in Timer /\ Main \in Callers
  BY DEF Types, Callers
<1>4. Types'
  <2>1. [tm EXCEPT !.at = tm.at + tm.interval] \in Timer
    BY <1>3 DEF Timer
  <2>2. QED
    BY <1>1, <1>2, <1>3, <2>1 DEF Types, StartAdd, calling, store
<1>5. IndexTypes' /\ IndexSound' /\ Ahead'
  BY <1>1, <1>2 DEF IndexTypes, IndexSound, Ahead, store
<1>6. InHand'
  <2>1. CASE tm.interval = 0
    BY <1>1, <1>2, <2>1 DEF InHand, calling
  <2>2. CASE tm.interval # 0
    <3>1. /\ adding'[Main].at = tm.at + tm.interval /\ current' = {tm}
          /\ adding'[Main].interval = tm.interval /\ adding'[Main].series = tm.series
      BY <1>1, <1>3, <2>2 DEF StartAdd, Types, Timer
    <3>2. \A u \in Others : pc'[u] = pc[u] /\ adding'[u] = adding[u]
      BY <1>1, <2>2, TimerThreads DEF StartAdd, Types, Callers
    <3>3. pc'[Main] # "idle"
      BY <1>1, <1>3, <2>2 DEF StartAdd, Types
    <3>4. QED
      BY <2>2, <3>1, <3>2, <3>3 DEF InHand, Continues
  <2>3. QED
    BY <2>1, <2>2
<1>7. Known' = Known
  BY <1>1, <1>2 DEF Known, Pending, store
<1>8. AccountedOnce'
  BY <1>1, <1>2, <1>7 DEF AccountedOnce, store
<1>9. QED
  BY <1>4, <1>5, <1>6, <1>8

(* A thread inserts its timer; the main thread then calls the callback of  *)
(* the one it continues.                                                   *)
New(t) == [adding[t] EXCEPT
             !.node = nextNode,
             !.series = IF adding[t].series = 0 THEN nextNode ELSE @,
             !.born = pass]

(* The timer inserted, field by field.                                     *)
LEMMA NewTimer ==
  ASSUME Types, NEW t \in Callers
  PROVE  /\ New(t) \in Timer
         /\ New(t).node = nextNode /\ New(t).born = pass
         /\ New(t).id = adding[t].id /\ New(t).at = adding[t].at
         /\ New(t).interval = adding[t].interval
         /\ New(t).series = IF adding[t].series = 0 THEN nextNode ELSE adding[t].series
BY DEF New, Types, Timer

LEMMA InsertInv ==
  ASSUME IInv, NEW t \in Callers, Insert(t)
  PROVE  IInv' /\ Known' = Known \cup {New(t)} /\ timers' = timers \cup {New(t)}
<1> DEFINE tm == New(t)
<1> USE DEF IInv
<1>1. /\ tm \in Timer /\ tm.node = nextNode /\ tm.born = pass
      /\ Types /\ Main \in Callers
  BY NewTimer DEF Callers
<1>2. /\ pc[t] = "insert" /\ nextNode' = nextNode + 1 /\ timers' = timers \cup {tm}
      /\ timerIds' = [i \in DOMAIN timerIds \cup {tm.id} |->
                        IF i = tm.id THEN tm.node ELSE timerIds[i]]
      /\ pc' = [pc EXCEPT ![t] = "idle"] /\ adding' = [adding EXCEPT ![t] = NoTimer]
      /\ UNCHANGED <<now, nextId, batch, pass, calls, stopped>>
      /\ IF t = Main THEN current' = {} /\ fired' = fired \cup current
                     ELSE UNCHANGED <<current, fired>>
  BY DEF Insert, New
<1> HIDE DEF tm
<1>3. Known' = Known \cup {tm}
  BY <1>2 DEF Known, Pending
<1>4. \A u \in Known : u.node \in 1..(nextNode - 1)
  BY DEF AccountedOnce
<1>5. Types'
  <2>1. NoTimer \in Timer
    BY DEF NoTimer, Timer
  <2>2. QED
    BY <1>1, <1>2, <2>1 DEF Types
<1>6. IndexTypes'
  BY <1>1, <1>2 DEF IndexTypes, Timer
<1>7. InHand'
  <2>1. CASE t = Main
    BY <1>1, <1>2, <2>1, TimerThreads DEF InHand, Types, Callers
  <2>2. CASE t # Main
    BY <1>1, <1>2, <2>2 DEF InHand, Continues, Types, Callers
  <2>3. QED
    BY <2>1, <2>2
<1>8. Ahead'
  BY <1>1, <1>2 DEF Ahead
<1>9. IndexSound'
  <2> SUFFICES ASSUME NEW i \in DOMAIN timerIds'
               PROVE  \E u \in timers' : u.node = timerIds'[i] /\ u.id = i
    BY DEF IndexSound
  <2>1. CASE i = tm.id
    BY <1>1, <1>2, <2>1
  <2>2. CASE i # tm.id
    BY <1>2, <2>2 DEF IndexSound
  <2>3. QED
    BY <2>1, <2>2
<1>10. AccountedOnce'
  <2>1. {u.node : u \in Known'} = 1..(nextNode' - 1)
    <3>1. {u.node : u \in Known'} = {u.node : u \in Known} \cup {nextNode}
      BY <1>1, <1>3
    <3>2. {u.node : u \in Known} = 1..(nextNode - 1)
      BY DEF AccountedOnce
    <3>3. QED
      BY <1>1, <1>2, <3>1, <3>2 DEF Types
  <2>2. \A u \in Known : u.node # tm.node
    BY <1>1, <1>4 DEF Types
  <2>3. \A u, w \in Known' : u.node = w.node => u = w
    BY <1>3, <2>2 DEF AccountedOnce
  <2>4. tm \notin Known
    BY <2>2
  <2>5. /\ timers' \cap (batch' \cup current' \cup fired' \cup stopped') = {}
        /\ batch' \cap (current' \cup fired' \cup stopped') = {}
        /\ current' \cap (fired' \cup stopped') = {}
        /\ fired' \cap stopped' = {}
    BY <1>2, <2>4 DEF AccountedOnce, Known, Pending
  <2>6. QED
    BY <2>1, <2>3, <2>5 DEF AccountedOnce
<1>11. QED
  BY <1>2, <1>3, <1>5, <1>6, <1>7, <1>8, <1>9, <1>10 DEF tm

-----------------------------------------------------------------------------
(* Every step keeps the invariant.                                         *)
LEMMA NextInv == IInv /\ [Next]_vars => IInv'
<1> SUFFICES ASSUME IInv, [Next]_vars PROVE IInv'
  OBVIOUS
<1>1. ASSUME NEW t \in Callers, Adding(t) PROVE IInv'
  BY <1>1, ReadIdInv, WriteIdInv, InsertInv DEF Adding
<1>2. QED
  BY <1>1, TickInv, CollectInv, FireInv, AddTimerInv, StopTimerInv, StutterInv DEF Next

(* The invariant holds in every state of every run.                        *)
THEOREM Inductive == Spec => []IInv
<1>1. Init => IInv
  BY InitInv
<1>2. IInv /\ [Next]_vars => IInv'
  BY NextInv
<1>3. QED
  BY <1>1, <1>2, PTL DEF Spec

(* The timers, the index and what the threads have in hand have their      *)
(* types.                                                                  *)
THEOREM TypeCorrect == Spec => []TypeOK
<1>1. IInv => TypeOK
  <2> SUFFICES ASSUME IInv PROVE TypeOK
    OBVIOUS
  <2>1. Types /\ IndexTypes
    BY DEF IInv
  <2>2. Range(timerIds) \subseteq Nat
    BY <2>1 DEF IndexTypes, Range
  <2>3. current = {} \/ \E tm \in current : current = {tm}
    <3>1. pc[Main] = "idle" \/ pc[Main] # "idle"
      OBVIOUS
    <3>2. QED
      BY <3>1 DEF IInv, InHand, Continues
  <2>4. Cardinality(current) <= 1
    BY <2>3, FS_EmptySet, FS_Singleton
  <2>5. QED
    BY <2>1, <2>2, <2>4 DEF TypeOK, Types, IndexTypes
<1>2. QED
  BY <1>1, Inductive, PTL

(* Every iterator in the index is valid, whatever ids the race hands out.  *)
THEOREM IndexIsSound == Spec => []IndexSound
<1>1. IInv => IndexSound
  BY DEF IInv
<1>2. QED
  BY <1>1, Inductive, PTL

(* Every inserted timer is in exactly one place.                           *)
THEOREM AllAccounted == Spec => []AccountedOnce
<1>1. IInv => AccountedOnce
  BY DEF IInv
<1>2. QED
  BY <1>1, Inductive, PTL

-----------------------------------------------------------------------------
(* A timer fires in its turn: what is due earlier was added in this pass.  *)
Order ==
  \A tm \in (fired' \cup current') \ (fired \cup current) :
    /\ tm.at <= now
    /\ \A u \in Pending : u.at < tm.at => u.born = pass

(* It is so when a timer is fired, the only step that adds to fired or     *)
(* current.                                                                *)
LEMMA FireOrder == IInv /\ Fire => Order
<1> SUFFICES ASSUME IInv, Fire PROVE Order
  OBVIOUS
<1>1. PICK tm \in batch : /\ \A u \in batch \ {tm} : FiresBefore(tm, u)
                          /\ fired' \cup current' \subseteq fired \cup current \cup {tm}
  BY DEF Fire, calling
<1>2. current = {} /\ tm.at <= now /\ \A u \in timers : u.born = pass \/ tm.at < u.at
  BY DEF Fire, IInv, InHand, Ahead
<1>3. \A u \in Pending : u.at \in Nat
  BY DEF IInv, Types, Pending, Timer
<1>4. ASSUME NEW u \in Pending, u.at < tm.at PROVE u.born = pass
  <2>1. CASE u \in batch
    <3>1. u = tm \/ tm.at <= u.at
      BY <1>1, <2>1, <1>3 DEF FiresBefore, Pending
    <3>2. tm.at \in Nat /\ u.at \in Nat
      BY <1>3 DEF Pending
    <3>3. QED
      BY <1>4, <3>1, <3>2
  <2>2. CASE u \in timers
    <3>1. tm.at \in Nat /\ u.at \in Nat
      BY <1>3 DEF Pending
    <3>2. QED
      BY <1>2, <1>4, <2>2, <3>1
  <2>3. QED
    BY <1>2, <2>1, <2>2 DEF Pending
<1>5. QED
  BY <1>1, <1>2, <1>4 DEF Order

(* A timer is never called back before one with an earlier deadline that   *)
(* was in the store when checkTimers collected it.                         *)
THEOREM InOrder == Spec => FiresInOrder
<1>1. IInv /\ [Next]_vars => [Order]_vars
  <2> SUFFICES ASSUME IInv, Next PROVE Order
    BY DEF Order
  <2>1. CASE Fire
    BY <2>1, FireOrder
  <2>2. CASE Tick \/ Collect
    BY <2>2 DEF Tick, Collect, checking, Order
  <2>3. ASSUME NEW t \in Callers, Insert(t) PROVE Order
    BY <2>3 DEF Insert, Order
  <2>4. ASSUME NEW t \in Callers, ReadId(t) \/ WriteId(t) PROVE Order
    BY <2>4 DEF ReadId, WriteId, checking, Order
  <2>5. ASSUME NEW t \in Callers, NEW d \in Delays, NEW isPeriodic \in BOOLEAN,
               AddTimer(t, d, isPeriodic)
        PROVE  Order
    BY <2>5 DEF AddTimer, checking, Order
  <2>6. ASSUME NEW t \in Callers, NEW id \in DOMAIN timerIds, StopTimer(t, id) PROVE Order
    BY <2>6 DEF StopTimer, checking, Order
  <2>7. QED
    BY <2>1, <2>2, <2>3, <2>4, <2>5, <2>6 DEF Next, Adding
<1>2. QED
  BY <1>1, Inductive, PTL DEF Spec, FiresInOrder, Order

-----------------------------------------------------------------------------
(* The chain of a periodic timer: its deadlines so far, one interval       *)
(* apart, and the last of them is the one not called back yet.             *)
Uncalled == timers \cup batch \cup current \cup stopped

ChainOf(first, n, last) ==
  LET chain == Series(first.node)
  IN  /\ IsFiniteSet(chain) /\ Cardinality(chain) = n + 1
      /\ {tm.at : tm \in chain} = {first.at + k * first.interval : k \in 0..n}
      /\ last.at = first.at + n * first.interval
      /\ chain \cap Uncalled = {last}
      /\ \A tm \in chain : tm.interval = first.interval

Firsts == {tm \in Known : tm.interval # 0 /\ tm.series = tm.node}

Chains ==
  /\ \A tm \in Known : tm.series \in 1..tm.node
  /\ \A first \in Firsts : \E n \in Nat : \E last \in Series(first.node) :
       ChainOf(first, n, last)

(* It is what PeriodicChain says.                                          *)
LEMMA ChainsGive == IInv /\ Chains => PeriodicChain
<1> SUFFICES ASSUME Chains, NEW first \in Firsts
             PROVE  LET chain == Series(first.node)
                        ends == chain \cap Uncalled
                    IN  /\ {tm.at : tm \in chain}
                             = {first.at + k * first.interval : k \in 0..(Cardinality(chain) - 1)}
                        /\ Cardinality(ends) = 1
  BY DEF PeriodicChain, Firsts, Uncalled
<1>1. PICK n \in Nat, last \in Series(first.node) : ChainOf(first, n, last)
  BY DEF Chains
<1>2. Cardinality(Series(first.node)) - 1 = n
  BY <1>1 DEF ChainOf
<1>3. Cardinality({last}) = 1
  BY FS_Singleton
<1>4. QED
  BY <1>1, <1>2, <1>3 DEF ChainOf

(* A step that keeps the timers, and of those not called back all that are *)
(* periodic.                                                               *)
LEMMA SameChains ==
  ASSUME Chains, UNCHANGED Known,
         \A tm \in Known : tm.interval # 0 => (tm \in Uncalled <=> tm \in Uncalled')
  PROVE  Chains'
<1>1. \A s : Series(s)' = Series(s)
  BY DEF Series
<1>2. Firsts' = Firsts
  BY DEF Firsts
<1>3. ASSUME NEW first \in Firsts, NEW n \in Nat, NEW last \in Series(first.node),
             ChainOf(first, n, last)
      PROVE  ChainOf(first, n, last)'
  <2>1. Series(first.node)' = Series(first.node)
    BY <1>1
  <2>2. \A tm \in Series(first.node) : tm \in Known /\ tm.interval # 0
    BY <1>3 DEF ChainOf, Firsts, Series
  <2>3. Series(first.node) \cap Uncalled' = Series(first.node) \cap Uncalled
    BY <2>2
  <2>4. QED
    BY <1>3, <2>1, <2>3 DEF ChainOf
<1>4. QED
  BY <1>1, <1>2, <1>3 DEF Chains

(* A timer that is new begins a chain of its own, and leaves the others.   *)
LEMMA BeginsChain ==
  ASSUME IInv, Chains, NEW tm \in Timer, tm.node = nextNode, tm.series = nextNode,
         Known' = Known \cup {tm}, Uncalled' = Uncalled \cup {tm}
  PROVE  Chains'
<1>1. \A u \in Known : u.series \in 1..u.node /\ u.node \in 1..(nextNode - 1)
  BY DEF Chains, IInv, AccountedOnce
<1>2. nextNode \in Nat \ {0}
  BY DEF IInv, Types
<1>3. \A u \in Known : u.series # nextNode /\ u.node # nextNode
  BY <1>1, <1>2
<1>4. \A u \in Known' : u.series \in 1..u.node
  BY <1>1, <1>2
<1>5. ASSUME NEW first \in Firsts', first \in Known
      PROVE  \E n \in Nat : \E last \in Series(first.node)' : ChainOf(first, n, last)'
  <2>1. Series(first.node)' = Series(first.node)
    BY <1>3, <1>5 DEF Series
  <2>2. tm \notin Series(first.node)
    BY <1>3, <1>5 DEF Series
  <2>3. PICK n \in Nat, last \in Series(first.node) : ChainOf(first, n, last)
    BY <1>5 DEF Chains, Firsts
  <2>4. ChainOf(first, n, last)'
    BY <2>1, <2>2, <2>3 DEF ChainOf
  <2>5. QED
    BY <2>1, <2>4
<1>6. ASSUME tm \in Firsts'
      PROVE  \E n \in Nat : \E last \in Series(tm.node)' : ChainOf(tm, n, last)'
  <2>1. Series(tm.node)' = {tm}
    BY <1>3 DEF Series
  <2>2. IsFiniteSet({tm}) /\ Cardinality({tm}) = 0 + 1
    <3>1. IsFiniteSet({tm}) /\ Cardinality({tm}) = 1
      BY FS_Singleton, Zenon
    <3>2. QED
      BY <3>1
  <2>3. tm.at \in Nat /\ tm.interval \in Nat
    BY DEF Timer
  <2>4. {tm.at + k * tm.interval : k \in 0..0} = {tm.at} /\ tm.at = tm.at + 0 * tm.interval
    BY <2>3
  <2>5. ChainOf(tm, 0, tm)'
    BY <2>1, <2>2, <2>4 DEF ChainOf
  <2>6. QED
    BY <2>1, <2>5
<1>7. \A first \in Firsts' : first \in Known \/ first = tm
  BY DEF Firsts
<1>8. QED
  BY <1>4, <1>5, <1>6, <1>7 DEF Chains

(* One more interval.                                                      *)
LEMMA OneMore ==
  ASSUME NEW a \in Nat, NEW i \in Nat, NEW n \in Nat
  PROVE  (a + n * i) + i = a + (n + 1) * i
<1>1. (n + 1) * i = n * i + i
  OBVIOUS
<1>2. QED
  BY <1>1

(* A timer that continues another takes its place at the end of the chain. *)
LEMMA ContinuesChain ==
  ASSUME IInv, Chains, NEW tm \in Timer, NEW old \in Known,
         tm.node = nextNode, tm.series = old.series, tm.interval = old.interval,
         old.interval # 0, tm.at = old.at + old.interval,
         old \in Uncalled, Known' = Known \cup {tm},
         Uncalled' = (Uncalled \ {old}) \cup {tm}
  PROVE  Chains'
<1>1. \A u \in Known : u.series \in 1..u.node /\ u.node \in 1..(nextNode - 1)
  BY DEF Chains, IInv, AccountedOnce
<1>2. nextNode \in Nat \ {0}
  BY DEF IInv, Types
<1>3. tm \notin Known /\ old.series \in 1..(nextNode - 1) /\ tm.series # tm.node
  BY <1>1, <1>2
<1>4. \A u \in Known' : u.series \in 1..u.node
  BY <1>1, <1>2, <1>3
<1>5. Firsts' = Firsts
  BY <1>3 DEF Firsts
<1>6. ASSUME NEW first \in Firsts, first.node # old.series
      PROVE  \E n \in Nat : \E last \in Series(first.node)' : ChainOf(first, n, last)'
  <2>1. Series(first.node)' = Series(first.node)
    BY <1>6 DEF Series
  <2>2. tm \notin Series(first.node) /\ old \notin Series(first.node)
    BY <1>6 DEF Series
  <2>3. PICK n \in Nat, last \in Series(first.node) : ChainOf(first, n, last)
    BY DEF Chains
  <2>4. ChainOf(first, n, last)'
    BY <2>1, <2>2, <2>3 DEF ChainOf
  <2>5. QED
    BY <2>1, <2>4
<1>7. ASSUME NEW first \in Firsts, first.node = old.series
      PROVE  \E n \in Nat : \E last \in Series(first.node)' : ChainOf(first, n, last)'
  <2> DEFINE chain == Series(first.node)
  <2>1. chain' = chain \cup {tm} /\ tm \notin chain /\ old \in chain
    BY <1>3, <1>7 DEF Series
  <2>2. PICK n \in Nat, last \in chain : ChainOf(first, n, last)
    BY DEF Chains
  <2>3. last = old /\ chain \cap Uncalled = {old}
    BY <2>1, <2>2 DEF ChainOf
  <2>4. first \in Timer
    BY DEF Firsts, IInv, Types, Known, Pending
  <2>5. first.at \in Nat /\ first.interval \in Nat /\ tm.interval = first.interval
    BY <2>1, <2>2, <2>4 DEF ChainOf, Timer
  <2>6. tm.at = first.at + (n + 1) * first.interval
    <3>1. tm.at = (first.at + n * first.interval) + first.interval
      BY <2>2, <2>3, <2>5 DEF ChainOf
    <3>2. QED
      BY <2>5, <3>1, OneMore
  <2>7. IsFiniteSet(chain') /\ Cardinality(chain') = (n + 1) + 1
    BY <2>1, <2>2, FS_AddElement DEF ChainOf
  <2>8. {u.at : u \in chain'} = {first.at + k * first.interval : k \in 0..(n + 1)}
    <3>1. {u.at : u \in chain'} = {u.at : u \in chain} \cup {tm.at}
      BY <2>1
    <3>2. 0..(n + 1) = (0..n) \cup {n + 1}
      OBVIOUS
    <3>3. {first.at + k * first.interval : k \in 0..(n + 1)}
            = {first.at + k * first.interval : k \in 0..n}
                \cup {first.at + (n + 1) * first.interval}
      BY <3>2, Zenon
    <3>4. QED
      BY <2>2, <2>6, <3>1, <3>3, Zenon DEF ChainOf
  <2>9. chain' \cap Uncalled' = {tm}
    BY <2>1, <2>3
  <2>10. \A u \in chain' : u.interval = first.interval
    BY <2>1, <2>2, <2>5 DEF ChainOf
  <2>11. ChainOf(first, n + 1, tm)'
    BY <2>6, <2>7, <2>8, <2>9, <2>10 DEF ChainOf
  <2>12. QED
    BY <2>1, <2>11
<1>8. QED
  BY <1>4, <1>5, <1>6, <1>7 DEF Chains

(* The insertion of a timer: a new one, or the next of the one fired.      *)
LEMMA InsertChains ==
  ASSUME IInv, Chains, NEW t \in Callers, Insert(t)
  PROVE  Chains'
<1>1. /\ Known' = Known \cup {New(t)} /\ timers' = timers \cup {New(t)}
  BY InsertInv
<1>2. /\ New(t) \in Timer /\ New(t).node = nextNode
      /\ New(t).at = adding[t].at /\ New(t).interval = adding[t].interval
      /\ New(t).series = IF adding[t].series = 0 THEN nextNode ELSE adding[t].series
  BY NewTimer DEF IInv
<1>3. /\ pc[t] # "idle" /\ UNCHANGED <<batch, stopped>>
      /\ IF t = Main THEN current' = {} /\ fired' = fired \cup current
                     ELSE UNCHANGED <<current, fired>>
  BY DEF Insert
<1>4. CASE t # Main \/ current = {}
  <2>1. adding[t].series = 0
    BY <1>3, <1>4 DEF IInv, InHand, Callers
  <2>2. Uncalled' = Uncalled \cup {New(t)}
    BY <1>1, <1>3, <1>4 DEF Uncalled
  <2>3. QED
    BY <1>1, <1>2, <2>1, <2>2, BeginsChain
<1>5. CASE t = Main /\ current # {}
  <2>1. PICK old \in current : Continues(old)
    BY <1>3, <1>5 DEF IInv, InHand
  <2>2. old \in Known /\ old \in Uncalled
    BY DEF Known, Pending, Uncalled
  <2>3. old.series # 0
    BY <2>2 DEF Chains
  <2>4. Uncalled' = (Uncalled \ {old}) \cup {New(t)}
    <3>1. old \notin timers /\ old \notin batch /\ old \notin stopped /\ current = {old}
      BY <2>1 DEF IInv, AccountedOnce, Continues
    <3>2. QED
      BY <1>1, <1>3, <1>5, <3>1 DEF Uncalled
  <2>5. QED
    BY <1>1, <1>2, <1>5, <2>1, <2>2, <2>3, <2>4, ContinuesChain DEF Continues
<1>6. QED
  BY <1>4, <1>5

(* Any other step leaves the chains alone; a timer that is not periodic    *)
(* has none.                                                               *)
LEMMA ChainsStep == IInv /\ Chains /\ [Next]_vars => Chains'
<1> SUFFICES ASSUME IInv, Chains, [Next]_vars PROVE Chains'
  OBVIOUS
<1>1. CASE Tick \/ UNCHANGED vars
  BY <1>1, SameChains
  DEF Tick, vars, store, checking, calling, Known, Pending, Uncalled
<1>2. CASE Collect
  BY <1>2, SameChains DEF Collect, Expired, Known, Pending, Uncalled
<1>3. CASE Fire
  <2>1. PICK tm \in batch :
          /\ batch' = batch \ {tm}
          /\ IF tm.interval = 0
               THEN fired' = fired \cup {tm} /\ current' = current
               ELSE current' = {tm} /\ fired' = fired
    BY <1>3 DEF Fire, calling
  <2>2. current = {} /\ UNCHANGED <<timers, stopped>>
    BY <1>3 DEF Fire, IInv, InHand, store
  <2>3. UNCHANGED Known
    BY <2>1, <2>2 DEF Known, Pending
  <2>4. \A u \in Known : u.interval # 0 => (u \in Uncalled <=> u \in Uncalled')
    BY <2>1, <2>2 DEF Uncalled
  <2>5. QED
    BY <2>3, <2>4, SameChains
<1>4. ASSUME NEW t \in Callers, Insert(t) PROVE Chains'
  BY <1>4, InsertChains
<1>5. ASSUME NEW t \in Callers, ReadId(t) \/ WriteId(t) PROVE Chains'
  BY <1>5, SameChains DEF ReadId, WriteId, store, checking, Known, Pending, Uncalled
<1>6. ASSUME NEW t \in Callers, NEW d \in Delays, NEW isPeriodic \in BOOLEAN,
             AddTimer(t, d, isPeriodic)
      PROVE  Chains'
  BY <1>6, SameChains DEF AddTimer, store, checking, Known, Pending, Uncalled
<1>7. ASSUME NEW t \in Callers, NEW id \in DOMAIN timerIds, StopTimer(t, id) PROVE Chains'
  BY <1>7, SameChains DEF StopTimer, checking, Known, Pending, Uncalled
<1>8. QED
  BY <1>1, <1>2, <1>3, <1>4, <1>5, <1>6, <1>7 DEF Next, Adding

(* A periodic timer keeps its pace, and until it is stopped exactly one of *)
(* its deadlines is ahead.                                                 *)
THEOREM KeepsPace == Spec => []PeriodicChain
<1>1. Init => Chains
  BY DEF Init, Chains, Firsts, Known, Pending
<1>2. IInv /\ Chains /\ [Next]_vars => Chains'
  BY ChainsStep
<1>3. Spec => []Chains
  BY <1>1, <1>2, Inductive, PTL DEF Spec
<1>4. IInv /\ Chains => PeriodicChain
  BY ChainsGive
<1>5. QED
  BY <1>3, <1>4, Inductive, PTL

=============================================================================
