------------------------------- MODULE Timers -------------------------------
(***************************************************************************)
(* TimersManager (timers.h, timers.cpp): a multimap of timers ordered by   *)
(* deadline, an index from timer ids into it, a counter of ids.  Any       *)
(* thread adds and stops timers; the main thread alone runs checkTimers.   *)
(*                                                                         *)
(* The counter is advanced outside the mutex (line 57), so the read and    *)
(* the write of nextId++ are steps of their own, as is the insertion.  A   *)
(* timer is told from another by its node, the multimap's own entry; its   *)
(* id may not be unique.                                                   *)
(***************************************************************************)
EXTENDS Integers, FiniteSets, Functions

CONSTANTS
  Main,      \* the thread that runs checkTimers
  Others,    \* the threads that may add and stop timers besides
  Delays,    \* the delays a caller may ask for
  MaxAdds,   \* bound: calls of addTimer, those of checkTimers not counted
  MaxTime    \* bound: the clock stops here

ASSUME TimerThreads == Main \notin Others
ASSUME TimerDelays == Delays \subseteq Nat \ {0}
ASSUME TimerBounds == MaxAdds \in Nat /\ MaxTime \in Nat

Callers == {Main} \cup Others

VARIABLES
  now,       \* the steady clock
  nextId,    \* TimersManager::nextId
  nextNode,  \* the next multimap entry
  timers,    \* the multimap
  timerIds,  \* the index: from ids to nodes
  batch,     \* timersToExecute, what is left of it; it is in the multimap's order
  current,   \* the periodic timer being added again, before its callback
  pass,      \* how many times checkTimers has collected something
  pc,        \* where each thread is in addTimer
  adding,    \* the timer each thread is adding
  calls,     \* calls of addTimer made
  fired,     \* timers whose callback was called
  stopped    \* timers stopTimer removed

store == <<nextNode, timers, timerIds>>
checking == <<batch, current, pass, fired>>
calling == <<pc, adding>>
vars == <<now, nextId, store, checking, calling, calls, stopped>>

-----------------------------------------------------------------------------
FirstIdZero == 0  \* the id by which clients say "no timer"
FirstId == 1

(* A timer; interval 0 stands for one that is not periodic.  series is the *)
(* node of the timer that a periodic timer continues, born the pass it was *)
(* inserted after.                                                         *)
NoTimer == [node |-> 0, id |-> 0, at |-> 0, interval |-> 0, series |-> 0, born |-> 0]
Timer ==
  [node : Nat, id : Nat, at : Nat, interval : Nat, series : Nat, born : Nat]

Pending == timers \cup batch \cup current
Known == Pending \cup fired \cup stopped

FiresBeforeByInsertion(tm, u) == tm.node < u.node  \* deadlines not compared

(* The multimap's order: by deadline, then by insertion.                   *)
FiresBefore(tm, u) == tm.at < u.at \/ (tm.at = u.at /\ tm.node < u.node)

-----------------------------------------------------------------------------
(* addTimer, on any thread.                                                *)
StartAdd(t, timer) ==
  /\ pc' = [pc EXCEPT ![t] = "readId"]
  /\ adding' = [adding EXCEPT ![t] = timer]

AddTimer(t, delay, isPeriodic) ==
  /\ pc[t] = "idle"
  /\ calls < MaxAdds
  /\ calls' = calls + 1
  /\ StartAdd(t, [NoTimer EXCEPT !.at = now + delay,
                                 !.interval = IF isPeriodic THEN delay ELSE 0])
  /\ UNCHANGED <<now, nextId, store, checking, stopped>>

ReadId(t) ==
  /\ pc[t] = "readId"
  /\ pc' = [pc EXCEPT ![t] = "writeId"]
  /\ adding' = [adding EXCEPT ![t].id = nextId]
  /\ UNCHANGED <<now, nextId, store, checking, calls, stopped>>

WriteId(t) ==
  /\ pc[t] = "writeId"
  /\ pc' = [pc EXCEPT ![t] = "insert"]
  /\ nextId' = adding[t].id + 1
  /\ UNCHANGED <<now, store, checking, adding, calls, stopped>>

(* Both structures in one hold of timerMutex.  The main thread, if it came *)
(* from checkTimers, calls the callback of the timer it added again.       *)
Insert(t) ==
  LET tm == [adding[t] EXCEPT
               !.node = nextNode,
               !.series = IF adding[t].series = 0 THEN nextNode ELSE @,
               !.born = pass]
  IN  /\ pc[t] = "insert"
      /\ nextNode' = nextNode + 1
      /\ timers' = timers \cup {tm}
      /\ timerIds' = [i \in DOMAIN timerIds \cup {tm.id} |->
                        IF i = tm.id THEN tm.node ELSE timerIds[i]]
      /\ pc' = [pc EXCEPT ![t] = "idle"]
      /\ adding' = [adding EXCEPT ![t] = NoTimer]
      /\ IF t = Main
           THEN current' = {} /\ fired' = fired \cup current
           ELSE UNCHANGED <<current, fired>>
      /\ UNCHANGED <<now, nextId, batch, pass, calls, stopped>>

-----------------------------------------------------------------------------
StopTimerKeepsTimer(t, id) ==  \* the timer is erased from the index only
  /\ pc[t] = "idle"
  /\ id \in DOMAIN timerIds
  /\ timerIds' = [i \in DOMAIN timerIds \ {id} |-> timerIds[i]]
  /\ stopped' = stopped \cup {tm \in timers : tm.node = timerIds[id]}
  /\ UNCHANGED <<now, nextId, nextNode, timers, checking, calling, calls>>

(* stopTimer of an id the index knows; of another it does nothing.         *)
StopTimer(t, id) ==
  /\ pc[t] = "idle"
  /\ id \in DOMAIN timerIds
  /\ timerIds' = [i \in DOMAIN timerIds \ {id} |-> timerIds[i]]
  /\ timers' = {tm \in timers : tm.node # timerIds[id]}
  /\ stopped' = stopped \cup {tm \in timers : tm.node = timerIds[id]}
  /\ UNCHANGED <<now, nextId, nextNode, checking, calling, calls>>

-----------------------------------------------------------------------------
(* checkTimers.                                                            *)
Expired == {tm \in timers : tm.at <= now}

CollectKeepsIds ==  \* the ids of expired timers stay in the index
  /\ pc[Main] = "idle"
  /\ batch = {}
  /\ Expired # {}
  /\ batch' = Expired
  /\ timers' = timers \ Expired
  /\ pass' = pass + 1
  /\ UNCHANGED <<now, nextId, nextNode, timerIds, current, fired, calling, calls, stopped>>

(* First phase, under the mutex.  Each expired timer takes its id out of   *)
(* the index, whichever timer the index holds under it.                    *)
Collect ==
  /\ pc[Main] = "idle"
  /\ batch = {}
  /\ Expired # {}
  /\ batch' = Expired
  /\ timers' = timers \ Expired
  /\ timerIds' = [i \in DOMAIN timerIds \ {tm.id : tm \in Expired} |-> timerIds[i]]
  /\ pass' = pass + 1
  /\ UNCHANGED <<now, nextId, nextNode, current, fired, calling, calls, stopped>>

FireDropsRest ==  \* the loop is left after the first callback
  /\ pc[Main] = "idle"
  /\ \E tm \in batch :
       /\ \A u \in batch \ {tm} : FiresBefore(tm, u)
       /\ batch' = {}
       /\ IF tm.interval = 0
            THEN fired' = fired \cup {tm} /\ UNCHANGED <<current, calling>>
            ELSE /\ current' = {tm}
                 /\ StartAdd(Main, [tm EXCEPT !.at = tm.at + tm.interval])
                 /\ UNCHANGED fired
  /\ UNCHANGED <<now, nextId, store, pass, calls, stopped>>

FireDrifts ==  \* the next deadline is counted from now
  /\ pc[Main] = "idle"
  /\ \E tm \in batch :
       /\ \A u \in batch \ {tm} : FiresBefore(tm, u)
       /\ batch' = batch \ {tm}
       /\ IF tm.interval = 0
            THEN fired' = fired \cup {tm} /\ UNCHANGED <<current, calling>>
            ELSE /\ current' = {tm}
                 /\ StartAdd(Main, [tm EXCEPT !.at = now + tm.interval])
                 /\ UNCHANGED fired
  /\ UNCHANGED <<now, nextId, store, pass, calls, stopped>>

(* Second phase, without the mutex: the next timer's callback, after the   *)
(* timer was added again if it is periodic.                                *)
Fire ==
  /\ pc[Main] = "idle"
  /\ \E tm \in batch :
       /\ \A u \in batch \ {tm} : FiresBefore(tm, u)
       /\ batch' = batch \ {tm}
       /\ IF tm.interval = 0
            THEN fired' = fired \cup {tm} /\ UNCHANGED <<current, calling>>
            ELSE /\ current' = {tm}
                 /\ StartAdd(Main, [tm EXCEPT !.at = tm.at + tm.interval])
                 /\ UNCHANGED fired
  /\ UNCHANGED <<now, nextId, store, pass, calls, stopped>>

Tick ==
  /\ now < MaxTime
  /\ now' = now + 1
  /\ UNCHANGED <<nextId, store, checking, calling, calls, stopped>>

-----------------------------------------------------------------------------
Init ==
  /\ now = 0
  /\ nextId = FirstId
  /\ nextNode = 1
  /\ timers = {}
  /\ timerIds = [i \in {} |-> 0]
  /\ batch = {}
  /\ current = {}
  /\ pass = 0
  /\ pc = [t \in Callers |-> "idle"]
  /\ adding = [t \in Callers |-> NoTimer]
  /\ calls = 0
  /\ fired = {}
  /\ stopped = {}

Adding(t) == ReadId(t) \/ WriteId(t) \/ Insert(t)

Next ==
  \/ Tick
  \/ Collect
  \/ Fire
  \/ \E t \in Callers :
       \/ \E d \in Delays, isPeriodic \in BOOLEAN : AddTimer(t, d, isPeriodic)
       \/ Adding(t)
       \/ \E id \in DOMAIN timerIds : StopTimer(t, id)

Spec == Init /\ [][Next]_vars

(* The main loop never stops calling checkTimers, and every call ends.     *)
Fairness ==
  /\ WF_vars(Tick)
  /\ WF_vars(Collect)
  /\ WF_vars(Fire)
  /\ \A t \in Callers : WF_vars(Adding(t))

FairSpec == Spec /\ Fairness

-----------------------------------------------------------------------------
TypeOK ==
  /\ now \in Nat
  /\ nextId \in Nat \ {0}
  /\ nextNode \in Nat \ {0}
  /\ timers \subseteq Timer
  /\ DOMAIN timerIds \subseteq Nat /\ Range(timerIds) \subseteq Nat
  /\ batch \subseteq Timer
  /\ current \subseteq Timer /\ Cardinality(current) <= 1
  /\ pass \in Nat
  /\ pc \in [Callers -> {"idle", "readId", "writeId", "insert"}]
  /\ adding \in [Callers -> Timer]
  /\ calls \in 0..MaxAdds
  /\ fired \subseteq Timer
  /\ stopped \subseteq Timer

(* Every iterator in timerIds is valid and leads to a timer of that id,    *)
(* even when the race on nextId has given two timers the same id: stopTimer*)
(* never erases through a dangling iterator (lines 67-69, 79, 95-96).      *)
IndexSound ==
  \A id \in DOMAIN timerIds :
    \E tm \in timers : tm.node = timerIds[id] /\ tm.id = id

(* An inserted timer is at any time in exactly one place: waiting, about   *)
(* to fire, fired or stopped.  None is lost, none fires twice, none fires  *)
(* after it was stopped, whatever ids the race hands out.                  *)
AccountedOnce ==
  /\ {tm.node : tm \in Known} = 1..(nextNode - 1)
  /\ \A tm, u \in Known : tm.node = u.node => tm = u
  /\ timers \cap (batch \cup current \cup fired \cup stopped) = {}
  /\ batch \cap (current \cup fired \cup stopped) = {}
  /\ current \cap (fired \cup stopped) = {}
  /\ fired \cap stopped = {}

(* A periodic timer is added again before its callback, from the deadline  *)
(* it had: its deadlines are one interval apart, none left out however     *)
(* late the main thread is, and until it is stopped exactly one of them is *)
(* ahead (lines 109-113).                                                  *)
Series(s) == {tm \in Known : tm.series = s}
PeriodicChain ==
  \A first \in {tm \in Known : tm.interval # 0 /\ tm.series = tm.node} :
    LET chain == Series(first.node)
        ends == chain \cap (timers \cup batch \cup current \cup stopped)
    IN  /\ {tm.at : tm \in chain}
             = {first.at + k * first.interval : k \in 0..(Cardinality(chain) - 1)}
        /\ Cardinality(ends) = 1

(* A timer is never called back before one with an earlier deadline that   *)
(* was in the store when checkTimers collected it.                         *)
FiresInOrder ==
  [][\A tm \in (fired' \cup current') \ (fired \cup current) :
       /\ tm.at <= now
       /\ \A u \in Pending : u.at < tm.at => u.born = pass]_vars

(* Every timer that comes due within the bound of the clock is called back *)
(* or stopped.                                                             *)
Nodes == 1..(MaxAdds * (MaxTime + 1))
DueFires ==
  \A n \in Nodes :
    (\E tm \in timers : tm.node = n /\ tm.at <= MaxTime)
      ~> (\E tm \in fired \cup stopped : tm.node = n)

(* "Thread-safe timer management: addTimer: Can be called from any thread" *)
(* (timers.h:75-76): no two pending timers have the same id, by which      *)
(* stopTimer finds them.                                                   *)
IdsUnique == \A tm, u \in Pending : tm.id = u.id => tm = u
=============================================================================
