----------------------------- MODULE EventLoop -----------------------------
(***************************************************************************)
(* EventLoop (event_loop.h, event_loop.cpp): a queue, a mutex, a condition *)
(* variable and an atomic flag.  Posters push events and notify; the       *)
(* thread that start() creates pops them and runs their callbacks; the     *)
(* owner starts and stops the loop, and stop() joins the thread.           *)
(*                                                                         *)
(* m_running is written without the mutex, so the evaluation of the wait's *)
(* predicate and the going to sleep are two steps, and so are the test of  *)
(* the flag after the wait and the pop: all inside the mutex, which keeps  *)
(* the posters out but not stop().                                         *)
(***************************************************************************)
EXTENDS Naturals, Sequences

CONSTANTS
  Posters,    \* the threads that post events
  MaxPosts,   \* bound: calls of postEvent
  MaxStarts   \* bound: threads started

ASSUME LoopBounds == MaxPosts \in Nat /\ MaxStarts \in Nat

VARIABLES
  running,    \* m_running
  queue,      \* m_eventQueue
  locked,     \* the loop thread holds m_queueMutex between two steps
  loop,       \* where the thread is in processEvents, "none" when there is none
  event,      \* the event in the thread's hand, 0 for none
  owner,      \* where the owner is in stop()
  notifying,  \* the posters between their push and their notify_one
  posts,      \* events posted
  starts,     \* threads started
  handled,    \* callbacks completed
  late        \* those of them completed since stop() cleared the flag

thread == <<locked, loop, event, handled, late>>
outside == <<owner, notifying, posts, starts>>
vars == <<running, queue, thread, outside>>

-----------------------------------------------------------------------------
(* notify_one: wakes the thread if it sleeps now, and is lost otherwise.   *)
Notify == loop' = IF loop = "asleep" THEN "woken" ELSE loop

Push == /\ posts < MaxPosts
        /\ ~locked
        /\ posts' = posts + 1
        /\ queue' = Append(queue, posts + 1)

(* postEvent: the push under the mutex, the notification after it.         *)
Post(p) ==
  /\ p \notin notifying
  /\ Push
  /\ notifying' = notifying \cup {p}
  /\ UNCHANGED <<running, thread, owner, starts>>

NotifyPosted(p) ==
  /\ p \in notifying
  /\ notifying' = notifying \ {p}
  /\ Notify
  /\ UNCHANGED <<running, queue, locked, event, handled, late, owner, posts, starts>>

(* An event's callback may post too; nobody sleeps to hear of it.          *)
PostFromCallback ==
  /\ loop = "callback"
  /\ Push
  /\ UNCHANGED <<running, thread, owner, notifying, starts>>

-----------------------------------------------------------------------------
(* start(), by the owner.  A loop that runs is left alone.                 *)
Start ==
  /\ owner = "idle"
  /\ ~running
  /\ starts < MaxStarts
  /\ running' = TRUE
  /\ loop' = "while"
  /\ starts' = starts + 1
  /\ UNCHANGED <<queue, locked, event, handled, late, owner, notifying, posts>>

(* stop(), by the owner, and ~EventLoop: the flag, the notification, the   *)
(* join of a thread that is joinable.                                      *)
StopFlag ==
  /\ owner = "idle"
  /\ running
  /\ running' = FALSE
  /\ owner' = "notify"
  /\ late' = 0
  /\ UNCHANGED <<queue, locked, loop, event, handled, notifying, posts, starts>>

StopNotifyNoJoin ==  \* the thread is left to itself
  /\ owner = "notify"
  /\ Notify
  /\ owner' = "idle"
  /\ UNCHANGED <<running, queue, locked, event, handled, late, notifying, posts, starts>>

StopNotify ==
  /\ owner = "notify"
  /\ Notify
  /\ owner' = "join"
  /\ UNCHANGED <<running, queue, locked, event, handled, late, notifying, posts, starts>>

StopJoin ==
  /\ owner = "join"
  /\ loop = "ended"
  /\ loop' = "none"
  /\ owner' = "idle"
  /\ UNCHANGED <<running, queue, locked, event, handled, late, notifying, posts, starts>>

-----------------------------------------------------------------------------
(* processEvents, on the loop's thread.                                    *)
WhileRunning ==
  /\ loop = "while"
  /\ loop' = IF running THEN "lock" ELSE "ended"
  /\ UNCHANGED <<running, queue, locked, event, handled, late, outside>>

Lock ==
  /\ loop \in {"lock", "woken"}
  /\ locked' = TRUE
  /\ loop' = "predicate"
  /\ UNCHANGED <<running, queue, event, handled, late, outside>>

Predicate ==
  /\ loop = "predicate"
  /\ loop' = IF ~running \/ queue # <<>> THEN "test" ELSE "falling asleep"
  /\ UNCHANGED <<running, queue, locked, event, handled, late, outside>>

FallAsleep ==
  /\ loop = "falling asleep"
  /\ locked' = FALSE
  /\ loop' = "asleep"
  /\ UNCHANGED <<running, queue, event, handled, late, outside>>

(* A condition variable may wake a thread that nobody notified.            *)
WakeSpuriously ==
  /\ loop = "asleep"
  /\ loop' = "woken"
  /\ UNCHANGED <<running, queue, locked, event, handled, late, outside>>

(* Line 48.  The flag is not the mutex's: it may be cleared after the test *)
(* and before the pop.                                                     *)
Test ==
  /\ loop = "test"
  /\ IF running THEN loop' = "pop" /\ UNCHANGED locked
                ELSE loop' = "ended" /\ locked' = FALSE
  /\ UNCHANGED <<running, queue, event, handled, late, outside>>

PopKeepsLock ==  \* lock.unlock() forgotten
  /\ loop = "pop"
  /\ event' = Head(queue)
  /\ queue' = Tail(queue)
  /\ loop' = "callback"
  /\ UNCHANGED <<running, locked, handled, late, outside>>

PopFrontOnly ==  \* front() without pop()
  /\ loop = "pop"
  /\ locked' = FALSE
  /\ event' = Head(queue)
  /\ loop' = "callback"
  /\ UNCHANGED <<running, queue, handled, late, outside>>

Pop ==
  /\ loop = "pop"
  /\ locked' = FALSE
  /\ event' = Head(queue)
  /\ queue' = Tail(queue)
  /\ loop' = "callback"
  /\ UNCHANGED <<running, handled, late, outside>>

RunCallbackDrains ==  \* the thread goes on while there are events
  /\ loop = "callback"
  /\ handled' = handled + 1
  /\ late' = IF running THEN late ELSE late + 1
  /\ event' = 0
  /\ loop' = IF queue # <<>> THEN "pop" ELSE "while"
  /\ locked' = (queue # <<>>)
  /\ UNCHANGED <<running, queue, outside>>

(* The callback, whether it returns or throws an std::exception.           *)
RunCallback ==
  /\ loop = "callback"
  /\ handled' = handled + 1
  /\ late' = IF running THEN late ELSE late + 1
  /\ event' = 0
  /\ loop' = "while"
  /\ UNCHANGED <<running, queue, locked, outside>>

ProcessEvents ==
  \/ WhileRunning
  \/ Lock
  \/ Predicate
  \/ FallAsleep
  \/ Test
  \/ Pop
  \/ RunCallback

-----------------------------------------------------------------------------
Init ==
  /\ running = FALSE
  /\ queue = <<>>
  /\ locked = FALSE
  /\ loop = "none"
  /\ event = 0
  /\ owner = "idle"
  /\ notifying = {}
  /\ posts = 0
  /\ starts = 0
  /\ handled = 0
  /\ late = 0

Stop == StopFlag \/ StopNotify \/ StopJoin

Next ==
  \/ \E p \in Posters : Post(p) \/ NotifyPosted(p)
  \/ PostFromCallback
  \/ Start
  \/ Stop
  \/ ProcessEvents
  \/ WakeSpuriously

Spec == Init /\ [][Next]_vars

(* Threads run; callbacks end.  Nobody has to post, to start or to stop,   *)
(* and no spurious wake-up can be counted on.                              *)
Fairness ==
  /\ WF_vars(ProcessEvents)
  /\ \A p \in Posters : WF_vars(NotifyPosted(p))
  /\ WF_vars(StopNotify) /\ WF_vars(StopJoin)

FairSpec == Spec /\ Fairness

-----------------------------------------------------------------------------
TypeOK ==
  /\ running \in BOOLEAN
  /\ queue \in Seq(1..MaxPosts)
  /\ locked \in BOOLEAN
  /\ locked <=> loop \in {"predicate", "falling asleep", "test", "pop"}
  /\ loop \in {"none", "while", "lock", "predicate", "falling asleep", "asleep",
               "woken", "test", "pop", "callback", "ended"}
  /\ event \in 0..MaxPosts /\ (event # 0 <=> loop = "callback")
  /\ owner \in {"idle", "notify", "join"}
  /\ notifying \subseteq Posters
  /\ posts \in 0..MaxPosts
  /\ starts \in 0..MaxStarts
  /\ handled \in 0..MaxPosts
  /\ late \in 0..MaxPosts

(* The loop is an event delivery: with the event in hand put back at the   *)
(* front of the queue, events are handled in the order they were posted,   *)
(* each once, across any number of stops and starts, and a running loop    *)
(* gets round to the next: no notification of a push is missed.            *)
Delivery == INSTANCE EventDelivery WITH
  on <- running,
  pending <- (IF event = 0 THEN <<>> ELSE <<event>>) \o queue
DeliversEvents == Delivery!Spec

(* When stop() has returned, no thread is left that could run a callback.  *)
QuietWhenStopped == ~running /\ owner = "idle" => loop = "none"

(* After stop() has cleared the flag at most one more callback runs,       *)
(* wherever the thread was: the one it was in, or that of the event it was *)
(* about to pop, the flag having been tested already (lines 42-53).  The   *)
(* other events stay in the queue for the next start.                      *)
StopFinishesOne == ~running => late <= 1

(* stop() returns, as the tests that call it expect (event_loop.test.cpp   *)
(* 33-39).                                                                 *)
StopReturns == owner = "notify" ~> owner = "idle"
=============================================================================
