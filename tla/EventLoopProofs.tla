-------------------------- MODULE EventLoopProofs --------------------------
(***************************************************************************)
(* Theorems about EventLoop, for any number of posters, events and starts: *)
(* its types, that nothing runs after stop(), that a stopped loop finishes *)
(* one callback at most, and that every step is a step of EventDelivery or *)
(* changes nothing of it.                                                  *)
(***************************************************************************)
EXTENDS EventLoop, SequenceTheorems, TLAPS

Places == {"none", "while", "lock", "predicate", "falling asleep", "asleep",
           "woken", "test", "pop", "callback", "ended"}

(* Control: where the threads are.  A thread exists just while the loop    *)
(* runs or is being stopped, and it ends only when it is stopped; one that *)
(* comes to the pop finds an event, even if it has been stopped since the  *)
(* test.                                                                   *)
Control ==
  /\ running \in BOOLEAN /\ locked \in BOOLEAN
  /\ loop \in Places
  /\ owner \in {"idle", "notify", "join"}
  /\ locked <=> loop \in {"predicate", "falling asleep", "test", "pop"}
  /\ running => owner = "idle" /\ loop # "none" /\ loop # "ended"
  /\ ~running => (owner = "idle" <=> loop = "none")
  /\ loop = "test" /\ running => queue # <<>>
  /\ loop = "pop" => queue # <<>>

LEMMA ControlInit == Init => Control
BY DEF Init, Control, Places

LEMMA ControlStep == Control /\ [Next]_vars => Control'
<1> SUFFICES ASSUME Control, [Next]_vars PROVE Control'
  OBVIOUS
<1>1. ASSUME NEW p \in Posters, Post(p) PROVE Control'
  BY <1>1 DEF Post, Push, thread, Control, Places
<1>2. ASSUME NEW p \in Posters, NotifyPosted(p) PROVE Control'
  BY <1>2 DEF NotifyPosted, Notify, Control, Places
<1>3. CASE PostFromCallback
  BY <1>3 DEF PostFromCallback, Push, thread, Control, Places
<1>4. CASE Start
  BY <1>4 DEF Start, Control, Places
<1>5. CASE StopFlag
  BY <1>5 DEF StopFlag, Control, Places
<1>6. CASE StopNotify
  BY <1>6 DEF StopNotify, Notify, Control, Places
<1>7. CASE StopJoin
  BY <1>7 DEF StopJoin, Control, Places
<1>8. CASE WhileRunning
  BY <1>8 DEF WhileRunning, outside, Control, Places
<1>9. CASE Lock
  BY <1>9 DEF Lock, outside, Control, Places
<1>10. CASE Predicate
  BY <1>10 DEF Predicate, outside, Control, Places
<1>11. CASE FallAsleep
  BY <1>11 DEF FallAsleep, outside, Control, Places
<1>12. CASE WakeSpuriously
  BY <1>12 DEF WakeSpuriously, outside, Control, Places
<1>13. CASE Test
  BY <1>13 DEF Test, outside, Control, Places
<1>14. CASE RunCallback
  BY <1>14 DEF RunCallback, outside, Control, Places
<1>15. CASE UNCHANGED vars
  BY <1>15 DEF vars, thread, outside, Control, Places
<1>16. CASE Pop
  BY <1>16 DEF Pop, outside, Control, Places
<1>17. QED
  BY <1>1, <1>2, <1>3, <1>4, <1>5, <1>6, <1>7, <1>8, <1>9, <1>10, <1>11,
     <1>12, <1>13, <1>14, <1>15, <1>16 DEF Next, Stop, ProcessEvents

-----------------------------------------------------------------------------
(* Events are numbered as they are posted: the one in hand is the next to  *)
(* handle, and the queue holds the rest, in order.                         *)
InHand == IF event = 0 THEN 0 ELSE 1

Numbers ==
  /\ queue \in Seq(Nat)
  /\ posts \in Nat /\ posts <= MaxPosts /\ handled \in Nat
  /\ event = 0 \/ event = handled + 1
  /\ event # 0 <=> loop = "callback"
  /\ posts = handled + InHand + Len(queue)
  /\ \A i \in 1..Len(queue) : queue[i] = handled + InHand + i

LEMMA NumbersInit == Init => Numbers
<1>1. <<>> \in Seq(Nat) /\ Len(<<>>) = 0
  BY EmptySeq
<1>2. QED BY <1>1, LoopBounds DEF Init, Numbers, InHand

(* A push numbers the new event one above the last.                        *)
LEMMA PushNumbers ==
  ASSUME Numbers, Push, UNCHANGED <<event, handled>>, loop' = loop
  PROVE  Numbers'
<1>1. posts \in Nat /\ queue \in Seq(Nat) /\ posts' = posts + 1 /\ posts' <= MaxPosts
      /\ queue' = Append(queue, posts + 1)
  BY LoopBounds DEF Numbers, Push
<1>2. /\ queue' \in Seq(Nat)
      /\ Len(queue') = Len(queue) + 1
      /\ \A i \in 1..Len(queue) : queue'[i] = queue[i]
      /\ queue'[Len(queue) + 1] = posts + 1
  BY <1>1, AppendProperties
<1>3. Len(queue) \in Nat
  BY <1>1, LenProperties
<1>4. InHand' = InHand /\ InHand \in {0, 1}
  BY DEF InHand
<1>5. ASSUME NEW i \in 1..Len(queue') PROVE queue'[i] = handled' + InHand' + i
  <2>1. CASE i = Len(queue) + 1
    BY <1>2, <1>4, <2>1 DEF Numbers
  <2>2. CASE i \in 1..Len(queue)
    BY <1>2, <1>4, <2>2 DEF Numbers
  <2>3. QED BY <1>2, <1>3, <2>1, <2>2
<1>6. posts' = handled' + InHand' + Len(queue')
  BY <1>1, <1>2, <1>3, <1>4 DEF Numbers
<1>7. QED BY <1>1, <1>2, <1>5, <1>6 DEF Numbers

(* The head of the queue is the event to handle next.                      *)
LEMMA PopNumbers ==
  ASSUME Control, Numbers, Pop
  PROVE  /\ event = 0 /\ queue # <<>> /\ event' = handled + 1
         /\ Numbers'
<1>1. event = 0 /\ queue # <<>> /\ queue \in Seq(Nat) /\ handled \in Nat /\ InHand = 0
  BY DEF Control, Numbers, Pop, InHand
<1>2. /\ queue' = Tail(queue) /\ event' = Head(queue) /\ loop' = "callback"
      /\ handled' = handled /\ posts' = posts
  BY DEF Pop, outside
<1>3. /\ Head(queue) = queue[1]
      /\ queue' \in Seq(Nat) /\ Len(queue') = Len(queue) - 1
      /\ \A i \in 1..Len(queue') : queue'[i] = queue[i + 1]
  BY <1>1, <1>2, HeadTailProperties
<1>4. Len(queue) \in Nat /\ Len(queue) >= 1
  BY <1>1, LenProperties, EmptySeq
<1>5. event' = handled + 1
  BY <1>1, <1>2, <1>3, <1>4 DEF Numbers
<1>6. InHand' = 1
  BY <1>1, <1>5 DEF InHand
<1>7. ASSUME NEW i \in 1..Len(queue') PROVE queue'[i] = handled' + InHand' + i
  BY <1>1, <1>2, <1>3, <1>4, <1>6 DEF Numbers
<1>8. posts' = handled' + InHand' + Len(queue')
  BY <1>1, <1>2, <1>3, <1>4, <1>6 DEF Numbers
<1>9. QED BY <1>1, <1>2, <1>3, <1>5, <1>7, <1>8 DEF Numbers

LEMMA NumbersStep == Control /\ Numbers /\ [Next]_vars => Numbers'
<1> SUFFICES ASSUME Control, Numbers, [Next]_vars PROVE Numbers'
  OBVIOUS
<1>1. ASSUME NEW p \in Posters, Post(p) PROVE Numbers'
  BY <1>1, PushNumbers DEF Post, thread
<1>2. ASSUME NEW p \in Posters, NotifyPosted(p) PROVE Numbers'
  BY <1>2 DEF NotifyPosted, Notify, Numbers, InHand
<1>3. CASE PostFromCallback
  BY <1>3, PushNumbers DEF PostFromCallback, thread
<1>4. CASE Start
  BY <1>4 DEF Start, Control, Numbers, InHand
<1>5. CASE Stop
  BY <1>5 DEF Stop, StopFlag, StopNotify, StopJoin, Notify, thread, Numbers, InHand
<1>6. CASE WhileRunning \/ Lock \/ Predicate \/ FallAsleep \/ Test \/ WakeSpuriously
  BY <1>6 DEF WhileRunning, Lock, Predicate, FallAsleep, Test, WakeSpuriously, outside,
     Numbers, InHand
<1>7. CASE Pop
  BY <1>7, PopNumbers
<1>8. CASE RunCallback
  BY <1>8 DEF RunCallback, outside, Numbers, InHand
<1>9. CASE UNCHANGED vars
  BY <1>9 DEF vars, thread, outside, Numbers, InHand
<1>10. QED
  BY <1>1, <1>2, <1>3, <1>4, <1>5, <1>6, <1>7, <1>8, <1>9 DEF Next, ProcessEvents

(* What a stop leaves to run: nothing was finished since the flag was      *)
(* cleared as long as a callback is running or ahead without a new test.   *)
Lateness ==
  /\ late \in Nat /\ late <= handled
  /\ ~running => late <= 1
  /\ ~running /\ loop \in {"pop", "callback"} => late = 0

LEMMA LatenessInit == Init => Lateness
BY DEF Init, Lateness

LEMMA LatenessStep == Control /\ Numbers /\ Lateness /\ [Next]_vars => Lateness'
<1> SUFFICES ASSUME Control, Numbers, Lateness, [Next]_vars PROVE Lateness'
  OBVIOUS
<1>1. handled \in Nat
  BY DEF Numbers
<1>2. CASE RunCallback
  BY <1>1, <1>2 DEF RunCallback, outside, Lateness
<1>3. CASE Start
  BY <1>3 DEF Start, Lateness
<1>4. CASE StopFlag
  BY <1>1, <1>4 DEF StopFlag, Lateness
<1>5. CASE Test
  BY <1>5 DEF Test, outside, Lateness
<1>6. CASE Pop
  BY <1>6 DEF Pop, outside, Lateness
<1>7. ASSUME UNCHANGED <<running, handled, late>>,
             loop' = loop \/ loop' \notin {"pop", "callback"}
      PROVE  Lateness'
  BY <1>7 DEF Lateness
<1>8. ASSUME NEW p \in Posters, Post(p) \/ NotifyPosted(p) PROVE Lateness'
  BY <1>7, <1>8 DEF Post, NotifyPosted, Notify, thread
<1>9. CASE \/ PostFromCallback \/ StopNotify \/ StopJoin \/ WhileRunning \/ Lock
           \/ Predicate \/ FallAsleep \/ WakeSpuriously \/ UNCHANGED vars
  BY <1>7, <1>9 DEF PostFromCallback, StopNotify, Notify, StopJoin, WhileRunning, Lock,
     Predicate, FallAsleep, WakeSpuriously, vars, thread, outside
<1>10. QED
  BY <1>2, <1>3, <1>4, <1>5, <1>6, <1>8, <1>9 DEF Next, Stop, ProcessEvents

LEMMA Invariance == Spec => [](Control /\ Numbers /\ Lateness)
<1>1. QED BY ControlInit, ControlStep, NumbersInit, NumbersStep, LatenessInit,
             LatenessStep, PTL DEF Spec

-----------------------------------------------------------------------------
(* What the two layers leave out of the types.                             *)
Bounds == starts \in 0..MaxStarts /\ notifying \subseteq Posters

LEMMA BoundsInv == Spec => []Bounds
<1>1. Init => Bounds
  BY LoopBounds DEF Init, Bounds
<1>2. Bounds /\ [Next]_vars => Bounds'
  <2> SUFFICES ASSUME Bounds, [Next]_vars PROVE Bounds'
    OBVIOUS
  <2>1. ASSUME NEW p \in Posters, Post(p) \/ NotifyPosted(p) PROVE Bounds'
    BY <2>1 DEF Post, NotifyPosted, Bounds
  <2>2. CASE Start
    BY <2>2, LoopBounds DEF Start, Bounds
  <2>3. ASSUME UNCHANGED <<starts, notifying>> PROVE Bounds'
    BY <2>3 DEF Bounds
  <2>4. CASE PostFromCallback \/ Stop \/ ProcessEvents \/ WakeSpuriously \/ UNCHANGED vars
    BY <2>3, <2>4 DEF PostFromCallback, Stop, StopFlag, StopNotify, StopJoin,
       ProcessEvents, WhileRunning, Lock, Predicate, FallAsleep, Test, Pop,
       RunCallback, WakeSpuriously, vars, outside
  <2>5. QED BY <2>1, <2>2, <2>4 DEF Next
<1>3. QED BY <1>1, <1>2, PTL DEF Spec

(* Every variable keeps its type: the queue holds only events that were    *)
(* posted, and the thread holds the mutex at no other place than between   *)
(* the predicate and the end of the pop (event_loop.cpp 44-54).            *)
THEOREM TypeCorrect == Spec => []TypeOK
<1>1. ASSUME Control, Numbers, Lateness, Bounds PROVE TypeOK
  <2>1. Len(queue) \in Nat /\ InHand \in {0, 1}
    BY <1>1, LenProperties DEF Numbers, InHand
  <2>2. posts \in 0..MaxPosts /\ handled \in 0..MaxPosts
    BY <1>1, <2>1, LoopBounds DEF Numbers
  <2>3. event \in 0..MaxPosts
    BY <1>1, <2>1, LoopBounds DEF Numbers, InHand
  <2>4. ASSUME NEW i \in 1..Len(queue) PROVE queue[i] \in 1..MaxPosts
    BY <1>1, <2>1, <2>2, LoopBounds DEF Numbers
  <2>5. queue \in Seq(1..MaxPosts)
    <3>1. queue \in [1..Len(queue) -> 1..MaxPosts]
      BY <1>1, <2>4, LenProperties DEF Numbers
    <3>2. QED BY <2>1, <3>1, SeqDef
  <2>6. late \in 0..MaxPosts
    BY <1>1, <2>2, LoopBounds DEF Lateness
  <2>7. QED BY <1>1, <2>2, <2>3, <2>5, <2>6 DEF TypeOK, Control, Places, Numbers, Bounds
<1>2. QED BY <1>1, Invariance, BoundsInv, PTL

(* When stop() has returned no thread of the loop is left: what the owner  *)
(* then destroys no callback can touch (event_loop.cpp 19-25).             *)
THEOREM NobodyLeft == Spec => []QuietWhenStopped
<1>1. Control => QuietWhenStopped
  BY DEF Control, QuietWhenStopped
<1>2. QED BY <1>1, Invariance, PTL

(* stop() clears the flag without the mutex, so it may come between the    *)
(* test of line 48 and the pop: the callback of that event still runs, or  *)
(* the one the thread was in, and never a second (event_loop.cpp 19-57).   *)
THEOREM StopFinishes == Spec => []StopFinishesOne
<1>1. Lateness => StopFinishesOne
  BY DEF Lateness, StopFinishesOne
<1>2. QED BY <1>1, Invariance, PTL

-----------------------------------------------------------------------------
(* The events of EventDelivery: the one in hand back at the front.         *)
Pending == (IF event = 0 THEN <<>> ELSE <<event>>) \o queue

LEMMA PendingIs ==
  ASSUME Numbers
  PROVE  /\ Pending \in Seq(Nat) /\ Len(Pending) = InHand + Len(queue)
         /\ event = 0 => Pending = queue
         /\ event # 0 => Pending = <<event>> \o queue
<1>1. queue \in Seq(Nat) /\ event \in Nat
  BY DEF Numbers
<1>2. CASE event = 0
  <2>1. Pending = queue
    BY <1>1, <1>2, ConcatEmptySeq DEF Pending
  <2>2. QED BY <1>1, <1>2, <2>1, LenProperties DEF InHand
<1>3. CASE event # 0
  <2>1. <<event>> \in Seq(Nat) /\ Len(<<event>>) = 1
    BY <1>1
  <2>2. QED BY <1>1, <1>3, <2>1, ConcatProperties DEF Pending, InHand
<1>4. QED BY <1>2, <1>3

(* A push is a Post of the specification.                                  *)
LEMMA PushPosts ==
  ASSUME Numbers, Push, UNCHANGED <<event, handled>>
  PROVE  Pending' = Append(Pending, handled + Len(Pending) + 1)
<1>1. queue \in Seq(Nat) /\ event \in Nat /\ posts + 1 \in Nat /\ Len(queue) \in Nat
  BY LenProperties DEF Numbers
<1>2. queue' = Append(queue, posts + 1) /\ event' = event
  BY DEF Push
<1>3. posts + 1 = handled + Len(Pending) + 1
  <2>1. InHand \in Nat
    BY DEF InHand
  <2>2. Len(Pending) = InHand + Len(queue)
    BY PendingIs
  <2>3. QED BY <1>1, <2>1, <2>2 DEF Numbers
<1>4. CASE event = 0
  <2>1. Pending' = queue'
    BY <1>1, <1>2, <1>4, ConcatEmptySeq, AppendProperties DEF Pending
  <2>2. QED BY <1>2, <1>3, <1>4, <2>1, PendingIs
<1>5. CASE event # 0
  <2> DEFINE s == <<event>>
             l == <<posts + 1>>
  <2>1. s \in Seq(Nat) /\ l \in Seq(Nat)
    BY <1>1
  <2>2. queue' = queue \o l
    BY <1>1, <1>2, AppendIsConcat
  <2>3. Pending' = s \o (queue \o l) /\ Pending = s \o queue
    BY <1>2, <1>5, <2>2 DEF Pending
  <2>4. Pending' = (s \o queue) \o l
    BY <1>1, <2>1, <2>3, ConcatAssociative
  <2>5. s \o queue \in Seq(Nat)
    BY <1>1, <2>1, ConcatProperties
  <2>6. (s \o queue) \o l = Append(s \o queue, posts + 1)
    BY <1>1, <2>5, AppendIsConcat
  <2>7. QED BY <1>3, <2>3, <2>4, <2>6
<1>6. QED BY <1>4, <1>5

(* The pop takes the event in hand: nothing of the specification changes.  *)
LEMMA PopStutters ==
  ASSUME Control, Numbers, Pop
  PROVE  Pending' = Pending
<1>1. /\ event = 0 /\ queue # <<>> /\ queue \in Seq(Nat)
      /\ event' = handled + 1 /\ handled \in Nat
  BY PopNumbers DEF Numbers
<1>2. event' = Head(queue) /\ queue' = Tail(queue)
  BY DEF Pop
<1>3. Pending' = <<Head(queue)>> \o Tail(queue)
  BY <1>1, <1>2 DEF Pending
<1>4. <<Head(queue)>> \o Tail(queue) = queue
  BY <1>1, HeadTailProperties, ConcatProperties, LenProperties, SeqEqual
<1>5. QED BY <1>1, <1>3, <1>4, PendingIs

(* The end of a callback handles the oldest event.                         *)
LEMMA CallbackHandles ==
  ASSUME Numbers, RunCallback
  PROVE  /\ Pending # <<>> /\ Head(Pending) = handled + 1
         /\ Pending' = Tail(Pending)
<1>1. event # 0 /\ event = handled + 1 /\ queue \in Seq(Nat) /\ event \in Nat
  BY DEF Numbers, RunCallback
<1>2. event' = 0 /\ queue' = queue
  BY DEF RunCallback
<1>3. Pending' = queue
  BY <1>1, <1>2, ConcatEmptySeq DEF Pending
<1>4. Pending = <<event>> \o queue
  BY <1>1 DEF Pending
<1>5. Head(<<event>> \o queue) = event /\ Tail(<<event>> \o queue) = queue /\ <<event>> \o queue # <<>>
  BY <1>1, HeadTailProperties, ConcatProperties, LenProperties, SeqEqual
<1>6. QED BY <1>1, <1>3, <1>4, <1>5

(* Every step of the loop is a step of the delivery or changes nothing of  *)
(* it: events are handled in the order they were posted, each once, none   *)
(* lost or repeated by any interleaving of posters, thread and stop()      *)
(* (event_loop.cpp 27-62).                                                 *)
THEOREM DeliversInOrder == Spec => Delivery!Init /\ [][Delivery!Next]_(Delivery!vars)
<1>1. Init => Delivery!Init
  <2>1. <<>> \in Seq(Nat) /\ <<>> \o <<>> = <<>>
    BY EmptySeq, ConcatEmptySeq
  <2>2. QED BY <2>1 DEF Init, Delivery!Init
<1>2. Control /\ Numbers /\ [Next]_vars => [Delivery!Next]_(Delivery!vars)
  <2> SUFFICES ASSUME Control, Numbers, [Next]_vars
               PROVE  [Delivery!Next]_(Delivery!vars)
    OBVIOUS
  <2> USE DEF Delivery!Next, Delivery!Post, Delivery!Handle, Delivery!Turn, Delivery!vars
  <2>1. ASSUME NEW p \in Posters, Post(p) PROVE Delivery!Post
    BY <2>1, PushPosts DEF Post, thread, Pending
  <2>2. CASE PostFromCallback
    BY <2>2, PushPosts DEF PostFromCallback, thread, Pending
  <2>3. CASE RunCallback
    BY <2>3, CallbackHandles DEF Pending, RunCallback
  <2>4. CASE Pop
    BY <2>4, PopStutters DEF Pending, Pop, outside
  <2>5. CASE Start \/ StopFlag
    BY <2>5 DEF Start, StopFlag, thread, Control
  <2>6. ASSUME UNCHANGED <<running, event, queue, handled>> PROVE UNCHANGED Delivery!vars
    BY <2>6
  <2>7. ASSUME NEW p \in Posters, NotifyPosted(p) PROVE UNCHANGED Delivery!vars
    BY <2>6, <2>7 DEF NotifyPosted
  <2>8. CASE \/ StopNotify \/ StopJoin \/ WhileRunning \/ Lock \/ Predicate \/ FallAsleep
             \/ Test \/ WakeSpuriously \/ UNCHANGED vars
    BY <2>6, <2>8 DEF StopNotify, StopJoin, WhileRunning, Lock, Predicate, FallAsleep,
       Test, WakeSpuriously, vars, thread, outside
  <2>9. QED
    BY <2>1, <2>2, <2>3, <2>4, <2>5, <2>7, <2>8 DEF Next, Stop, ProcessEvents
<1>3. QED BY <1>1, <1>2, Invariance, PTL DEF Spec
=============================================================================
