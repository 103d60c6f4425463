------------------------------ MODULE Program ------------------------------
(***************************************************************************)
(* The life of the process (main.cpp, ex_mgr.cpp): main connects and       *)
(* subscribes the exchanges, runs its loop, disconnects and returns, after *)
(* which the global objects are destroyed in the reverse of the order they *)
(* are declared in.  Each connected exchange has an IO thread, whose       *)
(* handlers use those objects.  A signal stops the loop; a second one      *)
(* calls exit in the handler, on whatever thread it interrupts.  A thread  *)
(* it interrupts may hold mutexes that others wait for.                    *)
(*                                                                         *)
(* Not here: a third signal, one that comes when exit has begun, and the   *)
(* log's mutex where main takes it outside of callbacks and subscribing.   *)
(***************************************************************************)
EXTENDS Naturals

CONSTANTS
  N,           \* number of exchanges; the map keeps them in the order 1..N
  Locks,       \* number of mutexes that are shared
  MaxSignals   \* bound: signals delivered

ASSUME ProgramBounds ==
  N \in Nat \ {0} /\ Locks \in Nat \ {0} /\ MaxSignals \in Nat

Exchanges == 1..N
Main == 0
Threads == {Main} \cup Exchanges  \* the IO thread of exchange e is e
Nobody == N + 1

(* The mutexes of the timers, the books, the orders, the queues of writes  *)
(* and the log, in the order in which they nest: the log's is the last.    *)
Mutexes == 1..Locks
TimersMutex == 1

VARIABLES
  main,       \* where main is
  at,         \* the exchange its loop over them has come to
  running,    \* g_running
  requested,  \* g_shutdown_requested
  handler,    \* where a thread is in signal_handler, which interrupts it
  signals,    \* signals delivered
  holder,     \* of each mutex: the thread that holds it
  wants,      \* of each thread: the mutex it waits for, or 0
  session,    \* of each exchange: the progress of connect and disconnect
  closing,    \* who is inside disconnect() of it
  io,         \* where its IO thread is
  object,     \* "whole", "base" while ~ApiExchange runs, "gone"
  exiting,    \* the thread inside exit
  exit,       \* what it destroys next
  dying,      \* the exchange it is destroying
  forced,     \* exit was called by the signal handler
  code,       \* the exit code
  gone,       \* managers destroyed
  ended       \* "no", or how the process ended

flags == <<running, requested, handler, signals>>
mainThread == <<main, at>>
connections == <<session, closing>>
locking == <<holder, wants>>
exitPath == <<exiting, exit, dying, forced, code, gone>>
vars == <<mainThread, flags, locking, connections, io, object, exitPath, ended>>

-----------------------------------------------------------------------------
(* A thread takes a step of its own when no signal handler interrupts it   *)
(* and it is not the one inside exit.                                      *)
Runs(t) == ended = "no" /\ handler[t] = "none" /\ exiting # t

(* exit: static objects are destroyed on the thread that calls it.         *)
BeginExit(t, result, byHandler) ==
  /\ exiting = Nobody
  /\ exiting' = t
  /\ exit' = "balances"
  /\ code' = result
  /\ forced' = byHandler
  /\ UNCHANGED <<dying, gone>>

(* main returns while another thread is inside exit: undefined.            *)
Return(result) ==
  \/ BeginExit(Main, result, FALSE) /\ main' = "returned" /\ UNCHANGED ended
  \/ /\ exiting # Nobody
     /\ ended' = "undefined"
     /\ UNCHANGED <<main, exitPath>>

(* Mutexes are taken in callbacks, while main subscribes, and in the       *)
(* handlers of the IO threads: a free one at once, the inner inside the    *)
(* outer.  The thread inside exit keeps those it held.                     *)
Holds(t) == {m \in Mutexes : holder[m] = t}
Released(t) == [m \in Mutexes |-> IF holder[m] = t THEN Nobody ELSE holder[m]]
MayLock(t) ==
  IF t = Main
    THEN main = "callbacks" \/ (main = "subscribe" /\ at \in Exchanges)
    ELSE io[t] = "inside"

Take(t, m) ==
  /\ wants[t] = 0
  /\ IF holder[m] = Nobody
       THEN holder' = [holder EXCEPT ![m] = t] /\ UNCHANGED wants
       ELSE wants' = [wants EXCEPT ![t] = m] /\ UNCHANGED holder

Lock(t) ==
  /\ MayLock(t)
  /\ \E m \in Mutexes : (\A held \in Holds(t) : held < m) /\ Take(t, m)

Obtain(t) ==
  /\ wants[t] # 0
  /\ holder[wants[t]] = Nobody
  /\ holder' = [holder EXCEPT ![wants[t]] = t]
  /\ wants' = [wants EXCEPT ![t] = 0]

UseMutexes(t) ==
  /\ Runs(t)
  /\ Lock(t) \/ Obtain(t)
  /\ UNCHANGED <<mainThread, flags, connections, io, object, exitPath, ended>>

(* What takes one ends when it has released all it held: one that goes on  *)
(* to another mutex is not told from the next.                             *)
Release(t) == wants[t] = 0 /\ holder' = Released(t) /\ UNCHANGED wants

-----------------------------------------------------------------------------
(* connectAll and subscribeAllOrderBooks stop at the first that fails, and *)
(* main returns 1.                                                         *)
Connect ==
  /\ main = "connect" /\ at \in Exchanges
  /\ session[at] = "closed" /\ io[at] = "none"
  /\ session' = [session EXCEPT ![at] = "open"]
  /\ io' = [io EXCEPT ![at] = "waiting"]
  /\ at' = at + 1
  /\ UNCHANGED <<main, closing, exitPath, ended>>

Subscribe ==
  /\ main = "subscribe" /\ at \in Exchanges
  /\ Release(Main)
  /\ at' = at + 1
  /\ UNCHANGED <<main, connections, io, exitPath, ended>>

AllDoneAtEnd ==  \* the next loop over the exchanges starts where this one ended
  /\ main \in {"connect", "subscribe"} /\ at = Nobody
  /\ main' = IF main = "connect" THEN "subscribe" ELSE "loop"
  /\ at' = at + 1
  /\ UNCHANGED <<connections, io, exitPath, ended>>

AllDone ==
  /\ main \in {"connect", "subscribe"} /\ at = Nobody
  /\ main' = IF main = "connect" THEN "subscribe" ELSE "loop"
  /\ at' = 1
  /\ UNCHANGED <<connections, io, exitPath, ended>>

OneFails ==
  /\ main \in {"connect", "subscribe"} /\ at \in Exchanges
  /\ wants[Main] = 0 /\ Holds(Main) = {}
  /\ Return(1)
  /\ UNCHANGED <<at, connections, io>>

StartUp ==
  /\ Runs(Main)
  /\ Subscribe \/ ((Connect \/ AllDone \/ OneFails) /\ UNCHANGED locking)
  /\ UNCHANGED <<flags, object>>

-----------------------------------------------------------------------------
(* The loop: checkTimers collects under its mutex and runs the callbacks   *)
(* without it.                                                             *)
LoopTest ==
  /\ main = "loop"
  /\ main' = IF running THEN "timers" ELSE "final"
  /\ UNCHANGED locking

CheckTimers ==
  /\ main = "timers" /\ Holds(Main) = {}
  /\ Take(Main, TimersMutex)
  /\ UNCHANGED main

Collected ==
  /\ main = "timers" /\ TimersMutex \in Holds(Main)
  /\ Release(Main)
  /\ main' = "callbacks"

CallbacksDone ==
  /\ main = "callbacks"
  /\ Release(Main)
  /\ main' = "requested"

(* The loop catches what a callback throws, and begins again.              *)
CallbackThrows ==
  /\ main = "callbacks"
  /\ Release(Main)
  /\ main' = "loop"

(* With a shutdown requested the loop disconnects all and goes on, unless  *)
(* five seconds have passed since it began.                                *)
RequestedTest ==
  /\ main = "requested"
  /\ main' \in IF requested THEN {"graceful", "final"} ELSE {"loop"}
  /\ UNCHANGED locking

MainLoop ==
  /\ Runs(Main)
  /\ \/ LoopTest \/ CheckTimers \/ Collected
     \/ CallbacksDone \/ CallbackThrows \/ RequestedTest
  /\ UNCHANGED <<at, flags, connections, io, object, exitPath, ended>>

-----------------------------------------------------------------------------
(* disconnect(): the flag m_connected, the context, the thread.            *)
BeginDisconnect(t, e) ==
  /\ session[e] = "open"
  /\ session' = [session EXCEPT ![e] = "closing"]
  /\ closing' = [closing EXCEPT ![e] = t]

StopContext(t, e) ==
  /\ session[e] = "closing" /\ closing[e] = t
  /\ session' = [session EXCEPT ![e] = "stopped"]
  /\ UNCHANGED closing

JoinWithTimeout(t, e) ==  \* given up, as the comment has it
  /\ session[e] = "stopped" /\ closing[e] = t
  /\ session' = [session EXCEPT ![e] = "closed"]
  /\ closing' = [closing EXCEPT ![e] = Nobody]

(* A thread that joins itself gives up and detaches.                       *)
Join(t, e) ==
  /\ session[e] = "stopped" /\ closing[e] = t
  /\ io[e] = "none" \/ t = e
  /\ session' = [session EXCEPT ![e] = "closed"]
  /\ closing' = [closing EXCEPT ![e] = Nobody]

DisconnectStep(t, e) == BeginDisconnect(t, e) \/ StopContext(t, e) \/ Join(t, e)

(* disconnect() has returned, or returns at once: not connected.           *)
Disconnected(t, e) == session[e] # "open" /\ closing[e] # t

(* disconnectAll, in the loop or after it; then the loop goes on, or main  *)
(* returns.                                                                *)
NextExchangeNone ==  \* return where the loop should continue
  /\ at \in Exchanges /\ Disconnected(Main, at)
  /\ at' = Nobody

NextExchange ==
  /\ at \in Exchanges /\ Disconnected(Main, at)
  /\ at' = at + 1

AllDisconnected ==
  /\ at = Nobody
  /\ at' = 1
  /\ IF main = "graceful"
       THEN main' = "loop" /\ UNCHANGED <<exitPath, ended>>
       ELSE Return(0)

DisconnectAll ==
  /\ Runs(Main)
  /\ main \in {"graceful", "final"}
  /\ \/ /\ at \in Exchanges
        /\ DisconnectStep(Main, at)
        /\ UNCHANGED <<mainThread, exitPath, ended>>
     \/ NextExchange /\ UNCHANGED <<main, connections, exitPath, ended>>
     \/ AllDisconnected /\ UNCHANGED connections
  /\ UNCHANGED <<flags, locking, io, object>>

-----------------------------------------------------------------------------
(* The IO thread of e: a handler converts the message and calls the        *)
(* virtual processMessage, which the destructor's object no longer has; it *)
(* uses the books, strategies, orders and timers.                          *)
Receive(e) ==
  /\ io[e] = "waiting" /\ session[e] \in {"open", "closing"}
  /\ io' = [io EXCEPT ![e] = "received"]
  /\ UNCHANGED ended

ProcessMessage(e) ==
  /\ io[e] = "received"
  /\ IF object[e] = "whole"
       THEN io' = [io EXCEPT ![e] = "inside"] /\ UNCHANGED ended
       ELSE ended' = "aborted" /\ UNCHANGED io

Processed(e) ==
  /\ io[e] = "inside"
  /\ Release(e)
  /\ io' = [io EXCEPT ![e] = "waiting"]
  /\ UNCHANGED ended

LeaveRun(e) ==
  /\ io[e] = "waiting" /\ session[e] = "stopped"
  /\ io' = [io EXCEPT ![e] = "none"]
  /\ UNCHANGED ended

IoThread(e) ==
  /\ Runs(e)
  /\ Processed(e) \/ ((Receive(e) \/ ProcessMessage(e) \/ LeaveRun(e)) /\ UNCHANGED locking)
  /\ UNCHANGED <<mainThread, flags, connections, object, exitPath>>

-----------------------------------------------------------------------------
(* signal_handler, on any thread: it tests the flag, sets it, and clears   *)
(* the other; or calls exit.                                               *)
Signal(t) ==
  /\ ended = "no" /\ handler[t] = "none" /\ exiting = Nobody
  /\ t \in {Main} \cup {e \in Exchanges : io[e] # "none"}
  /\ signals < MaxSignals
  /\ signals' = signals + 1
  /\ IF requested
       THEN BeginExit(t, 1, TRUE) /\ UNCHANGED handler
       ELSE handler' = [handler EXCEPT ![t] = "tested"] /\ UNCHANGED exitPath
  /\ UNCHANGED <<mainThread, running, requested, locking, connections, io, object, ended>>

SetRequested(t) ==
  /\ handler[t] = "tested"
  /\ requested' = TRUE
  /\ handler' = [handler EXCEPT ![t] = "requested"]
  /\ UNCHANGED running

ClearRunning(t) ==
  /\ handler[t] = "requested"
  /\ running' = FALSE
  /\ handler' = [handler EXCEPT ![t] = "none"]
  /\ UNCHANGED requested

SignalHandler(t) ==
  /\ ended = "no"
  /\ SetRequested(t) \/ ClearRunning(t)
  /\ UNCHANGED <<mainThread, signals, locking, connections, io, object, exitPath, ended>>

-----------------------------------------------------------------------------
(* The destructors: balances first, then the exchanges in an order the map *)
(* chooses, then orders, books and timers.                                 *)
DestroyManagersFirst ==  \* exchangeManager declared before them
  \/ /\ exit = "balances" /\ exit' = "exchanges"
     /\ gone' = {"balances", "orders", "books", "timers"}
  \/ /\ exit = "exchanges" /\ \A e \in Exchanges : object[e] = "gone"
     /\ exit' = "done"
     /\ UNCHANGED gone

DestroyManagers ==
  \/ /\ exit = "balances" /\ exit' = "exchanges"
     /\ gone' = gone \cup {"balances"}
  \/ /\ exit = "exchanges" /\ \A e \in Exchanges : object[e] = "gone"
     /\ exit' = "orders"
     /\ UNCHANGED gone
  \/ /\ exit = "orders" /\ exit' = "books"
     /\ gone' = gone \cup {"orders"}
  \/ /\ exit = "books" /\ exit' = "timers"
     /\ gone' = gone \cup {"books"}
  \/ /\ exit = "timers" /\ exit' = "done"
     /\ gone' = gone \cup {"timers"}

(* ~ApiExchange runs when the derived object has gone.                     *)
DestroyExchange(e) ==
  /\ exit = "exchanges"
  /\ \A other \in Exchanges : object[other] # "base"
  /\ object[e] = "whole"
  /\ object' = [object EXCEPT ![e] = "base"]
  /\ dying' = e
  /\ exit' = "disconnect"

BaseDisconnectsLast ==  \* waits for the disconnect() another began
  /\ exit = "disconnect"
  /\ session[dying] \notin {"closing", "stopped"}
  /\ IF session[dying] = "open"
       THEN BeginDisconnect(exiting, dying) /\ exit' = "closing"
       ELSE exit' = "stopTimer" /\ UNCHANGED connections

(* Its disconnect() returns at once when another is inside, also the one   *)
(* that exit interrupted.                                                  *)
BaseDisconnects ==
  /\ exit = "disconnect"
  /\ IF session[dying] = "open"
       THEN BeginDisconnect(exiting, dying) /\ exit' = "closing"
       ELSE exit' = "stopTimer" /\ UNCHANGED connections

BaseCloses ==
  /\ exit = "closing"
  /\ \/ StopContext(exiting, dying) /\ UNCHANGED exit
     \/ Join(exiting, dying) /\ exit' = "stopTimer"

(* stopTimer locks; then the members go, and a thread still joinable ends  *)
(* the process.                                                            *)
StopValidityTimer ==
  /\ exit = "stopTimer"
  /\ holder[TimersMutex] = Nobody
  /\ object' = [object EXCEPT ![dying] = "gone"]
  /\ exit' = "exchanges"
  /\ ended' = IF session[dying] = "closed" THEN "no" ELSE "aborted"

Destructors ==
  /\ ended = "no" /\ exiting # Nobody
  /\ \/ DestroyManagers /\ UNCHANGED <<dying, object, connections, ended>>
     \/ \E e \in Exchanges : DestroyExchange(e) /\ UNCHANGED <<gone, connections, ended>>
     \/ (BaseDisconnects \/ BaseCloses) /\ UNCHANGED <<dying, gone, object, ended>>
     \/ StopValidityTimer /\ UNCHANGED <<dying, gone, connections>>
     \/ exit = "done" /\ ended' = "exited" /\ UNCHANGED <<exit, dying, gone, object, connections>>
  /\ UNCHANGED <<mainThread, flags, locking, io, exiting, forced, code>>

(* What a thread does with an object that was destroyed under it is        *)
(* undefined: it may go on, or end the process.                            *)
UsesDestroyed(t) ==
  IF t = Main
    THEN /\ main \in {"timers", "callbacks", "graceful", "final"}
         /\ \E e \in Exchanges : object[e] # "whole"
    ELSE io[t] = "inside" /\ gone \cap {"orders", "books", "timers"} # {}
UseDestroyed(t) ==
  /\ Runs(t)
  /\ UsesDestroyed(t)
  /\ ended' = "undefined"
  /\ UNCHANGED <<mainThread, flags, locking, connections, io, object, exitPath>>

-----------------------------------------------------------------------------
Init ==
  /\ main = "connect" /\ at = 1
  /\ running = TRUE /\ requested = FALSE
  /\ handler = [t \in Threads |-> "none"] /\ signals = 0
  /\ holder = [m \in Mutexes |-> Nobody]
  /\ wants = [t \in Threads |-> 0]
  /\ session = [e \in Exchanges |-> "closed"]
  /\ closing = [e \in Exchanges |-> Nobody]
  /\ io = [e \in Exchanges |-> "none"]
  /\ object = [e \in Exchanges |-> "whole"]
  /\ exiting = Nobody /\ exit = "none" /\ dying = Nobody
  /\ forced = FALSE /\ code = 0 /\ gone = {}
  /\ ended = "no"

MainGoesOn == StartUp \/ MainLoop \/ DisconnectAll

Next ==
  \/ MainGoesOn
  \/ \E e \in Exchanges : IoThread(e)
  \/ \E t \in Threads : 
       UseMutexes(t) \/ Signal(t) \/ SignalHandler(t) \/ UseDestroyed(t)
  \/ Destructors

Spec == Init /\ [][Next]_vars

(* A thread goes on, but nothing says that a callback, a handler or the    *)
(* closing of a connection ends: a callback may lock the log twice, a      *)
(* server need not answer.                                                 *)
Underway(t) ==
  IF t = exiting THEN exit = "closing" /\ session[dying] = "closing"
  ELSE IF t = Main THEN
    \/ main \in {"connect", "subscribe", "callbacks"} /\ wants[t] = 0
    \/ \E e \in Exchanges : session[e] = "closing" /\ closing[e] = Main
  ELSE io[t] = "inside" /\ wants[t] = 0

(* It is not passed over for ever at a mutex that is free again and again. *)
(* Nothing makes a server send or a user stop the program; an IO thread    *)
(* that is told to stop leaves though messages are waiting.                *)
Fairness ==
  /\ WF_vars(MainGoesOn /\ ~Underway(Main))
  /\ \A e \in Exchanges : WF_vars(IoThread(e) /\ (io[e] = "received" \/ io'[e] = "none"))
  /\ \A t \in Threads : SF_vars(UseMutexes(t) /\ wants[t] # 0)
  /\ WF_vars(\E t \in Threads : SignalHandler(t))
  /\ WF_vars(Destructors /\ ~Underway(exiting))
  /\ SF_vars(StopValidityTimer /\ Destructors)

FairSpec == Spec /\ Fairness

-----------------------------------------------------------------------------
(* The state of the process has its types.                                 *)
TypeOK ==
  /\ main \in {"connect", "subscribe", "loop", "timers", "callbacks",
               "requested", "graceful", "final", "returned"}
  /\ at \in 1..Nobody
  /\ running \in BOOLEAN /\ requested \in BOOLEAN
  /\ handler \in [Threads -> {"none", "tested", "requested"}]
  /\ signals \in 0..MaxSignals
  /\ holder \in [Mutexes -> Threads \cup {Nobody}]
  /\ wants \in [Threads -> 0..Locks]
  /\ session \in [Exchanges -> {"closed", "open", "closing", "stopped"}]
  /\ closing \in [Exchanges -> Threads \cup {Nobody}]
  /\ io \in [Exchanges -> {"none", "waiting", "received", "inside"}]
  /\ object \in [Exchanges -> {"whole", "base", "gone"}]
  /\ exiting \in Threads \cup {Nobody}
  /\ exit \in {"none", "balances", "exchanges", "disconnect", "closing", "stopTimer",
               "orders", "books", "timers", "done"}
  /\ dying \in 1..Nobody
  /\ forced \in BOOLEAN /\ code \in {0, 1}
  /\ gone \subseteq {"balances", "orders", "books", "timers"}
  /\ ended \in {"no", "exited", "aborted", "undefined"}

(* Whenever main itself returns, also after a start that failed half way,  *)
(* no handler of an IO thread uses a manager already destroyed: the        *)
(* exchanges are destroyed, and their threads joined, before what the      *)
(* handlers use (main.cpp 26-30, api_exchange.cpp 50-54).                  *)
ManagersOutliveThreads ==
  ~forced => \A e \in Exchanges :
    io[e] = "inside" => gone \cap {"orders", "books", "timers"} = {}

(* When main returns 0 no IO thread is left, wherever in the start, the    *)
(* loop or its graceful branch the signal came, and the process ends in    *)
(* order (main.cpp 180-211).  After a failed start it need not: a handler  *)
(* may meet an object half destroyed.                                      *)
NoneLeftBehind ==
  exiting = Main /\ ~forced /\ code = 0 =>
    /\ \A e \in Exchanges : session[e] = "closed" /\ io[e] = "none"
    /\ ended \in {"no", "exited"}

(* A signal ends the process, in order or not: the loop ends, every thread *)
(* is joined, every object destroyed (main.cpp 33-42, 150-212).  The       *)
(* exceptions are a callback, a handler or a closing that never ends, and  *)
(* a second signal that interrupts the holder of a mutex: exit may then    *)
(* wait for that mutex, or join a thread that does (api_exchange.cpp       *)
(* 50-54, 221).                                                            *)
SignalEnds ==
  (\A t \in Threads : []<>(ended = "no" => ~Underway(t)))
    => (requested ~> ended # "no" \/ (forced /\ Holds(exiting) # {}))

(* Each exchange, taken alone, is what Session promises, until a forced    *)
(* exit runs on an IO thread, which cannot join itself.                    *)
Phase(e) == IF session[e] = "stopped" THEN "closing" ELSE session[e]
ThreadOf(e) == IF io[e] \in {"received", "inside"} THEN "working" ELSE io[e]
SessionOf(e) == INSTANCE Session WITH phase <- Phase(e), thread <- ThreadOf(e)
SessionsKept ==
  [][\A e \in Exchanges :
       exiting' = e \/ SessionOf(e)!Next \/ UNCHANGED <<Phase(e), ThreadOf(e)>>]_vars
=============================================================================
