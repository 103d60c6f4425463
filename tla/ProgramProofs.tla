--------------------------- MODULE ProgramProofs ---------------------------
(***************************************************************************)
(* Theorems about Program, for any number of exchanges and of signals:     *)
(* types; when main returns no manager is destroyed under a handler; when  *)
(* it returns 0 nobody is left behind.                                     *)
(***************************************************************************)
EXTENDS Program, TLAPS

Managers == {"orders", "books", "timers"}
InLoop == {"loop", "timers", "callbacks", "requested"}
Destroying == {"orders", "books", "timers", "done"}

(* Who is inside exit, and that nothing is destroyed before.               *)
ExitOnce ==
  /\ forced => exiting # Nobody
  /\ exiting = Nobody => exit = "none" /\ gone = {}
  /\ exiting = Nobody => \A e \in Exchanges : object[e] = "whole"
  /\ ~forced => exiting \in {Main, Nobody}
  /\ ~forced /\ exiting = Main => main = "returned"
  /\ exit \in {"disconnect", "closing", "stopTimer"} => dying \in Exchanges

(* Without a forced exit only main disconnects, and it joins.              *)
MainDisconnects ==
  ~forced => \A e \in Exchanges :
    /\ closing[e] = Main <=> session[e] \in {"closing", "stopped"}
    /\ session[e] = "closed" => io[e] = "none"

(* The exchanges are closed before the managers go.                        *)
ClosedFirst ==
  ~forced =>
    /\ ended = "no" => \A e \in Exchanges : object[e] = "gone" => session[e] = "closed"
    /\ exit \in Destroying => \A e \in Exchanges : session[e] = "closed"
    /\ gone \cap Managers # {} => exit \in Destroying

(* The loop over the exchanges has closed those before at.                 *)
ClosedSoFar ==
  ~forced =>
    /\ main \in InLoop => at = 1
    /\ main \in {"graceful", "final"} =>
         \A e \in Exchanges : e < at => session[e] = "closed"

(* What the disjuncts of DisconnectAll, and those of Destructors, share.    *)
Disconnects ==
  /\ Runs(Main) /\ main \in {"graceful", "final"}
  /\ UNCHANGED <<flags, locking, io, object>>
Destroys ==
  /\ ended = "no" /\ exiting # Nobody
  /\ UNCHANGED <<mainThread, flags, locking, io, exiting, forced, code>>

(* TypeOK in four parts.                                                   *)
MainTypes ==
  /\ main \in {"connect", "subscribe", "loop", "timers", "callbacks",
               "requested", "graceful", "final", "returned"}
  /\ at \in 1..Nobody
  /\ running \in BOOLEAN /\ requested \in BOOLEAN
  /\ handler \in [Threads -> {"none", "tested", "requested"}]
  /\ signals \in 0..MaxSignals
LockTypes ==
  /\ holder \in [Mutexes -> Threads \cup {Nobody}]
  /\ wants \in [Threads -> 0..Locks]
ConnectionTypes ==
  /\ session \in [Exchanges -> {"closed", "open", "closing", "stopped"}]
  /\ closing \in [Exchanges -> Threads \cup {Nobody}]
  /\ io \in [Exchanges -> {"none", "waiting", "received", "inside"}]
  /\ object \in [Exchanges -> {"whole", "base", "gone"}]
ExitTypes ==
  /\ exiting \in Threads \cup {Nobody}
  /\ exit \in {"none", "balances", "exchanges", "disconnect", "closing", "stopTimer",
               "orders", "books", "timers", "done"}
  /\ dying \in 1..Nobody
  /\ forced \in BOOLEAN /\ code \in {0, 1}
  /\ gone \subseteq {"balances", "orders", "books", "timers"}
  /\ ended \in {"no", "exited", "aborted", "undefined"}

IInv ==
  /\ MainTypes /\ ConnectionTypes /\ ExitTypes
  /\ ExitOnce /\ MainDisconnects /\ ClosedFirst /\ ClosedSoFar /\ NoneLeftBehind

-----------------------------------------------------------------------------
(* Main, nobody and the exchanges are distinct numbers.                    *)
LEMMA Numbers ==
  /\ N \in Nat \ {0} /\ Locks \in Nat \ {0} /\ MaxSignals \in Nat
  /\ Main = 0 /\ Nobody = N + 1 /\ Main # Nobody
  /\ Main \notin Exchanges /\ Nobody \notin Exchanges
  /\ Exchanges = 1..N /\ Threads = 0..N /\ Nobody \notin Threads
BY ProgramBounds DEF Main, Nobody, Exchanges, Threads

(* The four parts together are TypeOK.                                     *)
LEMMA TypesTogether ==
  TypeOK <=> MainTypes /\ LockTypes /\ ConnectionTypes /\ ExitTypes
BY Zenon DEF TypeOK, MainTypes, LockTypes, ConnectionTypes, ExitTypes

(* At the start nothing is connected and nothing destroyed.                *)
LEMMA InitInv == Init => IInv
<1> SUFFICES ASSUME Init PROVE IInv
  OBVIOUS
<1> USE Numbers DEF Init
<1>1. MainTypes
  <2>1. main = "connect" /\ at \in 1..Nobody
    OBVIOUS
  <2>2. running \in BOOLEAN /\ requested \in BOOLEAN
    OBVIOUS
  <2>3. handler \in [Threads -> {"none", "tested", "requested"}] /\ signals \in 0..MaxSignals
    OBVIOUS
  <2>4. QED
    BY <2>1, <2>2, <2>3 DEF MainTypes
<1>2. ConnectionTypes
  BY DEF ConnectionTypes
<1>3. ExitTypes
  <2>1. exiting \in Threads \cup {Nobody} /\ dying \in 1..Nobody
    OBVIOUS
  <2>2. forced \in BOOLEAN /\ code \in {0, 1}
    OBVIOUS
  <2>3. exit = "none" /\ gone = {} /\ ended = "no"
    OBVIOUS
  <2>4. QED
    BY <2>1, <2>2, <2>3 DEF ExitTypes
<1>4. ExitOnce
  BY DEF ExitOnce
<1>5. MainDisconnects
  BY DEF MainDisconnects
<1>6. ClosedFirst
  BY DEF ClosedFirst, Managers, Destroying
<1>7. ClosedSoFar /\ NoneLeftBehind
  BY DEF ClosedSoFar, NoneLeftBehind, InLoop
<1>8. QED
  BY <1>1, <1>2, <1>3, <1>4, <1>5, <1>6, <1>7 DEF IInv

(* No step.                                                                *)
LEMMA StutterInv ==
  ASSUME IInv,
         UNCHANGED vars
  PROVE  IInv'
<1> USE Numbers DEF IInv, vars, flags, mainThread, locking, connections, exitPath
<1>1. MainTypes'
  BY DEF MainTypes
<1>2. ConnectionTypes'
  BY DEF ConnectionTypes
<1>3. ExitTypes'
  BY DEF ExitTypes, ConnectionTypes
<1>4. ExitOnce'
  BY DEF ExitOnce, MainTypes, ConnectionTypes, ExitTypes
<1>5. MainDisconnects'
  BY DEF MainDisconnects, ConnectionTypes, ExitOnce, ExitTypes
<1>6. ClosedFirst'
  BY DEF ClosedFirst, ConnectionTypes, ExitOnce, ExitTypes, MainDisconnects,
       Managers, Destroying
<1>7. ClosedSoFar'
  BY DEF ClosedSoFar, MainTypes, ConnectionTypes, ExitOnce, MainDisconnects,
       InLoop
<1>8. NoneLeftBehind'
  BY DEF NoneLeftBehind, MainTypes, ConnectionTypes, ExitTypes, ExitOnce,
       MainDisconnects, ClosedFirst, ClosedSoFar, Managers, InLoop
<1>9. QED
  BY <1>1, <1>2, <1>3, <1>4, <1>5, <1>6, <1>7, <1>8

(* A step of the start.                                                    *)
LEMMA StartUpInv ==
  ASSUME IInv,
         StartUp,
         Connect \/ Subscribe \/ AllDone
  PROVE  IInv'
<1> USE Numbers DEF IInv, StartUp, Connect, Subscribe, AllDone, Runs, flags,
     mainThread, connections, exitPath
<1>1. MainTypes'
  BY DEF MainTypes
<1>2. ConnectionTypes'
  BY DEF ConnectionTypes
<1>3. ExitTypes'
  BY DEF ExitTypes, ConnectionTypes
<1>4. ExitOnce'
  <2>1. forced' = forced /\ exiting' = exiting /\ exiting # Main
    OBVIOUS
  <2>2. exit' = exit /\ gone' = gone /\ dying' = dying /\ object' = object
    OBVIOUS
  <2>3. QED
    BY <2>1, <2>2 DEF ExitOnce
<1>5. MainDisconnects'
  BY DEF MainDisconnects, ConnectionTypes, ExitOnce, ExitTypes
<1>6. ClosedFirst'
  BY DEF ClosedFirst, ConnectionTypes, ExitOnce, ExitTypes, MainDisconnects,
       Managers, Destroying
<1>7. ClosedSoFar'
  BY DEF ClosedSoFar, MainTypes, ConnectionTypes, ExitOnce, MainDisconnects,
       InLoop
<1>8. NoneLeftBehind'
  BY DEF NoneLeftBehind, MainTypes, ConnectionTypes, ExitTypes, ExitOnce,
       MainDisconnects, ClosedFirst, ClosedSoFar, Managers, InLoop
<1>9. QED
  BY <1>1, <1>2, <1>3, <1>4, <1>5, <1>6, <1>7, <1>8

(* A start that fails.                                                     *)
LEMMA OneFailsInv ==
  ASSUME IInv,
         Runs(Main),
         OneFails,
         UNCHANGED <<flags, object>>
  PROVE  IInv'
<1> USE Numbers DEF IInv, OneFails, Return, BeginExit, Runs, flags, mainThread,
     connections, exitPath
<1>1. MainTypes'
  BY DEF MainTypes
<1>2. ConnectionTypes'
  BY DEF ConnectionTypes
<1>3. ExitTypes'
  <2>1. /\ exiting' \in Threads \cup {Nobody} /\ code' \in {0, 1} /\ dying' = dying
        /\ exit' \in {exit, "balances"} /\ ended' \in {ended, "undefined"} /\ gone' = gone
    BY DEF ExitTypes
  <2>2. forced' \in BOOLEAN
    BY DEF ExitTypes
  <2>3. QED
    BY <2>1, <2>2 DEF ExitTypes
<1>4. ExitOnce'
  BY DEF ExitOnce, MainTypes, ConnectionTypes, ExitTypes
<1>5. MainDisconnects'
  BY DEF MainDisconnects, ConnectionTypes, ExitOnce, ExitTypes
<1>6. ClosedFirst'
  BY DEF ClosedFirst, ConnectionTypes, ExitOnce, ExitTypes, MainDisconnects,
       Managers, Destroying
<1>7. ClosedSoFar'
  BY DEF ClosedSoFar, MainTypes, ConnectionTypes, ExitOnce, MainDisconnects,
       InLoop
<1>8. NoneLeftBehind'
  BY DEF NoneLeftBehind, MainTypes, ConnectionTypes, ExitTypes, ExitOnce,
       MainDisconnects, ClosedFirst, ClosedSoFar, Managers, InLoop
<1>9. QED
  BY <1>1, <1>2, <1>3, <1>4, <1>5, <1>6, <1>7, <1>8

(* The loop.                                                               *)
LEMMA MainLoopInv ==
  ASSUME IInv,
         MainLoop
  PROVE  IInv'
<1> USE Numbers DEF IInv, MainLoop, LoopTest, CheckTimers, Collected,
     CallbacksDone, CallbackThrows, RequestedTest,
     Runs, flags, mainThread, connections, exitPath
<1>1. MainTypes'
  BY DEF MainTypes
<1>2. ConnectionTypes'
  BY DEF ConnectionTypes
<1>3. ExitTypes'
  BY DEF ExitTypes, ConnectionTypes
<1>4. ExitOnce'
  BY DEF ExitOnce, MainTypes, ConnectionTypes, ExitTypes
<1>5. MainDisconnects'
  BY DEF MainDisconnects, ConnectionTypes, ExitOnce, ExitTypes
<1>6. ClosedFirst'
  BY DEF ClosedFirst, ConnectionTypes, ExitOnce, ExitTypes, MainDisconnects,
       Managers, Destroying
<1>7. ClosedSoFar'
  BY DEF ClosedSoFar, MainTypes, ConnectionTypes, ExitOnce, MainDisconnects,
       InLoop
<1>8. NoneLeftBehind'
  BY DEF NoneLeftBehind, MainTypes, ConnectionTypes, ExitTypes, ExitOnce,
       MainDisconnects, ClosedFirst, ClosedSoFar, Managers, InLoop
<1>9. QED
  BY <1>1, <1>2, <1>3, <1>4, <1>5, <1>6, <1>7, <1>8

(* Main inside disconnect().                                               *)
LEMMA MainDisconnectInv ==
  ASSUME IInv,
         Disconnects,
         at \in Exchanges,
         DisconnectStep(Main, at),
         UNCHANGED <<mainThread, exitPath, ended>>
  PROVE  IInv'
<1> USE Numbers DEF IInv, Disconnects, DisconnectStep, BeginDisconnect,
     StopContext, Join, Runs, flags, mainThread, connections, exitPath
<1>1. MainTypes'
  BY DEF MainTypes
<1>2. ConnectionTypes'
  <2>1. \E s \in {"closed", "open", "closing", "stopped"}, c \in Threads \cup {Nobody} :
          /\ session' = [session EXCEPT ![at] = s]
          /\ closing' = closing \/ closing' = [closing EXCEPT ![at] = c]
    OBVIOUS
  <2>2. QED
    BY <2>1 DEF ConnectionTypes
<1>3. ExitTypes'
  BY DEF ExitTypes, ConnectionTypes
<1>4. ExitOnce'
  BY DEF ExitOnce, MainTypes, ConnectionTypes, ExitTypes
<1>5. MainDisconnects'
  <2>1. session' = [session EXCEPT ![at] = session'[at]]
        /\ closing' = [closing EXCEPT ![at] = closing'[at]] /\ io' = io
    BY DEF ConnectionTypes
  <2>2. ASSUME ~forced PROVE closing'[at] = Main <=> session'[at] \in {"closing", "stopped"}
    BY <2>2 DEF MainDisconnects, ConnectionTypes, ExitOnce, ExitTypes
  <2>3. ASSUME ~forced, session'[at] = "closed" PROVE io[at] = "none"
    BY <2>3 DEF MainDisconnects, ConnectionTypes, ExitOnce, ExitTypes
  <2>4. QED
    BY <2>1, <2>2, <2>3 DEF MainDisconnects, ConnectionTypes, ExitOnce,
         ExitTypes
<1>6. ClosedFirst'
  BY DEF ClosedFirst, ConnectionTypes, ExitOnce, ExitTypes, MainDisconnects,
       Managers, Destroying
<1>7. ClosedSoFar'
  BY DEF ClosedSoFar, MainTypes, ConnectionTypes, ExitOnce, MainDisconnects,
       InLoop
<1>8. NoneLeftBehind'
  BY DEF NoneLeftBehind, MainTypes, ConnectionTypes, ExitTypes, ExitOnce,
       MainDisconnects, ClosedFirst, ClosedSoFar, Managers, InLoop
<1>9. QED
  BY <1>1, <1>2, <1>3, <1>4, <1>5, <1>6, <1>7, <1>8

(* Main goes on to the next exchange.                                      *)
LEMMA NextExchangeInv ==
  ASSUME IInv,
         Disconnects,
         NextExchange,
         UNCHANGED <<main, connections, exitPath, ended>>
  PROVE  IInv'
<1> USE Numbers DEF IInv, Disconnects, NextExchange, Disconnected, Runs, flags,
     mainThread, connections, exitPath
<1>1. MainTypes'
  BY DEF MainTypes
<1>2. ConnectionTypes'
  BY DEF ConnectionTypes
<1>3. ExitTypes'
  BY DEF ExitTypes, ConnectionTypes
<1>4. ExitOnce'
  BY DEF ExitOnce, MainTypes, ConnectionTypes, ExitTypes
<1>5. MainDisconnects'
  BY DEF MainDisconnects, ConnectionTypes, ExitOnce, ExitTypes
<1>6. ClosedFirst'
  BY DEF ClosedFirst, ConnectionTypes, ExitOnce, ExitTypes, MainDisconnects,
       Managers, Destroying
<1>7. ClosedSoFar'
  BY DEF ClosedSoFar, MainTypes, ConnectionTypes, ExitOnce, MainDisconnects,
       InLoop
<1>8. NoneLeftBehind'
  BY DEF NoneLeftBehind, MainTypes, ConnectionTypes, ExitTypes, ExitOnce,
       MainDisconnects, ClosedFirst, ClosedSoFar, Managers, InLoop
<1>9. QED
  BY <1>1, <1>2, <1>3, <1>4, <1>5, <1>6, <1>7, <1>8

(* Main has disconnected all.                                              *)
LEMMA AllDisconnectedInv ==
  ASSUME IInv,
         Disconnects,
         AllDisconnected,
         UNCHANGED connections
  PROVE  IInv'
<1> USE Numbers DEF IInv, Disconnects, AllDisconnected, Return, BeginExit, Runs,
     flags, mainThread, connections, exitPath
<1>1. MainTypes'
  BY DEF MainTypes
<1>2. ConnectionTypes'
  BY DEF ConnectionTypes
<1>3. ExitTypes'
  <2>1. /\ exiting' \in Threads \cup {Nobody} /\ code' \in {0, 1} /\ dying' = dying
        /\ exit' \in {exit, "balances"} /\ ended' \in {ended, "undefined"} /\ gone' = gone
    BY DEF ExitTypes
  <2>2. forced' \in BOOLEAN
    BY DEF ExitTypes
  <2>3. QED
    BY <2>1, <2>2 DEF ExitTypes
<1>4. ExitOnce'
  BY DEF ExitOnce, MainTypes, ConnectionTypes, ExitTypes
<1>5. MainDisconnects'
  BY DEF MainDisconnects, ConnectionTypes, ExitOnce, ExitTypes
<1>6. ClosedFirst'
  BY DEF ClosedFirst, ConnectionTypes, ExitOnce, ExitTypes, MainDisconnects,
       Managers, Destroying
<1>7. ClosedSoFar'
  BY DEF ClosedSoFar, MainTypes, ConnectionTypes, ExitOnce, MainDisconnects,
       InLoop
<1>8. NoneLeftBehind'
  BY DEF NoneLeftBehind, MainTypes, ConnectionTypes, ExitTypes, ExitOnce,
       MainDisconnects, ClosedFirst, ClosedSoFar, Managers, InLoop
<1>9. QED
  BY <1>1, <1>2, <1>3, <1>4, <1>5, <1>6, <1>7, <1>8

(* An IO thread.                                                           *)
LEMMA IoThreadInv ==
  ASSUME IInv,
         \E e \in Exchanges : IoThread(e)
  PROVE  IInv'
<1> USE Numbers DEF IInv, IoThread, Receive, ProcessMessage, Processed, LeaveRun, Runs, flags,
     mainThread, connections, exitPath
<1>1. MainTypes'
  BY DEF MainTypes
<1>2. ConnectionTypes'
  <2>1. \E e \in Exchanges, s \in {"none", "waiting", "received", "inside"} :
          io' = io \/ io' = [io EXCEPT ![e] = s]
    OBVIOUS
  <2>2. session' = session /\ closing' = closing /\ object' = object
    OBVIOUS
  <2>3. QED
    BY <2>1, <2>2 DEF ConnectionTypes
<1>3. ExitTypes'
  BY DEF ExitTypes, ConnectionTypes
<1>4. ExitOnce'
  BY DEF ExitOnce, MainTypes, ConnectionTypes, ExitTypes
<1>5. MainDisconnects'
  BY DEF MainDisconnects, ConnectionTypes, ExitOnce, ExitTypes
<1>6. ClosedFirst'
  BY DEF ClosedFirst, ConnectionTypes, ExitOnce, ExitTypes, MainDisconnects,
       Managers, Destroying
<1>7. ClosedSoFar'
  BY DEF ClosedSoFar, MainTypes, ConnectionTypes, ExitOnce, MainDisconnects,
       InLoop
<1>8. NoneLeftBehind'
  BY DEF NoneLeftBehind, MainTypes, ConnectionTypes, ExitTypes, ExitOnce,
       MainDisconnects, ClosedFirst, ClosedSoFar, Managers, InLoop
<1>9. QED
  BY <1>1, <1>2, <1>3, <1>4, <1>5, <1>6, <1>7, <1>8

(* A thread takes a mutex, or waits for one.                               *)
LEMMA UseMutexesInv ==
  ASSUME IInv,
         \E t \in Threads : UseMutexes(t)
  PROVE  IInv'
<1> USE Numbers DEF IInv, UseMutexes, flags, mainThread, connections, exitPath
<1>1. MainTypes'
  BY DEF MainTypes
<1>2. ConnectionTypes'
  BY DEF ConnectionTypes
<1>3. ExitTypes'
  BY DEF ExitTypes, ConnectionTypes
<1>4. ExitOnce'
  BY DEF ExitOnce, MainTypes, ConnectionTypes, ExitTypes
<1>5. MainDisconnects'
  BY DEF MainDisconnects, ConnectionTypes, ExitOnce, ExitTypes
<1>6. ClosedFirst'
  BY DEF ClosedFirst, ConnectionTypes, ExitOnce, ExitTypes, MainDisconnects,
       Managers, Destroying
<1>7. ClosedSoFar'
  BY DEF ClosedSoFar, MainTypes, ConnectionTypes, ExitOnce, MainDisconnects,
       InLoop
<1>8. NoneLeftBehind'
  BY DEF NoneLeftBehind, MainTypes, ConnectionTypes, ExitTypes, ExitOnce,
       MainDisconnects, ClosedFirst, ClosedSoFar, Managers, InLoop
<1>9. QED
  BY <1>1, <1>2, <1>3, <1>4, <1>5, <1>6, <1>7, <1>8

(* A signal, which may force the exit.                                     *)
LEMMA SignalInv ==
  ASSUME IInv,
         \E t \in Threads : Signal(t)
  PROVE  IInv'
<1> USE Numbers DEF IInv, Signal, BeginExit, Runs, flags, mainThread,
     connections, exitPath
<1>1. MainTypes'
  BY DEF MainTypes
<1>2. ConnectionTypes'
  BY DEF ConnectionTypes
<1>3. ExitTypes'
  BY DEF ExitTypes, ConnectionTypes
<1>4. ExitOnce'
  <2>1. PICK t \in Threads : Signal(t)
    OBVIOUS
  <2>2. t # Nobody /\ object' = object /\ main' = main
    BY <2>1
  <2>3. CASE requested
    <3>1. exiting' = t /\ exit' = "balances" /\ forced' = TRUE
      BY <2>1, <2>3
    <3>2. QED
      BY <2>2, <3>1 DEF ExitOnce
  <2>4. CASE ~requested
    <3>1. exiting' = exiting /\ exit' = exit /\ forced' = forced /\ gone' = gone /\ dying' = dying
      BY <2>1, <2>4
    <3>2. QED
      BY <2>2, <3>1 DEF ExitOnce
  <2>5. QED
    BY <2>3, <2>4
<1>5. MainDisconnects'
  BY DEF MainDisconnects, ConnectionTypes, ExitOnce, ExitTypes
<1>6. ClosedFirst'
  BY DEF ClosedFirst, ConnectionTypes, ExitOnce, ExitTypes, MainDisconnects,
       Managers, Destroying
<1>7. ClosedSoFar'
  BY DEF ClosedSoFar, MainTypes, ConnectionTypes, ExitOnce, MainDisconnects,
       InLoop
<1>8. NoneLeftBehind'
  BY DEF NoneLeftBehind, MainTypes, ConnectionTypes, ExitTypes, ExitOnce,
       MainDisconnects, ClosedFirst, ClosedSoFar, Managers, InLoop
<1>9. QED
  BY <1>1, <1>2, <1>3, <1>4, <1>5, <1>6, <1>7, <1>8

(* The rest of the handler.                                                *)
LEMMA SignalHandlerInv ==
  ASSUME IInv,
         \E t \in Threads : SignalHandler(t)
  PROVE  IInv'
<1> USE Numbers DEF IInv, SignalHandler, SetRequested, ClearRunning, flags,
     mainThread, connections, exitPath
<1>1. MainTypes'
  BY DEF MainTypes
<1>2. ConnectionTypes'
  BY DEF ConnectionTypes
<1>3. ExitTypes'
  BY DEF ExitTypes, ConnectionTypes
<1>4. ExitOnce'
  BY DEF ExitOnce, MainTypes, ConnectionTypes, ExitTypes
<1>5. MainDisconnects'
  BY DEF MainDisconnects, ConnectionTypes, ExitOnce, ExitTypes
<1>6. ClosedFirst'
  BY DEF ClosedFirst, ConnectionTypes, ExitOnce, ExitTypes, MainDisconnects,
       Managers, Destroying
<1>7. ClosedSoFar'
  BY DEF ClosedSoFar, MainTypes, ConnectionTypes, ExitOnce, MainDisconnects,
       InLoop
<1>8. NoneLeftBehind'
  BY DEF NoneLeftBehind, MainTypes, ConnectionTypes, ExitTypes, ExitOnce,
       MainDisconnects, ClosedFirst, ClosedSoFar, Managers, InLoop
<1>9. QED
  BY <1>1, <1>2, <1>3, <1>4, <1>5, <1>6, <1>7, <1>8

(* An object used after its end.                                           *)
LEMMA UseDestroyedInv ==
  ASSUME IInv,
         \E t \in Threads : UseDestroyed(t)
  PROVE  IInv'
<1> USE Numbers DEF IInv, UseDestroyed, UsesDestroyed, Runs, flags, mainThread,
     connections, exitPath
<1>1. MainTypes'
  BY DEF MainTypes
<1>2. ConnectionTypes'
  BY DEF ConnectionTypes
<1>3. ExitTypes'
  BY DEF ExitTypes, ConnectionTypes
<1>4. ExitOnce'
  BY DEF ExitOnce, MainTypes, ConnectionTypes, ExitTypes
<1>5. MainDisconnects'
  BY DEF MainDisconnects, ConnectionTypes, ExitOnce, ExitTypes
<1>6. ClosedFirst'
  BY DEF ClosedFirst, ConnectionTypes, ExitOnce, ExitTypes, MainDisconnects,
       Managers, Destroying
<1>7. ClosedSoFar'
  BY DEF ClosedSoFar, MainTypes, ConnectionTypes, ExitOnce, MainDisconnects,
       InLoop
<1>8. NoneLeftBehind'
  BY DEF NoneLeftBehind, MainTypes, ConnectionTypes, ExitTypes, ExitOnce,
       MainDisconnects, ClosedFirst, ClosedSoFar, Managers, InLoop
<1>9. QED
  BY <1>1, <1>2, <1>3, <1>4, <1>5, <1>6, <1>7, <1>8

(* A manager is destroyed.                                                 *)
LEMMA DestroyManagersInv ==
  ASSUME IInv,
         Destroys,
         DestroyManagers,
         UNCHANGED <<dying, object, connections, ended>>
  PROVE  IInv'
<1> USE Numbers DEF IInv, Destroys, DestroyManagers, flags, mainThread,
     connections, exitPath
<1>1. MainTypes'
  BY DEF MainTypes
<1>2. ConnectionTypes'
  BY DEF ConnectionTypes
<1>3. ExitTypes'
  BY DEF ExitTypes, ConnectionTypes
<1>4. ExitOnce'
  BY DEF ExitOnce, MainTypes, ConnectionTypes, ExitTypes
<1>5. MainDisconnects'
  BY DEF MainDisconnects, ConnectionTypes, ExitOnce, ExitTypes
<1>6. ClosedFirst'
  BY DEF ClosedFirst, ConnectionTypes, ExitOnce, ExitTypes, MainDisconnects,
       Managers, Destroying
<1>7. ClosedSoFar'
  BY DEF ClosedSoFar, MainTypes, ConnectionTypes, ExitOnce, MainDisconnects,
       InLoop
<1>8. NoneLeftBehind'
  BY DEF NoneLeftBehind, MainTypes, ConnectionTypes, ExitTypes, ExitOnce,
       MainDisconnects, ClosedFirst, ClosedSoFar, Managers, InLoop
<1>9. QED
  BY <1>1, <1>2, <1>3, <1>4, <1>5, <1>6, <1>7, <1>8

(* An exchange is to be destroyed.                                         *)
LEMMA DestroyExchangeInv ==
  ASSUME IInv,
         Destroys,
         \E e \in Exchanges : DestroyExchange(e),
         UNCHANGED <<gone, connections, ended>>
  PROVE  IInv'
<1> USE Numbers DEF IInv, Destroys, DestroyExchange, flags, mainThread,
     connections, exitPath
<1>1. MainTypes'
  BY DEF MainTypes
<1>2. ConnectionTypes'
  BY DEF ConnectionTypes
<1>3. ExitTypes'
  BY DEF ExitTypes, ConnectionTypes
<1>4. ExitOnce'
  BY DEF ExitOnce, MainTypes, ConnectionTypes, ExitTypes
<1>5. MainDisconnects'
  BY DEF MainDisconnects, ConnectionTypes, ExitOnce, ExitTypes
<1>6. ClosedFirst'
  BY DEF ClosedFirst, ConnectionTypes, ExitOnce, ExitTypes, MainDisconnects,
       Managers, Destroying
<1>7. ClosedSoFar'
  BY DEF ClosedSoFar, MainTypes, ConnectionTypes, ExitOnce, MainDisconnects,
       InLoop
<1>8. NoneLeftBehind'
  BY DEF NoneLeftBehind, MainTypes, ConnectionTypes, ExitTypes, ExitOnce,
       MainDisconnects, ClosedFirst, ClosedSoFar, Managers, InLoop
<1>9. QED
  BY <1>1, <1>2, <1>3, <1>4, <1>5, <1>6, <1>7, <1>8

(* The destructor inside disconnect().                                     *)
LEMMA DestructorDisconnectsInv ==
  ASSUME IInv,
         Destroys,
         BaseDisconnects \/ BaseCloses,
         UNCHANGED <<dying, gone, object, ended>>
  PROVE  IInv'
<1> USE Numbers DEF IInv, Destroys, BaseDisconnects, BaseCloses, BeginDisconnect,
     StopContext, Join, flags, mainThread, connections, exitPath
<1>1. MainTypes'
  BY DEF MainTypes
<1>2. ConnectionTypes'
  <2>1. dying \in Exchanges /\ exiting \in Threads
    BY DEF ExitOnce, ExitTypes
  <2>2. \E s \in {"closed", "open", "closing", "stopped"}, c \in Threads \cup {Nobody} :
          /\ session' = [session EXCEPT ![dying] = s]
          /\ closing' = closing \/ closing' = [closing EXCEPT ![dying] = c]
    <3>1. CASE BaseDisconnects /\ session[dying] # "open"
      <4>1. session' = session /\ closing' = closing
        BY <3>1
      <4>2. session' = [session EXCEPT ![dying] = session[dying]]
            /\ session[dying] \in {"closed", "open", "closing", "stopped"}
        BY <2>1, <4>1 DEF ConnectionTypes
      <4>3. QED
        BY <2>1, <4>1, <4>2
    <3>2. CASE BaseDisconnects /\ session[dying] = "open"
      BY <2>1, <3>2
    <3>3. CASE BaseCloses
      BY <2>1, <3>3
    <3>4. QED
      BY <3>1, <3>2, <3>3
  <2>3. QED
    BY <2>1, <2>2 DEF ConnectionTypes
<1>3. ExitTypes'
  BY DEF ExitTypes, ConnectionTypes
<1>4. ExitOnce'
  BY DEF ExitOnce, MainTypes, ConnectionTypes, ExitTypes
<1>5. MainDisconnects'
  <2>1. session' = [session EXCEPT ![dying] = session'[dying]]
        /\ closing' = [closing EXCEPT ![dying] = closing'[dying]] /\ io' = io
    BY DEF ConnectionTypes
  <2>2. ASSUME ~forced PROVE closing'[dying] = Main <=> session'[dying] \in {"closing", "stopped"}
    BY <2>2 DEF MainDisconnects, ConnectionTypes, ExitOnce, ExitTypes
  <2>3. ASSUME ~forced, session'[dying] = "closed" PROVE io[dying] = "none"
    BY <2>3 DEF MainDisconnects, ConnectionTypes, ExitOnce, ExitTypes
  <2>4. QED
    BY <2>1, <2>2, <2>3 DEF MainDisconnects, ConnectionTypes, ExitOnce,
         ExitTypes
<1>6. ClosedFirst'
  BY DEF ClosedFirst, ConnectionTypes, ExitOnce, ExitTypes, MainDisconnects,
       Managers, Destroying
<1>7. ClosedSoFar'
  BY DEF ClosedSoFar, MainTypes, ConnectionTypes, ExitOnce, MainDisconnects,
       InLoop
<1>8. NoneLeftBehind'
  BY DEF NoneLeftBehind, MainTypes, ConnectionTypes, ExitTypes, ExitOnce,
       MainDisconnects, ClosedFirst, ClosedSoFar, Managers, InLoop
<1>9. QED
  BY <1>1, <1>2, <1>3, <1>4, <1>5, <1>6, <1>7, <1>8

(* The exchange has gone.                                                  *)
LEMMA StopValidityTimerInv ==
  ASSUME IInv,
         Destroys,
         StopValidityTimer,
         UNCHANGED <<dying, gone, connections>>
  PROVE  IInv'
<1> USE Numbers DEF IInv, Destroys, StopValidityTimer, flags, mainThread,
     connections, exitPath
<1>1. MainTypes'
  BY DEF MainTypes
<1>2. ConnectionTypes'
  BY DEF ConnectionTypes
<1>3. ExitTypes'
  BY DEF ExitTypes, ConnectionTypes
<1>4. ExitOnce'
  BY DEF ExitOnce, MainTypes, ConnectionTypes, ExitTypes
<1>5. MainDisconnects'
  BY DEF MainDisconnects, ConnectionTypes, ExitOnce, ExitTypes
<1>6. ClosedFirst'
  BY DEF ClosedFirst, ConnectionTypes, ExitOnce, ExitTypes, MainDisconnects,
       Managers, Destroying
<1>7. ClosedSoFar'
  BY DEF ClosedSoFar, MainTypes, ConnectionTypes, ExitOnce, MainDisconnects,
       InLoop
<1>8. NoneLeftBehind'
  BY DEF NoneLeftBehind, MainTypes, ConnectionTypes, ExitTypes, ExitOnce,
       MainDisconnects, ClosedFirst, ClosedSoFar, Managers, InLoop
<1>9. QED
  BY <1>1, <1>2, <1>3, <1>4, <1>5, <1>6, <1>7, <1>8

(* The process ends in order.                                              *)
LEMMA ExitedInv ==
  ASSUME IInv,
         Destroys,
         exit = "done",
         ended' = "exited",
         UNCHANGED <<exit, dying, gone, object, connections>>
  PROVE  IInv'
<1> USE Numbers DEF IInv, Destroys, Destructors, flags, mainThread, connections,
     exitPath
<1>1. MainTypes'
  BY DEF MainTypes
<1>2. ConnectionTypes'
  BY DEF ConnectionTypes
<1>3. ExitTypes'
  BY DEF ExitTypes, ConnectionTypes
<1>4. ExitOnce'
  BY DEF ExitOnce, MainTypes, ConnectionTypes, ExitTypes
<1>5. MainDisconnects'
  BY DEF MainDisconnects, ConnectionTypes, ExitOnce, ExitTypes
<1>6. ClosedFirst'
  BY DEF ClosedFirst, ConnectionTypes, ExitOnce, ExitTypes, MainDisconnects,
       Managers, Destroying
<1>7. ClosedSoFar'
  BY DEF ClosedSoFar, MainTypes, ConnectionTypes, ExitOnce, MainDisconnects,
       InLoop
<1>8. NoneLeftBehind'
  BY DEF NoneLeftBehind, MainTypes, ConnectionTypes, ExitTypes, ExitOnce,
       MainDisconnects, ClosedFirst, ClosedSoFar, Managers, InLoop
<1>9. QED
  BY <1>1, <1>2, <1>3, <1>4, <1>5, <1>6, <1>7, <1>8

-----------------------------------------------------------------------------
(* Every step keeps the invariant, one case for every action.              *)
LEMMA NextInv == IInv /\ [Next]_vars => IInv'
<1> SUFFICES ASSUME IInv, [Next]_vars PROVE IInv'
  OBVIOUS
<1>1. CASE StartUp
  <2>1. CASE Connect \/ Subscribe \/ AllDone
    BY <1>1, <2>1, StartUpInv
  <2>2. CASE OneFails
    BY <1>1, <2>2, OneFailsInv DEF StartUp
  <2>3. QED
    BY <1>1, <2>1, <2>2 DEF StartUp
<1>2. CASE MainLoop
  BY <1>2, MainLoopInv
<1>3. CASE DisconnectAll
  <2>1. Disconnects
    BY <1>3 DEF DisconnectAll, Disconnects
  <2>2. CASE /\ at \in Exchanges /\ DisconnectStep(Main, at)
             /\ UNCHANGED <<mainThread, exitPath, ended>>
    BY <2>1, <2>2, MainDisconnectInv
  <2>3. CASE NextExchange /\ UNCHANGED <<main, connections, exitPath, ended>>
    BY <2>1, <2>3, NextExchangeInv
  <2>4. CASE AllDisconnected /\ UNCHANGED connections
    BY <2>1, <2>4, AllDisconnectedInv
  <2>5. QED
    BY <1>3, <2>2, <2>3, <2>4 DEF DisconnectAll
<1>4. CASE \E e \in Exchanges : IoThread(e)
  BY <1>4, IoThreadInv
<1>5. CASE \E t \in Threads :
             UseMutexes(t) \/ Signal(t) \/ SignalHandler(t) \/ UseDestroyed(t)
  BY <1>5, UseMutexesInv, SignalInv, SignalHandlerInv, UseDestroyedInv
<1>6. CASE Destructors
  <2>1. Destroys
    BY <1>6 DEF Destructors, Destroys
  <2>2. CASE DestroyManagers /\ UNCHANGED <<dying, object, connections, ended>>
    BY <2>1, <2>2, DestroyManagersInv
  <2>3. CASE /\ \E e \in Exchanges : DestroyExchange(e)
             /\ UNCHANGED <<gone, connections, ended>>
    BY <2>1, <2>3, DestroyExchangeInv
  <2>4. CASE (BaseDisconnects \/ BaseCloses) /\ UNCHANGED <<dying, gone, object, ended>>
    BY <2>1, <2>4, DestructorDisconnectsInv
  <2>6. CASE StopValidityTimer /\ UNCHANGED <<dying, gone, connections>>
    BY <2>1, <2>6, StopValidityTimerInv
  <2>7. CASE /\ exit = "done" /\ ended' = "exited"
             /\ UNCHANGED <<exit, dying, gone, object, connections>>
    BY <2>1, <2>7, ExitedInv
  <2>8. QED
    BY <1>6, <2>2, <2>3, <2>4, <2>6, <2>7 DEF Destructors
<1>7. CASE UNCHANGED vars
  BY <1>7, StutterInv
<1>8. QED
  BY <1>1, <1>2, <1>3, <1>4, <1>5, <1>6, <1>7 DEF Next, MainGoesOn

(* A mutex taken or released by one of the threads.                        *)
LEMMA TakeTypes ==
  ASSUME LockTypes, NEW t \in Threads, NEW m \in Mutexes, Take(t, m)
  PROVE  LockTypes'
<1>1. CASE holder[m] = Nobody
  <2>1. holder' = [holder EXCEPT ![m] = t] /\ wants' = wants
    BY <1>1 DEF Take
  <2>2. QED
    BY <2>1 DEF LockTypes
<1>2. CASE holder[m] # Nobody
  <2>1. wants' = [wants EXCEPT ![t] = m] /\ holder' = holder
    BY <1>2 DEF Take
  <2>2. m \in 0..Locks
    BY Numbers DEF Mutexes
  <2>3. QED
    BY <2>1, <2>2 DEF LockTypes
<1>3. QED
  BY <1>1, <1>2

LEMMA ReleaseTypes ==
  ASSUME LockTypes, NEW t \in Threads, Release(t)
  PROVE  LockTypes'
BY DEF LockTypes, Release, Released

LEMMA UseMutexesTypes ==
  ASSUME LockTypes, NEW t \in Threads, UseMutexes(t)
  PROVE  LockTypes'
<1>1. CASE Lock(t)
  BY <1>1, TakeTypes DEF Lock
<1>2. CASE Obtain(t)
  <2>1. wants[t] \in Mutexes
    BY <1>2, Numbers DEF Obtain, LockTypes, Mutexes
  <2>2. holder' \in [Mutexes -> Threads \cup {Nobody}]
    BY <1>2, <2>1 DEF Obtain, LockTypes
  <2>3. wants' \in [Threads -> 0..Locks]
    BY <1>2, Numbers DEF Obtain, LockTypes
  <2>4. QED
    BY <2>2, <2>3 DEF LockTypes
<1>3. QED
  BY <1>1, <1>2 DEF UseMutexes

(* Mutexes are held, and waited for, by the threads.                       *)
LEMMA LockTypesKept == LockTypes /\ [Next]_vars => LockTypes'
<1> SUFFICES ASSUME LockTypes, [Next]_vars PROVE LockTypes'
  OBVIOUS
<1>1. Main \in Threads /\ Exchanges \subseteq Threads /\ TimersMutex \in Mutexes
  BY Numbers DEF Threads, Mutexes, TimersMutex
<1>2. CASE UNCHANGED locking
  BY <1>2 DEF locking, LockTypes
<1>3. CASE StartUp
  BY <1>1, <1>2, <1>3, ReleaseTypes DEF StartUp, Subscribe
<1>4. CASE MainLoop
  <2>1. CASE CheckTimers
    BY <1>1, <2>1, TakeTypes DEF CheckTimers
  <2>2. CASE Collected \/ CallbacksDone \/ CallbackThrows
    BY <1>1, <2>2, ReleaseTypes DEF Collected, CallbacksDone, CallbackThrows
  <2>3. CASE LoopTest \/ RequestedTest
    BY <1>2, <2>3 DEF LoopTest, RequestedTest
  <2>4. QED
    BY <1>4, <2>1, <2>2, <2>3 DEF MainLoop
<1>5. CASE \E e \in Exchanges : IoThread(e)
  BY <1>1, <1>2, <1>5, ReleaseTypes DEF IoThread, Processed
<1>6. CASE \E t \in Threads : UseMutexes(t)
  BY <1>6, UseMutexesTypes
<1>7. CASE \E t \in Threads : Signal(t) \/ SignalHandler(t) \/ UseDestroyed(t)
  BY <1>2, <1>7 DEF Signal, SignalHandler, UseDestroyed
<1>8. CASE DisconnectAll \/ Destructors \/ UNCHANGED vars
  BY <1>2, <1>8 DEF DisconnectAll, Destructors, vars
<1>9. QED
  BY <1>3, <1>4, <1>5, <1>6, <1>7, <1>8 DEF Next, MainGoesOn

(* The invariant holds in every state of every run.                        *)
THEOREM Inductive == Spec => []IInv
<1>1. Init => IInv
  BY InitInv
<1>2. IInv /\ [Next]_vars => IInv'
  BY NextInv
<1>3. QED
  BY <1>1, <1>2, PTL DEF Spec

(* The state of the process has its types.                                 *)
THEOREM TypeCorrect == Spec => []TypeOK
<1>1. Init => LockTypes
  BY Numbers DEF Init, LockTypes
<1>2. LockTypes /\ [Next]_vars => LockTypes'
  BY LockTypesKept
<1>3. IInv /\ LockTypes => TypeOK
  BY TypesTogether DEF IInv
<1>4. QED
  BY <1>1, <1>2, <1>3, Inductive, PTL DEF Spec

(* When main returns, no handler runs on managers that were destroyed: the *)
(* first of them goes when every exchange is closed, and closed is joined. *)
THEOREM ManagersOutlive == Spec => []ManagersOutliveThreads
<1>1. IInv => ManagersOutliveThreads
  <2> SUFFICES ASSUME IInv, ~forced, NEW e \in Exchanges, io[e] = "inside"
               PROVE  gone \cap Managers = {}
    BY DEF ManagersOutliveThreads, Managers
  <2>1. session[e] # "closed"
    BY DEF IInv, MainDisconnects
  <2>2. QED
    BY <2>1 DEF IInv, ClosedFirst
<1>2. QED
  BY <1>1, Inductive, PTL

(* When main returns 0, every exchange is closed, no IO thread is left and *)
(* the process ends in order, whatever the signals interrupted.            *)
THEOREM NobodyLeft == Spec => []NoneLeftBehind
<1>1. IInv => NoneLeftBehind
  BY DEF IInv
<1>2. QED
  BY <1>1, Inductive, PTL

-----------------------------------------------------------------------------
(* The session of e keeps its promise in this step.                        *)
Kept(e) ==
  exiting' = e \/ SessionOf(e)!Next \/ UNCHANGED <<Phase(e), ThreadOf(e)>>

(* A step that leaves the connection and the thread of e alone.            *)
LEMMA UntouchedKept ==
  ASSUME NEW e \in Exchanges, session'[e] = session[e], io'[e] = io[e]
  PROVE  Kept(e)
BY DEF Kept, Phase, ThreadOf

(* Connecting opens a session that is closed, with a thread that waits.    *)
LEMMA ConnectKept ==
  ASSUME ConnectionTypes, Connect, NEW e \in Exchanges
  PROVE  Kept(e)
<1>1. CASE e = at
  <2>1. Phase(e) = "closed" /\ ThreadOf(e) = "none"
    BY <1>1 DEF Connect, Phase, ThreadOf
  <2>2. Phase(e)' = "open" /\ ThreadOf(e)' = "waiting"
    BY <1>1 DEF Connect, Phase, ThreadOf, ConnectionTypes
  <2>3. QED
    BY <2>1, <2>2 DEF Kept, SessionOf!Next, SessionOf!Open
<1>2. CASE e # at
  BY <1>2, UntouchedKept DEF Connect, ConnectionTypes
<1>3. QED
  BY <1>1, <1>2

(* disconnect() of d by t: only a thread that closes its own session ends  *)
(* it while the thread is there.                                           *)
LEMMA DisconnectKept ==
  ASSUME ConnectionTypes, NEW t, NEW d \in Exchanges, DisconnectStep(t, d),
         UNCHANGED io, t = Main \/ exiting' = t, NEW e \in Exchanges
  PROVE  Kept(e)
<1>1. CASE e # d
  BY <1>1, UntouchedKept
  DEF DisconnectStep, BeginDisconnect, StopContext, Join, ConnectionTypes
<1>2. CASE e = d /\ BeginDisconnect(t, d)
  <2>1. Phase(e) = "open" /\ Phase(e)' = "closing" /\ ThreadOf(e)' = ThreadOf(e)
    BY <1>2 DEF BeginDisconnect, Phase, ThreadOf, ConnectionTypes
  <2>2. QED
    BY <2>1 DEF Kept, SessionOf!Next, SessionOf!Close
<1>3. CASE e = d /\ StopContext(t, d)
  BY <1>3 DEF Kept, StopContext, Phase, ThreadOf, ConnectionTypes
<1>4. CASE e = d /\ Join(t, d)
  <2>1. CASE t = e
    BY <2>1, Numbers DEF Kept
  <2>2. CASE t # e
    <3>1. Phase(e) = "closing" /\ ThreadOf(e) = "none"
      BY <1>4, <2>2 DEF Join, Phase, ThreadOf
    <3>2. Phase(e)' = "closed" /\ ThreadOf(e)' = ThreadOf(e)
      BY <1>4 DEF Join, Phase, ThreadOf, ConnectionTypes
    <3>3. QED
      BY <3>1, <3>2 DEF Kept, SessionOf!Next, SessionOf!Closed
  <2>3. QED
    BY <2>1, <2>2
<1>5. QED
  BY <1>1, <1>2, <1>3, <1>4 DEF DisconnectStep

(* The thread of d works, rests between two handlers, and leaves when told *)
(* to stop.                                                                *)
LEMMA IoThreadKept ==
  ASSUME ConnectionTypes, NEW d \in Exchanges, IoThread(d), NEW e \in Exchanges
  PROVE  Kept(e)
<1> USE DEF IoThread, connections
<1>1. session'[e] = session[e] /\ Phase(e)' = Phase(e)
  BY DEF Phase
<1>2. CASE e # d
  BY <1>1, <1>2, UntouchedKept
  DEF Receive, ProcessMessage, Processed, LeaveRun, ConnectionTypes
<1>3. CASE e = d /\ Receive(d)
  <2>1. Phase(e) # "closed" /\ ThreadOf(e) = "waiting" /\ ThreadOf(e)' = "working"
    BY <1>3 DEF Receive, Phase, ThreadOf, ConnectionTypes
  <2>2. QED
    BY <1>1, <2>1 DEF Kept, SessionOf!Next, SessionOf!Work
<1>4. CASE e = d /\ ProcessMessage(d)
  <2>1. ThreadOf(e)' = ThreadOf(e)
    BY <1>4 DEF ProcessMessage, ThreadOf, ConnectionTypes
  <2>2. QED
    BY <1>1, <2>1 DEF Kept
<1>5. CASE e = d /\ Processed(d)
  <2>1. ThreadOf(e) = "working" /\ ThreadOf(e)' = "waiting"
    BY <1>5 DEF Processed, ThreadOf, ConnectionTypes
  <2>2. QED
    BY <1>1, <2>1 DEF Kept, SessionOf!Next, SessionOf!Rest
<1>6. CASE e = d /\ LeaveRun(d)
  <2>1. Phase(e) = "closing" /\ ThreadOf(e) = "waiting" /\ ThreadOf(e)' = "none"
    BY <1>6 DEF LeaveRun, Phase, ThreadOf, ConnectionTypes
  <2>2. QED
    BY <1>1, <2>1 DEF Kept, SessionOf!Next, SessionOf!End
<1>7. QED
  BY <1>2, <1>3, <1>4, <1>5, <1>6

(* Every step of the program is, for each exchange, a step of its session  *)
(* or none, but for the one case named.                                    *)
LEMMA StepKept ==
  ASSUME IInv, Next, NEW e \in Exchanges
  PROVE  Kept(e)
<1>1. ConnectionTypes /\ (exit \in {"disconnect", "closing"} => dying \in Exchanges)
  BY DEF IInv, ExitOnce
<1>2. CASE StartUp
  <2>1. CASE Connect
    BY <1>1, <2>1, ConnectKept
  <2>2. CASE Subscribe \/ AllDone \/ OneFails
    BY <2>2, UntouchedKept DEF Subscribe, AllDone, OneFails, connections
  <2>3. QED
    BY <1>2, <2>1, <2>2 DEF StartUp
<1>3. CASE MainLoop
  BY <1>3, UntouchedKept DEF MainLoop, connections
<1>4. CASE DisconnectAll
  <2>1. CASE at \in Exchanges /\ DisconnectStep(Main, at)
    BY <1>1, <1>4, <2>1, DisconnectKept DEF DisconnectAll
  <2>2. CASE UNCHANGED connections
    BY <1>4, <2>2, UntouchedKept DEF DisconnectAll, connections
  <2>3. QED
    BY <1>4, <2>1, <2>2 DEF DisconnectAll
<1>5. CASE \E d \in Exchanges : IoThread(d)
  BY <1>1, <1>5, IoThreadKept
<1>6. CASE \E t \in Threads :
             UseMutexes(t) \/ Signal(t) \/ SignalHandler(t) \/ UseDestroyed(t)
  BY <1>6, UntouchedKept DEF UseMutexes, Signal, SignalHandler, UseDestroyed, connections
<1>7. CASE Destructors
  <2>1. CASE exit \in {"disconnect", "closing"} /\ DisconnectStep(exiting, dying)
    BY <1>1, <1>7, <2>1, DisconnectKept DEF Destructors
  <2>2. CASE UNCHANGED connections
    BY <1>7, <2>2, UntouchedKept DEF Destructors, connections
  <2>3. QED
    BY <1>7, <2>1, <2>2 DEF Destructors, BaseDisconnects, BaseCloses, DisconnectStep
<1>8. QED
  BY <1>2, <1>3, <1>4, <1>5, <1>6, <1>7 DEF Next, MainGoesOn

(* The program implements one Session for every exchange, until a forced   *)
(* exit runs on an IO thread, which cannot join itself.                    *)
THEOREM SessionsImplemented == Spec => SessionsKept
<1>1. IInv /\ [Next]_vars
        => [\A e \in Exchanges :
              exiting' = e \/ SessionOf(e)!Next \/ UNCHANGED <<Phase(e), ThreadOf(e)>>]_vars
  BY StepKept DEF Kept
<1>2. QED
  BY <1>1, Inductive, PTL DEF Spec, SessionsKept

=============================================================================
