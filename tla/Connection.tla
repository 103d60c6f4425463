----------------------------- MODULE Connection -----------------------------
(***************************************************************************)
(* The WebSocket connection of one ApiExchange (api_exchange.cpp): the     *)
(* main thread connects, writes and disconnects; the thread of m_ioc runs  *)
(* the completion handlers, one at a time, which read on, write on and     *)
(* answer heartbeats.                                                      *)
(*                                                                         *)
(* m_wsMutex guards doRead, doWrite and writeNext, but neither disconnect, *)
(* which resets m_ws, nor the handler of a failed write.  A handler tests  *)
(* m_ws and uses it in two steps; a stream used after its reset is a null  *)
(* pointer and ends the process.  Handlers that m_ioc.stop() leaves behind *)
(* run after the next connect.                                             *)
(***************************************************************************)
EXTENDS Naturals, Sequences, FiniteSets, Functions

CONSTANTS
  Exchanges,    \* which of "KUCOIN", "OKX", "CRYPTO" the object may be
  MaxSessions,  \* bound: streams created
  MaxWrites     \* bound: messages put on the queue

ASSUME ConnectionBounds == MaxSessions \in Nat /\ MaxWrites \in Nat
ASSUME ConnectionExchanges == Exchanges \subseteq {"KUCOIN", "OKX", "CRYPTO"}

VARIABLES
  exchange,    \* the class of the object
  inCooldown,  \* m_inCooldown, which nothing in the program ends
  connected,   \* m_connected
  ws,          \* m_ws: the number of the stream, 0 for none
  sessions,    \* streams created
  failedReads, \* streams a read of which has failed
  work,        \* m_work keeps m_ioc busy
  stopped,     \* m_ioc.stopped()
  main,        \* where the main thread is
  pinging,     \* startPingTimer was called
  io,          \* where m_thread is
  replying,    \* its handler is a read's: doRead comes after writeNext
  ops,         \* operations started whose handlers have not run
  queue,       \* m_writeQueue; a message is the number of its doWrite
  isWriting,   \* m_isWriting
  taken,       \* the message writeNext has popped and not yet written
  calls,       \* messages put on the queue
  written,     \* messages given to async_write, in order
  writeFailed  \* the handler of a write was given an error

stream == <<inCooldown, connected, ws, sessions, failedReads>>
context == <<work, stopped>>
mainThread == <<main, pinging>>
ioThread == <<io, replying>>
outbox == <<queue, isWriting, taken, calls, written, writeFailed>>
vars == <<exchange, stream, context, mainThread, ioThread, ops, outbox>>

-----------------------------------------------------------------------------
(* An operation is "pending" until it completes, "ok" or with an "error".  *)
(* A slot is the message of a write, or tells the reads of a stream apart. *)
Operation ==
  [kind : {"read", "write"}, ws : 1..MaxSessions, slot : Nat \ {0},
   done : {"pending", "ok", "error"}]
Reads(s) == {op \in ops : op.kind = "read" /\ op.ws = s}
Writes == {op \in ops : op.kind = "write"}

Start(kind, slot) ==
  ops' = ops \cup {[kind |-> kind, ws |-> ws, slot |-> slot, done |-> "pending"]}
AsyncRead ==
  Start("read", CHOOSE n \in 1..(Cardinality(Reads(ws)) + 1) :
                  \A op \in Reads(ws) : op.slot # n)
AsyncWrite(m) == Start("write", m) /\ written' = Append(written, m)

(* A stream that is destroyed completes its operations with an error.      *)
Aborted ==
  {IF op.done = "pending" THEN [op EXCEPT !.done = "error"] ELSE op : op \in ops}

(* A handler is inside m_wsMutex.                                          *)
Locked == io \in {"next", "write", "read"}

-----------------------------------------------------------------------------
(* KuCoin's connect first asks by HTTP where to connect.  An error of the  *)
(* server starts a cooldown (all codes but a 429 that does not say how     *)
(* long), in which later requests are refused before they are sent.        *)
Cooldown == inCooldown' = TRUE
RequestFails ==
  /\ main = "idle" /\ exchange = "KUCOIN" /\ ~inCooldown
  /\ Cooldown
  /\ UNCHANGED <<exchange, connected, ws, sessions, failedReads, context,
                 mainThread, ioThread, ops, outbox>>
MayConnect == exchange = "KUCOIN" => ~inCooldown

(* connect() with a stream created: the handshake fails, or the IO thread  *)
(* is started and the first read comes next.                               *)
OpenStream ==
  /\ main = "idle" /\ ~connected /\ MayConnect
  /\ sessions < MaxSessions
  /\ sessions' = sessions + 1
  /\ ws' = sessions + 1
  /\ ops' = Aborted
  /\ stopped' = FALSE
  /\ UNCHANGED <<exchange, inCooldown, failedReads, pinging, replying, outbox>>

ConnectFails ==
  /\ OpenStream
  /\ UNCHANGED <<connected, work, main, io>>

ConnectSucceeds ==
  /\ OpenStream
  /\ connected' = TRUE
  /\ work' = TRUE
  /\ io' = "idle"
  /\ main' = "read"

FirstRead ==
  /\ main = "read" /\ ~Locked
  /\ AsyncRead
  /\ main' = "idle"
  /\ pinging' = (pinging \/ exchange = "KUCOIN")
  /\ UNCHANGED <<exchange, stream, context, ioThread, outbox>>

(* doWrite on the main thread.  Nothing that runs beside it interferes: it *)
(* is one step.                                                            *)
DoWrite ==
  /\ main = "idle" /\ ~Locked
  /\ ws # 0
  /\ calls + (IF io = "reply" THEN 1 ELSE 0) < MaxWrites
  /\ calls' = calls + 1
  /\ LET waiting == Append(queue, calls + 1)
     IN  IF isWriting
           THEN queue' = waiting /\ UNCHANGED <<isWriting, ops, written>>
           ELSE /\ queue' = Tail(waiting)
                /\ isWriting' = TRUE
                /\ AsyncWrite(Head(waiting))
  /\ UNCHANGED <<exchange, stream, context, mainThread, ioThread, taken, writeFailed>>

(* A subscription asks for a connection first; KuCoin's ping does not, and *)
(* its timer runs on whatever becomes of the connection.                   *)
Subscribe == connected /\ DoWrite
SendPing == pinging /\ DoWrite

(* disconnect(): the guard of the context and the flag go first, then the  *)
(* stream, without m_wsMutex, then the context is stopped, the thread is   *)
(* joined and the context made ready for another connect.                  *)
Disconnect ==
  /\ main = "idle" /\ connected
  /\ work' = FALSE
  /\ connected' = FALSE
  /\ main' = "close"
  /\ UNCHANGED <<exchange, inCooldown, ws, sessions, failedReads, stopped, pinging,
                 ioThread, ops, outbox>>

CloseStream ==
  /\ main = "close"
  /\ ws' = 0
  /\ ops' = Aborted
  /\ main' = "stop"
  /\ UNCHANGED <<exchange, inCooldown, connected, sessions, failedReads, context,
                 pinging, ioThread, outbox>>

StopContext ==
  /\ main = "stop"
  /\ stopped' = TRUE
  /\ main' = "join"
  /\ UNCHANGED <<exchange, stream, work, pinging, ioThread, ops, outbox>>

JoinWithTimeout ==  \* given up, as the comment has it
  /\ main = "join"
  /\ io' = IF io = "returned" THEN "none" ELSE io
  /\ stopped' = FALSE
  /\ main' = "idle"
  /\ UNCHANGED <<exchange, stream, work, pinging, replying, ops, outbox>>

Join ==
  /\ main = "join"
  /\ io = "returned"
  /\ io' = "none"
  /\ stopped' = FALSE
  /\ main' = "idle"
  /\ UNCHANGED <<exchange, stream, work, pinging, replying, ops, outbox>>

-----------------------------------------------------------------------------
(* The network ends an operation of the stream there is; one whose         *)
(* handshake failed only with an error.                                    *)
Complete(op) ==
  /\ op.done = "pending" /\ op.ws = ws
  /\ \E done \in {"ok", "error"} :
       /\ connected \/ main # "idle" \/ done = "error"
       /\ ops' = (ops \ {op}) \cup {[op EXCEPT !.done = done]}
  /\ UNCHANGED <<exchange, stream, context, mainThread, ioThread, outbox>>

(* m_ioc.run() takes the handler of a completed operation.                 *)
Handler(op) ==
  /\ io = "idle" /\ ~stopped
  /\ op.done # "pending"
  /\ ops' = ops \ {op}
  /\ UNCHANGED <<exchange, inCooldown, connected, ws, sessions, context, mainThread>>

(* processMessage: quotes go to the book, all else is logged; Crypto       *)
(* answers heartbeats.                                                     *)
ProcessQuote == io' = "reread"
RespondHeartbeat == exchange = "CRYPTO" /\ calls < MaxWrites /\ io' = "reply"
ProcessMessage == ProcessQuote \/ RespondHeartbeat

MessageRead(op) ==
  /\ op.kind = "read" /\ op.done = "ok"
  /\ Handler(op)
  /\ ProcessMessage
  /\ UNCHANGED <<failedReads, replying, outbox>>

ReadError(op) ==
  /\ op.kind = "read" /\ op.done = "error"
  /\ Handler(op)
  /\ failedReads' = failedReads \cup {op.ws}
  /\ UNCHANGED <<ioThread, outbox>>

MessageWritten(op) ==
  /\ op.kind = "write" /\ op.done = "ok"
  /\ Handler(op)
  /\ io' = "next"
  /\ UNCHANGED <<failedReads, replying, outbox>>

WriteErrorKeepsFlag(op) ==  \* m_isWriting = false forgotten
  /\ op.kind = "write" /\ op.done = "error"
  /\ Handler(op)
  /\ writeFailed' = TRUE
  /\ UNCHANGED <<failedReads, ioThread, queue, isWriting, taken, calls, written>>

WriteError(op) ==
  /\ op.kind = "write" /\ op.done = "error"
  /\ Handler(op)
  /\ isWriting' = FALSE
  /\ writeFailed' = TRUE
  /\ UNCHANGED <<failedReads, ioThread, queue, taken, calls, written>>

-----------------------------------------------------------------------------
(* The handlers go on, a step at each test and each use of m_ws.           *)
HandlerStep(from) == io = from /\ UNCHANGED <<exchange, stream, context, mainThread>>

Leave == replying' = FALSE /\ io' = IF replying THEN "reread" ELSE "idle"

(* doWrite of a heartbeat's answer; the message is dropped without stream. *)
ReplyEndsReading ==  \* an answered heartbeat returns before doRead()
  /\ HandlerStep("reply")
  /\ IF ws = 0
       THEN io' = "reread" /\ UNCHANGED <<replying, queue, calls>>
       ELSE /\ queue' = Append(queue, calls + 1)
            /\ calls' = calls + 1
            /\ io' = IF isWriting THEN "idle" ELSE "next"
            /\ UNCHANGED replying
  /\ UNCHANGED <<ops, isWriting, taken, written, writeFailed>>

Reply ==
  /\ HandlerStep("reply")
  /\ IF ws = 0
       THEN io' = "reread" /\ UNCHANGED <<replying, queue, calls>>
       ELSE /\ queue' = Append(queue, calls + 1)
            /\ calls' = calls + 1
            /\ io' = IF isWriting THEN "reread" ELSE "next"
            /\ replying' = ~isWriting
  /\ UNCHANGED <<ops, isWriting, taken, written, writeFailed>>

(* writeNext: the test, and the message taken from the queue.              *)
WriteNextWithoutPop ==  \* front() without pop()
  /\ HandlerStep("next")
  /\ IF ws = 0 \/ queue = <<>>
       THEN isWriting' = FALSE /\ Leave /\ UNCHANGED <<queue, taken>>
       ELSE /\ isWriting' = TRUE
            /\ taken' = Head(queue)
            /\ io' = "write"
            /\ UNCHANGED <<queue, replying>>
  /\ UNCHANGED <<ops, calls, written, writeFailed>>

WriteNextOnlyIfMore ==  \* the queue is looked at after the front is taken
  /\ HandlerStep("next")
  /\ IF ws = 0 \/ Len(queue) <= 1
       THEN isWriting' = FALSE /\ Leave /\ UNCHANGED <<queue, taken>>
       ELSE /\ isWriting' = TRUE
            /\ taken' = Head(queue)
            /\ queue' = Tail(queue)
            /\ io' = "write"
            /\ UNCHANGED replying
  /\ UNCHANGED <<ops, calls, written, writeFailed>>

WriteNext ==
  /\ HandlerStep("next")
  /\ IF ws = 0 \/ queue = <<>>
       THEN isWriting' = FALSE /\ Leave /\ UNCHANGED <<queue, taken>>
       ELSE /\ isWriting' = TRUE
            /\ taken' = Head(queue)
            /\ queue' = Tail(queue)
            /\ io' = "write"
            /\ UNCHANGED replying
  /\ UNCHANGED <<ops, calls, written, writeFailed>>

WriteTakenMoved ==  \* the handler's capture has moved the message away
  /\ HandlerStep("write")
  /\ IF ws = 0
       THEN io' = "crashed" /\ UNCHANGED <<ops, written, taken, replying>>
       ELSE AsyncWrite(0) /\ taken' = 0 /\ Leave
  /\ UNCHANGED <<queue, isWriting, calls, writeFailed>>

WriteTaken ==
  /\ HandlerStep("write")
  /\ IF ws = 0
       THEN io' = "crashed" /\ UNCHANGED <<ops, written, taken, replying>>
       ELSE AsyncWrite(taken) /\ taken' = 0 /\ Leave
  /\ UNCHANGED <<queue, isWriting, calls, writeFailed>>

(* doRead: the test, then the next read.                                   *)
ReadTest ==
  /\ HandlerStep("reread")
  /\ io' = IF ws = 0 THEN "idle" ELSE "read"
  /\ UNCHANGED <<replying, ops, outbox>>

ReadOn ==
  /\ HandlerStep("read")
  /\ IF ws = 0
       THEN io' = "crashed" /\ UNCHANGED ops
       ELSE io' = "idle" /\ AsyncRead
  /\ UNCHANGED <<replying, outbox>>

(* m_ioc.run() returns when it is stopped or nothing is left to do.        *)
IoReturns ==
  /\ HandlerStep("idle")
  /\ stopped \/ (~work /\ ops = {})
  /\ io' = "returned"
  /\ UNCHANGED <<replying, ops, outbox>>

-----------------------------------------------------------------------------
Init ==
  /\ exchange \in Exchanges
  /\ inCooldown = FALSE /\ connected = FALSE /\ ws = 0 /\ sessions = 0 /\ failedReads = {}
  /\ work = FALSE /\ stopped = FALSE
  /\ main = "idle" /\ pinging = FALSE
  /\ io = "none" /\ replying = FALSE
  /\ ops = {}
  /\ queue = <<>> /\ isWriting = FALSE /\ taken = 0
  /\ calls = 0 /\ written = <<>> /\ writeFailed = FALSE

MainGoesOn == FirstRead \/ CloseStream \/ StopContext \/ Join
IoGoesOn ==
  \/ \E op \in ops :
       MessageRead(op) \/ ReadError(op) \/ MessageWritten(op) \/ WriteError(op)
  \/ Reply
  \/ WriteNext
  \/ WriteTaken
  \/ ReadTest
  \/ ReadOn
  \/ IoReturns

Next ==
  /\ io # "crashed"
  /\ \/ RequestFails
     \/ ConnectFails
     \/ ConnectSucceeds
     \/ Subscribe
     \/ SendPing
     \/ Disconnect
     \/ MainGoesOn
     \/ IoGoesOn
     \/ \E op \in ops : Complete(op)

Spec == Init /\ [][Next]_vars

(* No thread stops in the middle of a call, a write ends, well or not, and *)
(* its handler has its turn among those of the reads, since m_ioc runs the *)
(* handlers in the order of completion.  Nothing makes the server send, or *)
(* the program connect or disconnect.                                      *)
Fairness ==
  /\ WF_vars(io # "crashed" /\ MainGoesOn)
  /\ WF_vars(io # "crashed" /\ IoGoesOn)
  /\ SF_vars(io # "crashed" /\ \E op \in Writes : MessageWritten(op) \/ WriteError(op))
  /\ WF_vars(io # "crashed" /\ \E op \in Writes : Complete(op))

FairSpec == Spec /\ Fairness

-----------------------------------------------------------------------------
(* The state of the object has its types.                                  *)
TypeOK ==
  /\ exchange \in Exchanges /\ inCooldown \in BOOLEAN
  /\ connected \in BOOLEAN /\ ws \in 0..MaxSessions /\ sessions \in 0..MaxSessions
  /\ failedReads \subseteq 1..MaxSessions
  /\ work \in BOOLEAN /\ stopped \in BOOLEAN
  /\ main \in {"idle", "read", "close", "stop", "join"} /\ pinging \in BOOLEAN
  /\ io \in {"none", "idle", "reply", "next", "write", "reread", "read",
             "returned", "crashed"}
  /\ replying \in BOOLEAN
  /\ ops \subseteq Operation
  /\ queue \in Seq(1..MaxWrites) /\ isWriting \in BOOLEAN
  /\ taken \in 0..MaxWrites /\ calls \in 0..MaxWrites
  /\ written \in Seq(1..MaxWrites) /\ writeFailed \in BOOLEAN

(* m_isWriting says whether a write is under way, so that there is never a *)
(* second one, which the stream does not allow: also after a write failed  *)
(* outside the mutex, and for handlers left over from an earlier session   *)
(* (lines 394-421).                                                        *)
Turns == Cardinality(Writes) + (IF io = "write" \/ (io = "next" /\ ~replying) THEN 1 ELSE 0)
WriteFlagHonest ==
  io # "crashed" => Turns = IF isWriting THEN 1 ELSE 0

(* Every message put on the queue is given to the stream once, in the      *)
(* order of the calls, whoever called and however often the stream was     *)
(* opened again (lines 385-422).                                           *)
WrittenInOrder ==
  written \o (IF taken = 0 THEN <<>> ELSE <<taken>>) \o queue = [i \in 1..calls |-> i]

(* While connected and until a read of this stream fails, the stream is    *)
(* being read: a read is under way or a handler that will start the next   *)
(* is at work, whatever it does before (lines 363-382).                    *)
KeepsReading ==
  connected /\ main = "idle" /\ ws \notin failedReads =>
    \/ Reads(ws) # {}
    \/ io \in {"reply", "reread", "read"}
    \/ replying

(* The object keeps the promise of Session: its thread is there from       *)
(* connect until disconnect returns, takes handlers in no other time, and  *)
(* ends between two of them, so that connect finds no thread it would      *)
(* replace (lines 172-176, 189-240).                                       *)
Phase ==
  CASE connected -> "open"
    [] ~connected /\ main \in {"close", "stop", "join"} -> "closing"
    [] OTHER -> "closed"
Thread ==
  CASE io \in {"none", "returned"} -> "none"
    [] io = "idle" -> "waiting"
    [] OTHER -> "working"
OneSession == INSTANCE Session WITH phase <- Phase, thread <- Thread
SessionKept == OneSession!Spec

(* In the first session a message on the queue is written, unless the      *)
(* connection ends or a write fails: each write's handler takes the next,  *)
(* and none is left between a test of m_isWriting and its reset.  (A later *)
(* session may find messages of an earlier one, which wait for a doWrite.) *)
WritesGoOn ==
  \A m \in 1..MaxWrites :
    sessions = 1 /\ m \in Range(queue) ~>
      m \notin Range(queue) \/ ~connected \/ writeFailed
=============================================================================
