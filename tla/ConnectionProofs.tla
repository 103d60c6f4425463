-------------------------- MODULE ConnectionProofs --------------------------
(***************************************************************************)
(* Theorems about Connection, for any number of streams and messages: one  *)
(* write at a time, messages in order, a stream that is read while         *)
(* connected, and a thread that lasts as long as its session.              *)
(***************************************************************************)
EXTENDS Connection, FiniteSetTheorems, SequenceTheorems, TLAPS

(* The types, all but those of the queue.                                  *)
Types ==
  /\ exchange \in Exchanges /\ inCooldown \in BOOLEAN
  /\ connected \in BOOLEAN /\ ws \in 0..MaxSessions /\ sessions \in 0..MaxSessions
  /\ failedReads \subseteq 1..MaxSessions
  /\ work \in BOOLEAN /\ stopped \in BOOLEAN
  /\ main \in {"idle", "read", "close", "stop", "join"} /\ pinging \in BOOLEAN
  /\ io \in {"none", "idle", "reply", "next", "write", "reread", "read",
             "returned", "crashed"}
  /\ replying \in BOOLEAN
  /\ isWriting \in BOOLEAN /\ writeFailed \in BOOLEAN
  /\ calls \in 0..MaxWrites /\ taken \in 0..MaxWrites

OpTypes == ops \subseteq Operation /\ IsFiniteSet(ops)

(* Which thread is where: a session lasts from connect to the join.        *)
Closing == main \in {"close", "stop", "join"}
Control ==
  /\ connected => main \in {"idle", "read"} /\ ws # 0 /\ work /\ ~stopped
  /\ main = "read" => connected
  /\ io \in {"none", "returned"} => ~connected
  /\ io = "none" <=> ~connected /\ main = "idle"
  /\ stopped => main = "join"
  /\ replying => io \in {"next", "write", "crashed"}
  /\ io = "reply" => calls < MaxWrites

(* A write is under way, or the handler of one is about to take the next.  *)
Turn == io = "write" \/ (io = "next" /\ ~replying)
OneWrite ==
  io # "crashed" =>
    /\ isWriting <=> Writes # {} \/ Turn
    /\ Writes = {} \/ ~Turn
    /\ \A a, b \in Writes : a = b
    /\ replying /\ io = "next" => ~isWriting

(* The messages are numbered as they are put on the queue.                 *)
InHand == IF taken = 0 THEN 0 ELSE 1
Numbers ==
  /\ queue \in Seq(Nat) /\ written \in Seq(Nat)
  /\ io = "write" <=> taken # 0 /\ io # "crashed"
  /\ taken # 0 => taken = Len(written) + 1
  /\ calls = Len(written) + InHand + Len(queue)
  /\ \A i \in 1..Len(written) : written[i] = i
  /\ \A i \in 1..Len(queue) : queue[i] = Len(written) + InHand + i

IInv == Types /\ OpTypes /\ Control /\ OneWrite /\ Numbers /\ KeepsReading

-----------------------------------------------------------------------------
(* There is a slot for another read, whatever reads there are.             *)
LEMMA FreeSlot ==
  ASSUME OpTypes
  PROVE  \E n \in 1..(Cardinality(Reads(ws)) + 1) : \A op \in Reads(ws) : op.slot # n
<1> DEFINE R == Reads(ws)
<1> DEFINE S == {op.slot : op \in R}
<1> DEFINE I == 1..(Cardinality(R) + 1)
<1>1. IsFiniteSet(R) /\ Cardinality(R) \in Nat
  <2>1. R \in SUBSET ops
    BY DEF Reads
  <2>2. QED
    BY <2>1, FS_Subset, FS_CardinalityType DEF OpTypes
<1>2. [op \in R |-> op.slot] \in Surjection(R, S)
  BY DEF Surjection
<1>3. IsFiniteSet(S) /\ Cardinality(S) <= Cardinality(R)
  BY <1>1, <1>2, FS_Surjection
<1>4. IsFiniteSet(I) /\ Cardinality(I) = Cardinality(R) + 1
  BY <1>1, FS_Interval
<1>5. ~(I \subseteq S)
  <2>1. ASSUME I \subseteq S PROVE Cardinality(I) <= Cardinality(S)
    BY <1>3, <2>1, FS_Subset
  <2>2. Cardinality(S) \in Nat
    BY <1>3, FS_CardinalityType
  <2>3. QED
    BY <1>1, <1>3, <1>4, <2>1, <2>2
<1>6. QED
  BY <1>5

(* What a new operation adds.                                              *)
LEMMA ReadStarts ==
  ASSUME Types, OpTypes, ws # 0, AsyncRead
  PROVE  OpTypes' /\ Writes' = Writes /\ (ws' = ws => Reads(ws)' # {})
<1>1. PICK n \in Nat \ {0} :
        ops' = ops \cup {[kind |-> "read", ws |-> ws, slot |-> n, done |-> "pending"]}
  <2> DEFINE Free(n) == \A op \in Reads(ws) : op.slot # n
  <2> DEFINE slots == 1..(Cardinality(Reads(ws)) + 1)
  <2>1. \E n \in slots : Free(n)
    BY FreeSlot
  <2>2. (CHOOSE n \in slots : Free(n)) \in slots
    BY <2>1, Zenon
  <2>3. slots \subseteq Nat \ {0}
    <3>1. Reads(ws) \in SUBSET ops
      BY DEF Reads
    <3>2. Cardinality(Reads(ws)) \in Nat
      BY <3>1, FS_Subset, FS_CardinalityType DEF OpTypes
    <3>3. QED
      BY <3>2
  <2>4. ops' = ops \cup {[kind |-> "read", ws |-> ws, slot |-> CHOOSE n \in slots : Free(n),
                          done |-> "pending"]}
    BY Zenon DEF AsyncRead, Start
  <2>5. QED
    BY <2>2, <2>3, <2>4
<1>2. [kind |-> "read", ws |-> ws, slot |-> n, done |-> "pending"] \in Operation
  BY DEF Operation, Types
<1>3. OpTypes'
  <2>1. IsFiniteSet(ops')
    BY <1>1, FS_AddElement, Zenon DEF OpTypes
  <2>2. QED
    BY <1>1, <1>2, <2>1 DEF OpTypes
<1>4. Writes' = Writes
  BY <1>1 DEF Writes
<1>5. ASSUME ws' = ws PROVE Reads(ws)' # {}
  <2>1. [kind |-> "read", ws |-> ws, slot |-> n, done |-> "pending"] \in Reads(ws)'
    BY <1>1, <1>5 DEF Reads
  <2>2. QED
    BY <2>1
<1>6. QED
  BY <1>3, <1>4, <1>5

(* The same for a write, whose message is given to the stream.             *)
LEMMA WriteStarts ==
  ASSUME Types, OpTypes, ws # 0, NEW m \in Nat \ {0}, AsyncWrite(m)
  PROVE  /\ OpTypes' /\ written' = Append(written, m)
         /\ ws' = ws => Reads(ws)' = Reads(ws)
         /\ \E op : Writes' = Writes \cup {op}
<1> DEFINE op == [kind |-> "write", ws |-> ws, slot |-> m, done |-> "pending"]
<1>1. ops' = ops \cup {op} /\ op \in Operation
  BY DEF AsyncWrite, Start, Operation, Types
<1>2. OpTypes'
  BY <1>1, FS_AddElement DEF OpTypes
<1>3. Writes' = Writes \cup {op}
  BY <1>1 DEF Writes
<1>4. ws' = ws => Reads(ws)' = Reads(ws)
  BY <1>1 DEF Reads
<1>5. QED
  BY <1>2, <1>3, <1>4 DEF AsyncWrite

(* A stream that is destroyed ends its operations, and there are as many   *)
(* writes as before.                                                       *)
LEMMA OpsAborted ==
  ASSUME OpTypes, ops' = Aborted
  PROVE  /\ OpTypes'
         /\ Writes' = {} <=> Writes = {}
         /\ (\A a, b \in Writes : a = b) => \A a, b \in Writes' : a = b
<1> DEFINE End(op) == IF op.done = "pending" THEN [op EXCEPT !.done = "error"] ELSE op
<1>1. \A op \in ops : End(op) \in Operation /\ End(op).kind = op.kind
  BY DEF OpTypes, Operation
<1>2. ops' = {End(op) : op \in ops}
  BY DEF Aborted
<1>3. [op \in ops |-> End(op)] \in Surjection(ops, ops')
  BY <1>2 DEF Surjection
<1>4. OpTypes'
  BY <1>1, <1>2, <1>3, FS_Surjection DEF OpTypes
<1>5. Writes' = {End(op) : op \in Writes}
  BY <1>1, <1>2 DEF Writes
<1>6. QED
  BY <1>4, <1>5

(* A completion changes no more of an operation than that it is done.      *)
LEMMA OpCompletes ==
  ASSUME OpTypes, NEW op \in ops, NEW done \in {"ok", "error"},
         ops' = (ops \ {op}) \cup {[op EXCEPT !.done = done]}
  PROVE  /\ OpTypes'
         /\ Writes' = {} <=> Writes = {}
         /\ (\A a, b \in Writes : a = b) => \A a, b \in Writes' : a = b
         /\ ws' = ws => (Reads(ws) # {} => Reads(ws)' # {})
<1> DEFINE new == [op EXCEPT !.done = done]
<1>1. new \in Operation /\ new.kind = op.kind /\ new.ws = op.ws
  BY DEF OpTypes, Operation
<1>2. OpTypes'
  BY <1>1, FS_AddElement, FS_RemoveElement DEF OpTypes
<1>3. CASE op.kind = "write"
  <2>1. op \in Writes /\ Writes' = (Writes \ {op}) \cup {new}
    BY <1>1, <1>3 DEF Writes
  <2>2. ws' = ws => Reads(ws)' = Reads(ws)
    BY <1>1, <1>3 DEF Reads
  <2>3. QED
    BY <1>2, <2>1, <2>2
<1>4. CASE op.kind # "write"
  <2>1. Writes' = Writes
    BY <1>1, <1>4 DEF Writes
  <2>2. ws' = ws /\ op.kind = "read" /\ op.ws = ws => new \in Reads(ws)'
    BY <1>1 DEF Reads
  <2>3. ws' = ws /\ ~(op.kind = "read" /\ op.ws = ws) => Reads(ws)' = Reads(ws)
    BY <1>1 DEF Reads
  <2>4. QED
    BY <1>2, <2>1, <2>2, <2>3
<1>5. QED
  BY <1>3, <1>4

(* A handler takes its operation.                                          *)
LEMMA OpHandled ==
  ASSUME OpTypes, NEW op \in ops, ops' = ops \ {op}, ws' = ws
  PROVE  /\ OpTypes'
         /\ op.kind = "read" => Writes' = Writes
         /\ op.kind = "write" => Reads(ws)' = Reads(ws) /\ op \in Writes /\ Writes' = Writes \ {op}
         /\ op.kind = "read" /\ op.ws # ws => Reads(ws)' = Reads(ws)
<1>1. OpTypes'
  BY FS_RemoveElement DEF OpTypes
<1>2. QED
  BY <1>1 DEF Writes, Reads

-----------------------------------------------------------------------------
(* A queue with one message more.                                          *)
LEMMA Pushed ==
  ASSUME NEW q \in Seq(Nat), NEW m \in Nat
  PROVE  /\ Append(q, m) \in Seq(Nat) /\ Len(Append(q, m)) = Len(q) + 1
         /\ Append(q, m)[Len(q) + 1] = m
         /\ \A i \in 1..Len(q) : Append(q, m)[i] = q[i]
OBVIOUS

(* A queue without its first message.                                      *)
LEMMA Popped ==
  ASSUME NEW q \in Seq(Nat), q # <<>>
  PROVE  /\ Head(q) = q[1] /\ Tail(q) \in Seq(Nat)
         /\ Len(q) \in Nat \ {0} /\ Len(Tail(q)) = Len(q) - 1
         /\ \A i \in 1..Len(Tail(q)) : Tail(q)[i] = q[i + 1]
OBVIOUS

(* At the start there is no stream and no message.                         *)
LEMMA InitInv == Init => IInv
<1> SUFFICES ASSUME Init PROVE IInv
  OBVIOUS
<1> USE DEF Init
<1>1. Types
  <2>1. 0 \in 0..MaxSessions /\ 0 \in 0..MaxWrites
    BY ConnectionBounds
  <2>2. QED
    BY <2>1 DEF Types
<1>2. OpTypes
  BY FS_EmptySet DEF OpTypes
<1>3. Control /\ OneWrite /\ KeepsReading
  BY DEF Control, OneWrite, Turn, Writes, KeepsReading
<1>4. Numbers
  BY DEF Numbers, InHand
<1>5. QED
  BY <1>1, <1>2, <1>3, <1>4 DEF IInv

(* No step.                                                                *)
LEMMA StutterInv ==
  ASSUME IInv,
         UNCHANGED vars
  PROVE  IInv'
<1> USE DEF IInv, vars, stream, context, mainThread, ioThread, outbox
<1>1. Types'
  BY ConnectionBounds DEF Types
<1>2. OpTypes'
  BY DEF OpTypes
<1>3. Control'
  BY DEF Types, Control, Closing
<1>4. OneWrite'
  BY DEF OneWrite, Turn, Writes, Control
<1>5. Numbers'
  BY DEF Numbers, InHand, Types
<1>6. KeepsReading'
  BY DEF KeepsReading, Reads, Control
<1>7. QED
  BY <1>1, <1>2, <1>3, <1>4, <1>5, <1>6

(* KuCoin's request fails.                                                 *)
LEMMA RequestInv ==
  ASSUME IInv,
         RequestFails
  PROVE  IInv'
<1> USE DEF IInv, RequestFails, Cooldown, stream, context, mainThread,
     ioThread, outbox
<1>1. Types'
  BY ConnectionBounds DEF Types
<1>2. OpTypes'
  BY DEF OpTypes
<1>3. Control'
  BY DEF Types, Control, Closing
<1>4. OneWrite'
  BY DEF OneWrite, Turn, Writes, Control
<1>5. Numbers'
  BY DEF Numbers, InHand, Types
<1>6. KeepsReading'
  BY DEF KeepsReading, Reads, Control
<1>7. QED
  BY <1>1, <1>2, <1>3, <1>4, <1>5, <1>6

(* A new stream.                                                           *)
LEMMA ConnectInv ==
  ASSUME IInv,
         io # "crashed",
         ConnectFails \/ ConnectSucceeds
  PROVE  IInv'
<1> USE DEF IInv, ConnectFails, ConnectSucceeds, OpenStream, MayConnect,
     stream, context, mainThread, ioThread, outbox
<1>1. Types'
  <2>1. sessions' \in 0..MaxSessions /\ ws' \in 0..MaxSessions
    BY ConnectionBounds DEF Types
  <2>2. QED
    BY <2>1 DEF Types
<1>2. OpTypes'
  BY OpsAborted
<1>3. Control'
  BY DEF Types, Control, Closing
<1>4. OneWrite'
  BY OpsAborted DEF OneWrite, Turn, Control
<1>5. Numbers'
  <2>1. UNCHANGED outbox /\ (io = "write" <=> io' = "write") /\ (io = "crashed" <=> io' = "crashed")
    BY DEF Control
  <2>2. QED
    BY <2>1 DEF Numbers, InHand
<1>6. KeepsReading'
  BY DEF KeepsReading, Reads, Control
<1>7. QED
  BY <1>1, <1>2, <1>3, <1>4, <1>5, <1>6

(* The first read.                                                         *)
LEMMA FirstReadInv ==
  ASSUME IInv,
         FirstRead
  PROVE  IInv'
<1> USE DEF IInv, FirstRead, Locked, stream, context, mainThread, ioThread,
     outbox
<1>1. Types'
  BY ConnectionBounds DEF Types
<1>2. OpTypes'
  BY ReadStarts DEF Control
<1>3. Control'
  BY DEF Types, Control, Closing
<1>4. OneWrite'
  BY ReadStarts DEF OneWrite, Turn, Control
<1>5. Numbers'
  BY DEF Numbers, InHand, Types
<1>6. KeepsReading'
  BY ReadStarts DEF KeepsReading, Control
<1>7. QED
  BY <1>1, <1>2, <1>3, <1>4, <1>5, <1>6

(* disconnect() begins.                                                    *)
LEMMA DisconnectInv ==
  ASSUME IInv,
         Disconnect
  PROVE  IInv'
<1> USE DEF IInv, Disconnect, stream, context, mainThread, ioThread, outbox
<1>1. Types'
  BY ConnectionBounds DEF Types
<1>2. OpTypes'
  BY DEF OpTypes
<1>3. Control'
  BY DEF Types, Control, Closing
<1>4. OneWrite'
  BY DEF OneWrite, Turn, Writes, Control
<1>5. Numbers'
  BY DEF Numbers, InHand, Types
<1>6. KeepsReading'
  BY DEF KeepsReading, Reads, Control
<1>7. QED
  BY <1>1, <1>2, <1>3, <1>4, <1>5, <1>6

(* The stream goes.                                                        *)
LEMMA CloseInv ==
  ASSUME IInv,
         io # "crashed",
         CloseStream
  PROVE  IInv'
<1> USE DEF IInv, CloseStream, stream, context, mainThread, ioThread, outbox
<1>1. Types'
  BY ConnectionBounds DEF Types
<1>2. OpTypes'
  BY OpsAborted
<1>3. Control'
  BY DEF Types, Control, Closing
<1>4. OneWrite'
  BY OpsAborted DEF OneWrite, Turn, Control
<1>5. Numbers'
  BY DEF Numbers, InHand, Types
<1>6. KeepsReading'
  BY DEF KeepsReading, Reads, Control
<1>7. QED
  BY <1>1, <1>2, <1>3, <1>4, <1>5, <1>6

(* The context is stopped.                                                 *)
LEMMA StopInv ==
  ASSUME IInv,
         StopContext
  PROVE  IInv'
<1> USE DEF IInv, StopContext, stream, context, mainThread, ioThread, outbox
<1>1. Types'
  BY ConnectionBounds DEF Types
<1>2. OpTypes'
  BY DEF OpTypes
<1>3. Control'
  BY DEF Types, Control, Closing
<1>4. OneWrite'
  BY DEF OneWrite, Turn, Writes, Control
<1>5. Numbers'
  BY DEF Numbers, InHand, Types
<1>6. KeepsReading'
  BY DEF KeepsReading, Reads, Control
<1>7. QED
  BY <1>1, <1>2, <1>3, <1>4, <1>5, <1>6

(* The thread is joined.                                                   *)
LEMMA JoinInv ==
  ASSUME IInv,
         Join
  PROVE  IInv'
<1> USE DEF IInv, Join, stream, context, mainThread, ioThread, outbox
<1>1. Types'
  BY ConnectionBounds DEF Types
<1>2. OpTypes'
  BY DEF OpTypes
<1>3. Control'
  BY DEF Types, Control, Closing
<1>4. OneWrite'
  BY DEF OneWrite, Turn, Writes, Control
<1>5. Numbers'
  BY DEF Numbers, InHand, Types
<1>6. KeepsReading'
  BY DEF KeepsReading, Reads, Control
<1>7. QED
  BY <1>1, <1>2, <1>3, <1>4, <1>5, <1>6

(* An operation completes.                                                 *)
LEMMA CompleteInv ==
  ASSUME IInv,
         NEW op \in ops,
         Complete(op)
  PROVE  IInv'
<1> USE DEF IInv, Complete, stream, context, mainThread, ioThread, outbox
<1>1. Types'
  BY ConnectionBounds DEF Types
<1>2. OpTypes'
  BY OpCompletes
<1>3. Control'
  BY DEF Types, Control, Closing
<1>4. OneWrite'
  BY OpCompletes DEF OneWrite, Turn
<1>5. Numbers'
  BY DEF Numbers, InHand, Types
<1>6. KeepsReading'
  BY OpCompletes DEF KeepsReading
<1>7. QED
  BY <1>1, <1>2, <1>3, <1>4, <1>5, <1>6

(* A message was read.                                                     *)
LEMMA MessageReadInv ==
  ASSUME IInv,
         NEW op \in ops,
         MessageRead(op)
  PROVE  IInv'
<1> USE DEF IInv, MessageRead, Handler, ProcessMessage, ProcessQuote,
     RespondHeartbeat, stream, context, mainThread, ioThread, outbox
<1>1. Types'
  BY ConnectionBounds DEF Types
<1>2. OpTypes'
  BY OpHandled
<1>3. Control'
  BY DEF Types, Control, Closing
<1>4. OneWrite'
  BY OpHandled DEF OneWrite, Turn, Control
<1>5. Numbers'
  BY DEF Numbers, InHand, Types
<1>6. KeepsReading'
  BY OpHandled DEF KeepsReading
<1>7. QED
  BY <1>1, <1>2, <1>3, <1>4, <1>5, <1>6

(* A read failed.                                                          *)
LEMMA ReadErrorInv ==
  ASSUME IInv,
         NEW op \in ops,
         ReadError(op)
  PROVE  IInv'
<1> USE DEF IInv, ReadError, Handler, stream, context, mainThread, ioThread,
     outbox
<1>1. Types'
  BY DEF Types, OpTypes, Operation
<1>2. OpTypes'
  BY OpHandled
<1>3. Control'
  BY DEF Types, Control, Closing
<1>4. OneWrite'
  BY OpHandled DEF OneWrite, Turn
<1>5. Numbers'
  BY DEF Numbers, InHand, Types
<1>6. KeepsReading'
  BY OpHandled DEF KeepsReading
<1>7. QED
  BY <1>1, <1>2, <1>3, <1>4, <1>5, <1>6

(* A message was written: its handler may write the next.                  *)
LEMMA MessageWrittenInv ==
  ASSUME IInv,
         NEW op \in ops,
         MessageWritten(op)
  PROVE  IInv'
<1> USE DEF IInv, MessageWritten, Handler, stream, context, mainThread,
     ioThread, outbox
<1>1. Types'
  BY ConnectionBounds DEF Types
<1>2. OpTypes'
  BY OpHandled
<1>3. Control'
  BY DEF Types, Control, Closing
<1>4. OneWrite'
  BY OpHandled DEF OneWrite, Turn, Control
<1>5. Numbers'
  BY DEF Numbers, InHand, Types
<1>6. KeepsReading'
  BY OpHandled DEF KeepsReading, Control
<1>7. QED
  BY <1>1, <1>2, <1>3, <1>4, <1>5, <1>6

(* A write failed.                                                         *)
LEMMA WriteErrorInv ==
  ASSUME IInv,
         NEW op \in ops,
         WriteError(op)
  PROVE  IInv'
<1> USE DEF IInv, WriteError, Handler, stream, context, mainThread, ioThread,
     outbox
<1>1. Types'
  BY ConnectionBounds DEF Types
<1>2. OpTypes'
  BY OpHandled
<1>3. Control'
  BY DEF Types, Control, Closing
<1>4. OneWrite'
  BY OpHandled DEF OneWrite, Turn, Control
<1>5. Numbers'
  BY DEF Numbers, InHand, Types
<1>6. KeepsReading'
  BY OpHandled DEF KeepsReading
<1>7. QED
  BY <1>1, <1>2, <1>3, <1>4, <1>5, <1>6

(* writeNext takes the next message, or ends the writing.                  *)
LEMMA WriteNextInv ==
  ASSUME IInv,
         WriteNext
  PROVE  IInv'
<1> USE DEF IInv, WriteNext, Leave, stream, context, mainThread, ioThread,
     outbox, HandlerStep
<1>1. Types'
  <2>1. queue # <<>> => Head(queue) \in 0..MaxWrites
    <3>1. ASSUME queue # <<>> PROVE Head(queue) \in Nat /\ Head(queue) <= calls
      BY <3>1, Popped DEF Numbers, InHand
    <3>2. QED
      BY <3>1, ConnectionBounds DEF Types
  <2>2. QED
    BY <2>1, ConnectionBounds DEF Types
<1>2. OpTypes'
  BY DEF OpTypes
<1>3. Control'
  BY DEF Types, Control, Closing
<1>4. OneWrite'
  <2>1. Writes' = Writes /\ (ws # 0 /\ queue # <<>> => Turn')
    BY DEF Writes, Turn
  <2>2. Writes = {}
    BY DEF OneWrite, Turn
  <2>3. QED
    BY <2>1, <2>2 DEF OneWrite, Turn, Control
<1>5. Numbers'
  <2>1. CASE ws = 0 \/ queue = <<>>
    BY <2>1 DEF Numbers, InHand
  <2>2. CASE ws # 0 /\ queue # <<>>
    <3>1. taken = 0 /\ written' = written /\ queue' = Tail(queue) /\ taken' = Head(queue)
          /\ io' = "write" /\ calls' = calls
      BY <2>2 DEF Numbers
    <3>2. Head(queue) = Len(written) + 1 /\ Head(queue) # 0 /\ Len(written) \in Nat
      BY <2>2, <3>1, Popped DEF Numbers, InHand
    <3>3. calls = Len(written) + 1 + Len(queue')
      BY <2>2, <3>1, Popped DEF Numbers, InHand
    <3>4. ASSUME NEW i \in 1..Len(queue') PROVE queue'[i] = Len(written) + 1 + i
      <4>1. queue'[i] = queue[i + 1] /\ i + 1 \in 1..Len(queue)
        BY <2>2, <3>1, Popped DEF Numbers
      <4>2. QED
        BY <3>1, <4>1 DEF Numbers, InHand
    <3>5. QED
      BY <2>2, <3>1, <3>2, <3>3, <3>4, Popped DEF Numbers, InHand
  <2>3. QED
    BY <2>1, <2>2
<1>6. KeepsReading'
  BY DEF KeepsReading, Reads, Control
<1>7. QED
  BY <1>1, <1>2, <1>3, <1>4, <1>5, <1>6

(* The message taken is written, or there is no stream.                    *)
LEMMA WriteTakenInv ==
  ASSUME IInv,
         WriteTaken
  PROVE  IInv'
<1> USE DEF IInv, WriteTaken, Leave, stream, context, mainThread, ioThread,
     outbox, HandlerStep
<1>1. Types'
  <2>1. taken' \in 0..MaxWrites /\ io' \in {"idle", "reread", "crashed"}
    BY ConnectionBounds DEF Types
  <2>2. replying' \in BOOLEAN
    BY DEF Types
  <2>3. QED
    BY <2>1, <2>2 DEF Types
<1>2. OpTypes'
  BY WriteStarts DEF Numbers, OpTypes
<1>3. Control'
  BY DEF Types, Control, Closing
<1>4. OneWrite'
  <2>1. CASE ws = 0
    BY <2>1 DEF OneWrite
  <2>2. CASE ws # 0
    <3>0. taken \in Nat \ {0}
      BY ConnectionBounds DEF Numbers, Types
    <3>1. \E op : Writes' = Writes \cup {op}
      BY <2>2, <3>0, WriteStarts
    <3>2. Writes = {} /\ isWriting
      BY DEF OneWrite, Turn
    <3>3. QED
      BY <2>2, <3>1, <3>2 DEF OneWrite, Turn
  <2>3. QED
    BY <2>1, <2>2
<1>5. Numbers'
  <2>1. CASE ws = 0
    BY <2>1 DEF Numbers, InHand
  <2>2. CASE ws # 0
    <3>1. written' = Append(written, taken) /\ taken' = 0 /\ io' # "write" /\ UNCHANGED <<queue, calls>>
      BY <2>2 DEF AsyncWrite
    <3>2. taken \in Nat /\ taken = Len(written) + 1 /\ taken # 0
      BY DEF Numbers, Types
    <3>3. Len(written') = Len(written) + 1 /\ written' \in Seq(Nat)
          /\ \A i \in 1..Len(written') : written'[i] = i
      BY <3>1, <3>2, Pushed DEF Numbers
    <3>4. QED
      BY <3>1, <3>2, <3>3 DEF Numbers, InHand
  <2>3. QED
    BY <2>1, <2>2
<1>6. KeepsReading'
  <2>1. CASE ws = 0
    BY <2>1 DEF KeepsReading, Control
  <2>2. CASE ws # 0
    BY <2>2, WriteStarts DEF KeepsReading, Numbers, Types
  <2>3. QED
    BY <2>1, <2>2
<1>7. QED
  BY <1>1, <1>2, <1>3, <1>4, <1>5, <1>6

(* An answer to a heartbeat is put on the queue.                           *)
LEMMA ReplyInv ==
  ASSUME IInv,
         Reply
  PROVE  IInv'
<1> USE DEF IInv, Reply, stream, context, mainThread, ioThread, outbox,
     HandlerStep
<1>1. Types'
  <2>1. calls' \in 0..MaxWrites
    BY ConnectionBounds DEF Types, Control
  <2>2. QED
    BY <2>1 DEF Types
<1>2. OpTypes'
  BY DEF OpTypes
<1>3. Control'
  BY DEF Types, Control, Closing
<1>4. OneWrite'
  BY DEF OneWrite, Turn, Writes, Control
<1>5. Numbers'
  <2>1. CASE ws = 0
    BY <2>1 DEF Numbers, InHand
  <2>2. CASE ws # 0
    <3>1. queue' = Append(queue, calls + 1) /\ calls' = calls + 1 /\ UNCHANGED <<written, taken>>
          /\ io' \in {"reread", "next"}
      BY <2>2
    <3>2. calls + 1 \in Nat /\ Len(queue) \in Nat /\ Len(written) \in Nat
      BY DEF Numbers, Types
    <3>3. queue' \in Seq(Nat) /\ Len(queue') = Len(queue) + 1
          /\ queue'[Len(queue) + 1] = calls + 1 /\ \A i \in 1..Len(queue) : queue'[i] = queue[i]
      BY <3>1, <3>2, Pushed DEF Numbers
    <3>4. QED
      BY <3>1, <3>2, <3>3 DEF Numbers, InHand
  <2>3. QED
    BY <2>1, <2>2
<1>6. KeepsReading'
  BY DEF KeepsReading, Reads, Control
<1>7. QED
  BY <1>1, <1>2, <1>3, <1>4, <1>5, <1>6

(* doRead looks at the stream.                                             *)
LEMMA ReadTestInv ==
  ASSUME IInv,
         ReadTest
  PROVE  IInv'
<1> USE DEF IInv, ReadTest, stream, context, mainThread, ioThread, outbox,
     HandlerStep
<1>1. Types'
  BY ConnectionBounds DEF Types
<1>2. OpTypes'
  BY DEF OpTypes
<1>3. Control'
  BY DEF Types, Control, Closing
<1>4. OneWrite'
  BY DEF OneWrite, Turn, Writes, Control
<1>5. Numbers'
  BY DEF Numbers, InHand, Types
<1>6. KeepsReading'
  BY DEF KeepsReading, Reads, Control
<1>7. QED
  BY <1>1, <1>2, <1>3, <1>4, <1>5, <1>6

(* doRead reads.                                                           *)
LEMMA ReadOnInv ==
  ASSUME IInv,
         ReadOn
  PROVE  IInv'
<1> USE DEF IInv, ReadOn, stream, context, mainThread, ioThread, outbox,
     HandlerStep
<1>1. Types'
  BY ConnectionBounds DEF Types
<1>2. OpTypes'
  BY ReadStarts DEF OpTypes
<1>3. Control'
  BY DEF Types, Control, Closing
<1>4. OneWrite'
  BY ReadStarts DEF OneWrite, Turn
<1>5. Numbers'
  BY DEF Numbers, InHand, Types
<1>6. KeepsReading'
  BY ReadStarts DEF KeepsReading, Control
<1>7. QED
  BY <1>1, <1>2, <1>3, <1>4, <1>5, <1>6

(* The thread leaves run().                                                *)
LEMMA ReturnsInv ==
  ASSUME IInv,
         IoReturns
  PROVE  IInv'
<1> USE DEF IInv, IoReturns, stream, context, mainThread, ioThread, outbox,
     HandlerStep
<1>1. Types'
  BY ConnectionBounds DEF Types
<1>2. OpTypes'
  BY DEF OpTypes
<1>3. Control'
  BY DEF Types, Control, Closing
<1>4. OneWrite'
  BY DEF OneWrite, Turn, Writes, Control
<1>5. Numbers'
  BY DEF Numbers, InHand, Types
<1>6. KeepsReading'
  BY DEF KeepsReading, Reads, Control
<1>7. QED
  BY <1>1, <1>2, <1>3, <1>4, <1>5, <1>6

(* The first message waiting when another was put on the queue.            *)
LEMMA FirstWaiting ==
  ASSUME Types, Numbers
  PROVE  Head(Append(queue, calls + 1)) \in Nat \ {0}
<1>1. calls + 1 \in Nat \ {0} /\ Len(queue) \in Nat /\ Len(written) \in Nat
  BY DEF Types, Numbers
<1>2. /\ Append(queue, calls + 1) \in Seq(Nat) /\ Append(queue, calls + 1) # <<>>
      /\ Append(queue, calls + 1)[1] = IF Len(queue) = 0 THEN calls + 1 ELSE queue[1]
  BY <1>1, Pushed DEF Numbers
<1>3. Len(queue) # 0 => queue[1] \in Nat \ {0}
  BY <1>1 DEF Numbers, InHand
<1>4. QED
  BY <1>1, <1>2, <1>3, Popped

(* Main puts a message on the queue, or writes the first.                  *)
LEMMA DoWriteInv ==
  ASSUME IInv,
         io # "crashed",
         DoWrite
  PROVE  IInv'
<1> USE DEF IInv, DoWrite, Locked, stream, context, mainThread, ioThread,
     outbox
<1>1. Types'
  <2>1. calls' \in 0..MaxWrites
    BY ConnectionBounds DEF Types
  <2>2. QED
    BY <2>1 DEF Types
<1>2. OpTypes'
  <2>1. CASE isWriting
    BY <2>1 DEF OpTypes
  <2>2. CASE ~isWriting
    <3>1. PICK m : m = Head(Append(queue, calls + 1)) /\ AsyncWrite(m)
      BY <2>2
    <3>2. m \in Nat \ {0}
      BY <3>1, FirstWaiting DEF Numbers, Types
    <3>3. QED
      BY <3>1, <3>2, WriteStarts
  <2>3. QED
    BY <2>1, <2>2
<1>3. Control'
  BY DEF Types, Control, Closing
<1>4. OneWrite'
  <2>1. CASE isWriting
    BY <2>1 DEF OneWrite, Turn, Writes
  <2>2. CASE ~isWriting
    <3>1. PICK m : m = Head(Append(queue, calls + 1)) /\ AsyncWrite(m)
      BY <2>2
    <3>2. m \in Nat \ {0}
      BY <3>1, FirstWaiting DEF Numbers, Types
    <3>3. \E op : Writes' = Writes \cup {op}
      BY <3>1, <3>2, WriteStarts
    <3>4. QED
      BY <2>2, <3>3 DEF OneWrite, Turn
  <2>3. QED
    BY <2>1, <2>2
<1>5. Numbers'
  <2>1. taken = 0 /\ taken' = 0 /\ io' = io /\ io # "write" /\ calls' = calls + 1
    BY DEF Numbers
  <2>2. calls + 1 \in Nat /\ Len(queue) \in Nat /\ Len(written) \in Nat
    BY DEF Numbers, Types
  <2> DEFINE waiting == Append(queue, calls + 1)
  <2>3. /\ waiting \in Seq(Nat) /\ Len(waiting) = Len(queue) + 1
        /\ waiting[Len(queue) + 1] = calls + 1
        /\ \A i \in 1..Len(queue) : waiting[i] = queue[i]
    BY <2>2, Pushed DEF Numbers
  <2>4. \A i \in 1..Len(waiting) : waiting[i] = Len(written) + i
    BY <2>1, <2>2, <2>3 DEF Numbers, InHand
  <2>5. CASE isWriting
    <3>1. queue' = waiting /\ written' = written
      BY <2>5
    <3>2. QED
      BY <2>1, <2>2, <2>3, <2>4, <3>1 DEF Numbers, InHand
  <2>6. CASE ~isWriting
    <3>1. queue' = Tail(waiting) /\ written' = Append(written, Head(waiting))
      BY <2>6 DEF AsyncWrite
    <3> HIDE DEF waiting
    <3>2. waiting # <<>>
      BY <2>2, <2>3
    <3>3. Head(waiting) = Len(written) + 1 /\ Len(Tail(waiting)) = Len(queue)
          /\ Tail(waiting) \in Seq(Nat)
      BY <2>2, <2>3, <2>4, <3>2, Popped
    <3>4. written' \in Seq(Nat) /\ Len(written') = Len(written) + 1
          /\ \A i \in 1..Len(written') : written'[i] = i
      BY <2>2, <3>1, <3>3, Pushed DEF Numbers
    <3>5. ASSUME NEW i \in 1..Len(queue') PROVE queue'[i] = Len(written') + i
      <4>1. queue'[i] = waiting[i + 1] /\ i + 1 \in 1..Len(waiting)
        BY <2>3, <3>1, <3>2, <3>3, Popped
      <4>2. QED
        BY <2>2, <2>4, <3>4, <4>1
    <3>6. InHand = 0 /\ InHand' = 0 /\ calls = Len(written) + Len(queue)
      BY <2>1, <2>2 DEF Numbers, InHand
    <3>7. calls' = Len(written') + InHand' + Len(queue')
      <4>1. Len(queue') = Len(queue)
        BY <3>1, <3>3
      <4>2. QED
        BY <2>1, <2>2, <3>4, <3>6, <4>1
    <3>8. \A i \in 1..Len(queue') : queue'[i] = Len(written') + InHand' + i
      BY <2>2, <3>4, <3>5, <3>6
    <3>9. QED
      BY <2>1, <3>1, <3>3, <3>4, <3>7, <3>8 DEF Numbers
  <2>7. QED
    BY <2>5, <2>6
<1>6. KeepsReading'
  <2>1. CASE isWriting
    BY <2>1 DEF KeepsReading, Reads
  <2>2. CASE ~isWriting
    <3>1. PICK m : m = Head(Append(queue, calls + 1)) /\ AsyncWrite(m)
      BY <2>2
    <3>2. m \in Nat \ {0}
      BY <3>1, FirstWaiting DEF Numbers, Types
    <3>3. QED
      BY <3>1, <3>2, WriteStarts DEF KeepsReading
  <2>3. QED
    BY <2>1, <2>2
<1>7. QED
  BY <1>1, <1>2, <1>3, <1>4, <1>5, <1>6

-----------------------------------------------------------------------------
(* Every step keeps the invariant.                                         *)
LEMMA NextInv ==
  ASSUME IInv, [Next]_vars
  PROVE  IInv'
<1>1. CASE UNCHANGED vars
  BY <1>1, StutterInv
<1>2. CASE Next
  <2>1. io # "crashed"
    BY <1>2 DEF Next
  <2>2. CASE RequestFails \/ ConnectFails \/ ConnectSucceeds \/ Disconnect
    BY <2>1, <2>2, RequestInv, ConnectInv, DisconnectInv
  <2>3. CASE Subscribe \/ SendPing
    BY <2>1, <2>3, DoWriteInv DEF Subscribe, SendPing
  <2>4. CASE MainGoesOn
    BY <2>1, <2>4, FirstReadInv, CloseInv, StopInv, JoinInv DEF MainGoesOn
  <2>5. CASE IoGoesOn
    <3>1. CASE \E op \in ops :
                 MessageRead(op) \/ ReadError(op) \/ MessageWritten(op) \/ WriteError(op)
      BY <3>1, MessageReadInv, ReadErrorInv, MessageWrittenInv, WriteErrorInv
    <3>2. CASE Reply \/ WriteNext \/ WriteTaken \/ ReadTest \/ ReadOn \/ IoReturns
      BY <3>2, ReplyInv, WriteNextInv, WriteTakenInv, ReadTestInv, ReadOnInv, ReturnsInv
    <3>3. QED
      BY <2>5, <3>1, <3>2 DEF IoGoesOn
  <2>6. CASE \E op \in ops : Complete(op)
    BY <2>6, CompleteInv
  <2>7. QED
    BY <1>2, <2>2, <2>3, <2>4, <2>5, <2>6 DEF Next
<1>3. QED
  BY <1>1, <1>2

(* The invariant of an exchange's connection, whoever calls what when: the *)
(* types, the places of the threads, the turn to write, the numbers of the *)
(* messages and the read that is kept going (api_exchange.cpp:165-425).    *)
THEOREM Inductive == Spec => []IInv
<1>1. Init => IInv
  BY InitInv
<1>2. IInv /\ [Next]_vars => IInv'
  BY NextInv
<1>3. QED
  BY <1>1, <1>2, PTL DEF Spec

-----------------------------------------------------------------------------
(* A sequence of numbers from 1 to n is one over 1..n.                     *)
LEMMA InBounds ==
  ASSUME NEW q \in Seq(Nat), NEW n \in Nat, \A i \in 1..Len(q) : q[i] \in 1..n
  PROVE  q \in Seq(1..n)
<1>1. q = [i \in 1..Len(q) |-> q[i]] /\ Len(q) \in Nat
  OBVIOUS
<1>2. [i \in 1..Len(q) |-> q[i]] \in Seq(1..n)
  BY <1>1
<1>3. QED
  BY <1>1, <1>2

(* The state of the object keeps its types, and no message is numbered     *)
(* beyond those put on the queue (api_exchange.h:171-216).                 *)
THEOREM TypeCorrect == Spec => []TypeOK
<1>1. IInv => TypeOK
  <2> SUFFICES ASSUME IInv PROVE TypeOK
    OBVIOUS
  <2>1. Len(written) \in Nat /\ Len(queue) \in Nat /\ InHand \in {0, 1}
    BY DEF IInv, Numbers, InHand
  <2>2. Len(written) + InHand + Len(queue) <= MaxWrites /\ MaxWrites \in Nat
    BY ConnectionBounds DEF IInv, Numbers, Types
  <2>3. \A i \in 1..Len(written) : written[i] \in 1..MaxWrites
    BY <2>1, <2>2 DEF IInv, Numbers
  <2>4. \A i \in 1..Len(queue) : queue[i] \in 1..MaxWrites
    BY <2>1, <2>2 DEF IInv, Numbers
  <2>5. written \in Seq(1..MaxWrites) /\ queue \in Seq(1..MaxWrites)
    BY <2>2, <2>3, <2>4, InBounds DEF IInv, Numbers
  <2>6. isWriting \in BOOLEAN /\ writeFailed \in BOOLEAN
    BY DEF IInv, Types
  <2>7. QED
    BY <2>5, <2>6 DEF IInv, Types, OpTypes, TypeOK
<1>2. QED
  BY <1>1, Inductive, PTL

(* m_isWriting is set exactly while one write is under way or its handler  *)
(* is about to take the next, in every session (api_exchange.cpp:385-422). *)
THEOREM FlagHonest == Spec => []WriteFlagHonest
<1>1. IInv => WriteFlagHonest
  <2> SUFFICES ASSUME IInv, io # "crashed" PROVE Turns = IF isWriting THEN 1 ELSE 0
    BY DEF WriteFlagHonest
  <2>1. /\ isWriting \in BOOLEAN /\ (isWriting <=> Writes # {} \/ Turn)
        /\ Writes = {} \/ ~Turn
        /\ \A a, b \in Writes : a = b
    BY DEF IInv, Types, OneWrite
  <2>2. Turns = Cardinality(Writes) + (IF Turn THEN 1 ELSE 0)
    BY DEF Turns, Turn
  <2>3. CASE Writes = {}
    BY <2>1, <2>2, <2>3, FS_EmptySet
  <2>4. CASE Writes # {}
    <3>1. PICK op \in Writes : Writes = {op}
      BY <2>1, <2>4
    <3>2. Cardinality(Writes) = 1
      BY <3>1, FS_Singleton
    <3>3. QED
      BY <2>1, <2>2, <2>4, <3>2
  <2>5. QED
    BY <2>3, <2>4
<1>2. QED
  BY <1>1, Inductive, PTL

-----------------------------------------------------------------------------
(* Numbers that go on where others end.                                    *)
LEMMA Joined ==
  ASSUME NEW p \in Seq(Nat), NEW q \in Seq(Nat),
         \A i \in 1..Len(p) : p[i] = i, \A i \in 1..Len(q) : q[i] = Len(p) + i
  PROVE  /\ p \o q \in Seq(Nat) /\ Len(p \o q) = Len(p) + Len(q)
         /\ p \o q = [i \in 1..(Len(p) + Len(q)) |-> i]
<1>1. /\ p \o q \in Seq(Nat) /\ Len(p \o q) = Len(p) + Len(q)
      /\ \A i \in 1..(Len(p) + Len(q)) :
           (p \o q)[i] = IF i <= Len(p) THEN p[i] ELSE q[i - Len(p)]
  BY ConcatProperties
<1>2. \A i \in 1..(Len(p) + Len(q)) : (p \o q)[i] = i
  BY <1>1
<1>3. ASSUME NEW s \in Seq(Nat) PROVE s = [i \in 1..Len(s) |-> s[i]]
  OBVIOUS
<1>4. QED
  BY <1>1, <1>2, <1>3

(* The messages given to the stream, the one in hand and those waiting are *)
(* all that were put on the queue, in that order, none twice and none      *)
(* lost, whoever called doWrite (api_exchange.cpp:385-422).                *)
THEOREM InOrder == Spec => []WrittenInOrder
<1>1. IInv => WrittenInOrder
  <2> SUFFICES ASSUME IInv PROVE WrittenInOrder
    OBVIOUS
  <2> DEFINE hand == IF taken = 0 THEN <<>> ELSE <<taken>>
  <2> DEFINE given == written \o hand
  <2>1. /\ written \in Seq(Nat) /\ queue \in Seq(Nat) /\ taken \in Nat
        /\ \A i \in 1..Len(written) : written[i] = i
        /\ \A i \in 1..Len(queue) : queue[i] = Len(written) + InHand + i
    BY DEF IInv, Numbers, Types
  <2>2. /\ hand \in Seq(Nat) /\ Len(hand) = InHand
        /\ \A i \in 1..Len(hand) : hand[i] = Len(written) + i
    <3>1. CASE taken = 0
      BY <3>1 DEF InHand
    <3>2. CASE taken # 0
      BY <2>1, <3>2 DEF IInv, Numbers, InHand
    <3>3. QED
      BY <3>1, <3>2
  <2> HIDE DEF hand
  <2>3. /\ given \in Seq(Nat) /\ Len(given) = Len(written) + InHand
        /\ given = [i \in 1..(Len(written) + InHand) |-> i]
    BY <2>1, <2>2, Joined
  <2>4. \A i \in 1..Len(given) : given[i] = i
    BY <2>3
  <2>5. \A i \in 1..Len(queue) : queue[i] = Len(given) + i
    BY <2>1, <2>3
  <2>6. calls = Len(given) + Len(queue)
    BY <2>3 DEF IInv, Numbers
  <2> HIDE DEF given
  <2>7. given \o queue = [i \in 1..calls |-> i]
    BY <2>1, <2>3, <2>4, <2>5, <2>6, Joined
  <2>8. QED
    BY <2>7 DEF WrittenInOrder, given, hand
<1>2. QED
  BY <1>1, Inductive, PTL

(* Until a read of it fails, a stream that is connected is being read,     *)
(* whatever the handlers write in between (api_exchange.cpp:363-382).      *)
THEOREM Reading == Spec => []KeepsReading
  BY Inductive, PTL DEF IInv

-----------------------------------------------------------------------------
(* Every step is a step of the session or leaves it alone.                 *)
LEMMA StepKept ==
  ASSUME IInv, [Next]_vars
  PROVE  [OneSession!Next]_(OneSession!vars)
<1> USE DEF stream, context, mainThread, ioThread
<1> DEFINE Same == Phase' = Phase /\ Thread' = Thread
<1>1. SUFFICES Same \/ OneSession!Next
  BY DEF OneSession!vars
<1>2. Control /\ io \in {"none", "idle", "reply", "next", "write", "reread", "read",
                         "returned", "crashed"}
      /\ main \in {"idle", "read", "close", "stop", "join"}
  BY DEF IInv, Types
<1>3. ASSUME UNCHANGED <<connected, main, io>> PROVE Same
  BY <1>3 DEF Phase, Thread
<1>4. CASE UNCHANGED vars \/ RequestFails \/ ConnectFails \/ Subscribe \/ SendPing
           \/ \E op \in ops : Complete(op) \/ ReadError(op) \/ WriteError(op)
  BY <1>3, <1>4 DEF vars, RequestFails, ConnectFails, OpenStream, Subscribe, SendPing, DoWrite,
     Complete, ReadError, WriteError, Handler
<1>5. CASE ConnectSucceeds
  <2>1. Phase = "closed" /\ Thread = "none" /\ Phase' = "open" /\ Thread' = "waiting"
    BY <1>2, <1>5 DEF ConnectSucceeds, OpenStream, Control, Phase, Thread
  <2>2. QED
    BY <2>1 DEF OneSession!Next, OneSession!Open
<1>6. CASE Disconnect
  <2>1. Phase = "open" /\ Phase' = "closing" /\ Thread' = Thread
    BY <1>6 DEF Disconnect, Phase, Thread
  <2>2. QED
    BY <2>1 DEF OneSession!Next, OneSession!Close
<1>7. CASE FirstRead \/ CloseStream \/ StopContext
  BY <1>2, <1>7 DEF FirstRead, CloseStream, StopContext, Control, Phase, Thread
<1>8. CASE Join
  <2>1. Phase = "closing" /\ Thread = "none" /\ Phase' = "closed" /\ Thread' = Thread
    BY <1>2, <1>8 DEF Join, Control, Phase, Thread
  <2>2. QED
    BY <2>1 DEF OneSession!Next, OneSession!Closed
<1>9. CASE \E op \in ops : MessageRead(op) \/ MessageWritten(op)
  <2>1. Phase # "closed" /\ Phase' = Phase /\ Thread = "waiting" /\ Thread' = "working"
    BY <1>2, <1>9 DEF MessageRead, MessageWritten, Handler, ProcessMessage, ProcessQuote,
       RespondHeartbeat, Control, Phase, Thread
  <2>2. QED
    BY <2>1 DEF OneSession!Next, OneSession!Work
<1>10. CASE Reply \/ WriteNext \/ WriteTaken \/ ReadTest \/ ReadOn
  <2>1. Phase' = Phase /\ Thread = "working" /\ Thread' \in {"working", "waiting"}
    BY <1>10 DEF Reply, WriteNext, WriteTaken, ReadTest, ReadOn, HandlerStep, Leave, Phase, Thread
  <2>2. QED
    BY <2>1 DEF OneSession!Next, OneSession!Rest
<1>11. CASE IoReturns
  <2>1. Phase = "closing" /\ Phase' = Phase /\ Thread = "waiting" /\ Thread' = "none"
    BY <1>2, <1>11 DEF IoReturns, HandlerStep, Control, Phase, Thread
  <2>2. QED
    BY <2>1 DEF OneSession!Next, OneSession!End
<1>12. QED
  BY <1>4, <1>5, <1>6, <1>7, <1>8, <1>9, <1>10, <1>11 DEF Next, MainGoesOn, IoGoesOn

(* The connection implements Session for any number of streams and         *)
(* messages: its thread lasts from connect until disconnect returns and    *)
(* ends between two handlers (api_exchange.cpp:172-240).                   *)
THEOREM SessionImplemented == Spec => SessionKept
<1>1. Init => OneSession!Init
  BY DEF Init, OneSession!Init, Phase, Thread
<1>2. IInv /\ [Next]_vars => [OneSession!Next]_(OneSession!vars)
  BY StepKept
<1>3. QED
  BY <1>1, <1>2, Inductive, PTL DEF Spec, SessionKept, OneSession!Spec

=============================================================================
