------------------------- MODULE GWSocketStepProofs -------------------------
(***************************************************************************)
(* What a step of a socket does to its fields, whichever member function   *)
(* it runs.  A socket that satisfies Core takes one of the few steps       *)
(* below, at the end of some of them the write pump (checkWriting) takes   *)
(* one message off the queue, and no other field that a property speaks of *)
(* changes.  The proofs about events, messages and streams look at these   *)
(* steps instead of the member functions.                                  *)
(***************************************************************************)
EXTENDS GWSocketOpsProofs

NewOp(s, kind) == [kind |-> kind, gen |-> s.generation, stream |-> s.stream]

EndedEvent  == [type |-> "IN_DISCONNECTED", gens |-> {}]
FailedEvent == [type |-> "IN_ERROR", gens |-> {}]
CloseMessage == [type |-> "OUT_DISCONNECT", id |-> 0]
TextMessage(n) == [type |-> "OUT_MESSAGE", id |-> n]

\* The connection stays what it is.
SameConnection(s, t) ==
  /\ t.generation = s.generation /\ t.stream = s.stream
  /\ t.established = s.established /\ t.kind = s.kind

\* open()
OpenStep(s, t) ==
  /\ s.state = "DISCONNECTED" /\ t.state = "CONNECTING"
  /\ t.generation = s.generation + 1 /\ t.kind = s.kind
  /\ t.pending = s.pending \cup {NewOp(t, "resolve")}
  /\ t.stream = s.stream /\ t.established = s.established
  /\ t.crashed = s.crashed /\ t.messageQueue = s.messageQueue
  /\ t.messageToWrite = s.messageToWrite /\ t.written = s.written
  /\ t.sent = s.sent /\ t.closeMark = s.closeMark
  /\ t.writeQueue = s.writeQueue \/ t.writeQueue = << >>

\* doClose(), alone or after IN_ERROR was put, at the end of a call or of a
\* handler, which may have made a new stream before.
EndStep(s, t) ==
  /\ s.state # "DISCONNECTED" /\ t.state = "DISCONNECTED"
  /\ t.generation = s.generation + 1 /\ t.kind = s.kind
  /\ t.pending \subseteq s.pending
  /\ t.stream = s.stream \/ t.stream = s.generation
  /\ t.established = FALSE /\ t.crashed = s.crashed
  /\ \/ t.messageQueue = Append(s.messageQueue, EndedEvent)
     \/ t.messageQueue = Append(Append(s.messageQueue, FailedEvent), EndedEvent)
  /\ t.messageToWrite = s.messageToWrite /\ t.written = s.written
  /\ t.sent = s.sent \/ t.sent = << >>
  /\ t.closeMark = s.closeMark /\ t.writeQueue = << >>

\* A completion whose handler guardGeneration does not run, or that only
\* fills readBuffer, or no step.
StaleStep(s, t) ==
  /\ t.state = s.state /\ SameConnection(s, t) /\ SameData(s, t)
  /\ t.pending \subseteq s.pending /\ Current(t) = Current(s)
  /\ t.crashed = s.crashed /\ t.messageQueue = s.messageQueue

\* An operation of connecting or reading fails while the closing handshake
\* is under way: setDisconnectingCAS refuses and nothing more is done.
GiveUpStep(s, t) ==
  \E op \in Current(s) :
    /\ op.kind \in Incoming
    /\ s.state = "DISCONNECTING" /\ t.state = s.state
    /\ t.generation = s.generation /\ t.established = s.established
    /\ t.pending = s.pending \ {op} /\ t.kind = s.kind
    /\ t.stream = s.stream \/ t.stream = s.generation
    /\ t.sent = s.sent \/ t.sent = << >>
    /\ t.crashed = s.crashed /\ t.messageQueue = s.messageQueue
    /\ t.messageToWrite = s.messageToWrite /\ t.written = s.written
    /\ t.closeMark = s.closeMark /\ t.writeQueue = s.writeQueue

\* webSocketThink takes the events.
DeliverStep(s, t) ==
  /\ t.state = s.state /\ SameConnection(s, t) /\ SameData(s, t)
  /\ t.pending = s.pending
  /\ t.crashed = s.crashed /\ t.messageQueue = << >>

\* One operation of connecting completes and the next is started; after the
\* lookup on a new stream.
ConnectStep(s, t) ==
  \E op \in Current(s), kind \in ConnectPhase \ {"resolve"} :
    /\ op.kind \in ConnectPhase
    /\ t.state = s.state /\ t.generation = s.generation
    /\ t.established = s.established /\ t.kind = s.kind
    /\ kind = "ssl_handshake" => s.kind # "ws"
    /\ t.pending = (s.pending \ {op}) \cup {NewOp(t, kind)}
    /\ IF op.kind = "resolve" THEN t.stream = s.generation /\ t.sent = << >>
                              ELSE t.stream = s.stream /\ t.sent = s.sent
    /\ t.crashed = (s.crashed \/ t.stream = 0)
    /\ t.messageQueue = s.messageQueue
    /\ t.messageToWrite = s.messageToWrite /\ t.written = s.written
    /\ t.closeMark = s.closeMark /\ t.writeQueue = s.writeQueue

\* onRead() passes a message on and reads again.
ReceiveStep(s, t) ==
  \E op \in Current(s), gens \in SUBSET Nat :
    /\ op.kind = "read" /\ s.established /\ s.state # "DISCONNECTED"
    /\ t.state = s.state /\ SameConnection(s, t) /\ SameData(s, t)
    /\ t.pending = (s.pending \ {op}) \cup {NewOp(s, "read")}
    /\ t.crashed = (s.crashed \/ s.stream = 0)
    /\ t.messageQueue = Append(s.messageQueue,
                               [type |-> "IN_MESSAGE", gens |-> gens])

\* clearQueue()
ClearStep(s, t) ==
  /\ t.state = s.state /\ SameConnection(s, t)
  /\ t.pending = s.pending
  /\ t.crashed = s.crashed /\ t.messageQueue = s.messageQueue
  /\ t.messageToWrite = s.messageToWrite /\ t.written = s.written
  /\ t.sent = s.sent /\ t.closeMark = s.closeMark
  /\ t.writeQueue = << >>

\* write(), close(), handshakeCompleted() and onWrite() up to checkWriting().
QueueStep(s, t) ==
  /\ t.state = s.state /\ SameConnection(s, t)
  /\ t.pending = s.pending
  /\ t.crashed = s.crashed /\ t.messageQueue = s.messageQueue
  /\ t.messageToWrite = s.messageToWrite /\ t.written = s.written + 1
  /\ t.sent = s.sent /\ t.closeMark = s.closeMark
  /\ t.writeQueue = Append(s.writeQueue, TextMessage(t.written))

RequestStep(s, t) ==
  /\ s.state \in {"CONNECTING", "CONNECTED"}
  /\ t.state = "DISCONNECT_REQUESTED" /\ SameConnection(s, t)
  /\ t.pending = s.pending
  /\ t.crashed = s.crashed /\ t.messageQueue = s.messageQueue
  /\ t.messageToWrite = s.messageToWrite /\ t.written = s.written
  /\ t.sent = s.sent /\ t.closeMark = s.written
  /\ t.writeQueue = Append(s.writeQueue, CloseMessage)

EstablishStep(s, t) ==
  \E op \in Current(s) :
    /\ op.kind = "handshake" /\ ~s.established
    /\ s.state = "CONNECTING" /\ t.state = "CONNECTED"
    /\ t.generation = s.generation /\ t.stream = s.stream
    /\ t.established = TRUE /\ t.kind = s.kind /\ SameData(s, t)
    /\ t.pending = (s.pending \ {op}) \cup {NewOp(s, "read")}
    /\ t.crashed = (s.crashed \/ s.stream = 0)
    /\ t.messageQueue = Append(s.messageQueue,
                               [type |-> "IN_CONNECTED", gens |-> {}])

AcknowledgeStep(s, t) ==
  \E op \in Current(s) :
    /\ op.kind = "write"
    /\ t.state = s.state /\ SameConnection(s, t)
    /\ t.pending = s.pending \ {op}
    /\ t.crashed = s.crashed /\ t.messageQueue = s.messageQueue
    /\ t.messageToWrite = s.messageToWrite /\ t.written = s.written
    /\ t.sent = Append(s.sent, s.messageToWrite)
    /\ t.closeMark = s.closeMark /\ t.writeQueue = s.writeQueue

\* checkWriting() takes the first message off the queue.
PumpStep(s, t) ==
  LET message == Head(s.writeQueue)
  IN  /\ s.state \in {"CONNECTED", "DISCONNECT_REQUESTED"}
      /\ ~s.writing /\ s.writeQueue # << >>
      /\ SameConnection(s, t)
      /\ t.crashed = (s.crashed \/ s.stream = 0)
      /\ t.messageQueue = s.messageQueue /\ t.written = s.written
      /\ t.sent = s.sent /\ t.closeMark = s.closeMark
      /\ t.writeQueue = Tail(s.writeQueue)
      /\ \/ /\ message.type = "OUT_MESSAGE" /\ t.state = s.state
            /\ t.messageToWrite = message.id
            /\ t.pending = s.pending \cup {NewOp(s, "write")}
         \/ /\ message.type = "OUT_DISCONNECT"
            /\ s.state = "DISCONNECT_REQUESTED"
            /\ t.state = "DISCONNECTING"
            /\ t.messageToWrite = s.messageToWrite
            /\ t.pending = s.pending \cup {NewOp(s, "close")}

MayPump(s, t) == t = s \/ PumpStep(s, t)

\* A call of write().
WriteStep(s, t) == \E u : Core(u) /\ QueueStep(s, u) /\ MayPump(u, t)

\* A call of close(), which leaves the queue of a connecting socket alone.
AskCloseStep(s, t) ==
  \E u : /\ Core(u) /\ RequestStep(s, u)
         /\ t = u \/ (s.state = "CONNECTED" /\ PumpStep(u, t))

\* The completions after which the pump may run.
ResumeStep(s, t) ==
  \E u : /\ Core(u) /\ (EstablishStep(s, u) \/ AcknowledgeStep(s, u))
         /\ MayPump(u, t)

\* Every step but write() and clearQueue().
OtherStep(s, t) ==
  \/ OpenStep(s, t) \/ EndStep(s, t) \/ StaleStep(s, t) \/ DeliverStep(s, t)
  \/ ConnectStep(s, t) \/ ReceiveStep(s, t) \/ GiveUpStep(s, t)
  \/ AskCloseStep(s, t) \/ ResumeStep(s, t)

----------------------------------------------------------------------------
(* The parts that several member functions share.                          *)

\* checkWriting() does nothing or takes one message; Marks excludes its
\* fallback to closeNow().
LEMMA CheckWritingStep ==
  ASSUME NEW s, Core(s)
  PROVE  MayPump(s, checkWriting(s))
<1> DEFINE q == s.writeQueue
           t == Popped(s)
<1>1. s \in Socket /\ q \in Seq(OutMessage)
  BY FieldTypes DEF Core, Closable
<1>2. CASE ~(/\ s.state \in {"CONNECTED", "DISCONNECT_REQUESTED"}
             /\ ~s.writing
             /\ q # << >>)
  BY <1>2 DEF checkWriting, MayPump
<1>3. CASE /\ s.state \in {"CONNECTED", "DISCONNECT_REQUESTED"}
           /\ ~s.writing
           /\ q # << >>
  <2>1. /\ t \in Socket
        /\ t.writing = TRUE /\ t.writeQueue = Tail(q)
        /\ t.state = s.state /\ t.generation = s.generation
        /\ t.pending = s.pending /\ t.stream = s.stream
        /\ t.established = s.established /\ t.messageQueue = s.messageQueue
        /\ t.messageToWrite = s.messageToWrite
        /\ t.written = s.written /\ t.sent = s.sent
        /\ t.closeMark = s.closeMark /\ t.crashed = s.crashed
        /\ t.kind = s.kind
    BY <1>1, <1>3, PoppedEffect
  <2>2. Head(q) = q[1] /\ 1 \in DOMAIN q /\ q[1] \in OutMessage
    BY <1>1, <1>3, TailFacts
  <2> HIDE DEF t
  <2>3. CASE q[1].type = "OUT_MESSAGE"
    <3> DEFINE n == q[1].id
               u == [t EXCEPT !.messageToWrite = n]
               v == Start(u, "write")
    <3>1. n \in Nat
      BY <2>2 DEF OutMessage
    <3>2. checkWriting(s) = v
      BY <1>3, <2>2, <2>3 DEF checkWriting, asyncWrite, t, Popped
    <3> HIDE DEF n
    <3>3. /\ u \in Socket
          /\ u.writeQueue = Tail(q) /\ u.messageToWrite = n
          /\ u.state = s.state /\ u.generation = s.generation
          /\ u.pending = s.pending /\ u.stream = s.stream
          /\ u.established = s.established
          /\ u.messageQueue = s.messageQueue
          /\ u.written = s.written /\ u.sent = s.sent
          /\ u.closeMark = s.closeMark /\ u.crashed = s.crashed
          /\ u.kind = s.kind
      BY <2>1, <3>1 DEF Socket
    <3> HIDE DEF u
    <3>4. "write" \in OpKind
      BY DEF OpKind
    <3>5. /\ v.pending = u.pending \cup {NewOp(u, "write")}
          /\ v.state = u.state /\ SameConnection(u, v)
          /\ SameData(u, v) /\ v.messageQueue = u.messageQueue
          /\ v.crashed = (u.crashed \/ u.stream = 0)
      BY <3>3, <3>4, StartEffect DEF NewOp, SameConnection
    <3> HIDE DEF v
    <3>6. PumpStep(s, v)
      BY <1>3, <2>2, <2>3, <3>3, <3>5
         DEF PumpStep, SameConnection, SameData, NewOp, n
    <3> QED
      BY <3>2, <3>6 DEF MayPump
  <2>4. CASE q[1].type = "OUT_DISCONNECT"
    <3> DEFINE u == [t EXCEPT !.state = "DISCONNECTING"]
               v == Start(u, "close")
    <3>1. s.state = "DISCONNECT_REQUESTED"
      BY <2>2, <2>4 DEF Core, Marks
    <3>2. checkWriting(s) = v
      BY <1>3, <2>1, <2>2, <2>4, <3>1
         DEF checkWriting, asyncCloseSocket, t, Popped
    <3>3. /\ u \in Socket
          /\ u.writeQueue = Tail(q) /\ u.messageToWrite = s.messageToWrite
          /\ u.state = "DISCONNECTING" /\ u.generation = s.generation
          /\ u.pending = s.pending /\ u.stream = s.stream
          /\ u.established = s.established
          /\ u.messageQueue = s.messageQueue
          /\ u.written = s.written /\ u.sent = s.sent
          /\ u.closeMark = s.closeMark /\ u.crashed = s.crashed
          /\ u.kind = s.kind
      BY <2>1 DEF Socket, SocketState
    <3> HIDE DEF u
    <3>4. "close" \in OpKind
      BY DEF OpKind
    <3>5. /\ v.pending = u.pending \cup {NewOp(u, "close")}
          /\ v.state = u.state /\ SameConnection(u, v)
          /\ SameData(u, v) /\ v.messageQueue = u.messageQueue
          /\ v.crashed = (u.crashed \/ u.stream = 0)
      BY <3>3, <3>4, StartEffect DEF NewOp, SameConnection
    <3> HIDE DEF v
    <3>6. PumpStep(s, v)
      BY <1>3, <2>2, <2>4, <3>1, <3>3, <3>5
         DEF PumpStep, SameConnection, SameData, NewOp
    <3> QED
      BY <3>2, <3>6 DEF MayPump
  <2> QED
    BY <2>2, <2>3, <2>4 DEF OutMessage
<1> QED
  BY <1>2, <1>3

\* doClose() and its two callers end the connection.
LEMMA DoCloseStep ==
  ASSUME NEW s \in Socket, s.state # "DISCONNECTED"
  PROVE  EndStep(s, doClose(s)) /\ EndStep(s, doClose(put(s, "IN_ERROR", {})))
<1>1. EndStep(s, doClose(s))
  BY DoCloseEffect DEF EndStep, EndedEvent
<1> DEFINE u == put(s, "IN_ERROR", {})
           t == doClose(u)
<1>2. [type |-> "IN_ERROR", gens |-> {}] \in InMessage
  BY DEF InMessage
<1>3. /\ u \in Socket /\ SameControl(s, u) /\ SameData(s, u)
      /\ u.messageQueue = Append(s.messageQueue, FailedEvent)
  BY <1>2, PutEffect DEF FailedEvent
<1> HIDE DEF u
<1>4. /\ t.state = "DISCONNECTED" /\ t.generation = u.generation + 1
      /\ t.established = FALSE /\ t.crashed = u.crashed /\ t.kind = u.kind
      /\ t.pending = u.pending /\ t.stream = u.stream
      /\ t.writeQueue = << >> /\ t.messageToWrite = u.messageToWrite
      /\ t.written = u.written /\ t.sent = u.sent
      /\ t.closeMark = u.closeMark
      /\ t.messageQueue = Append(u.messageQueue, EndedEvent)
  BY <1>3, DoCloseEffect DEF EndedEvent
<1> HIDE DEF t
<1>5. EndStep(s, t)
  BY <1>3, <1>4 DEF EndStep, SameControl, SameData
<1> QED
  BY <1>1, <1>5 DEF t, u

LEMMA CloseNowStep ==
  ASSUME NEW s \in Socket, setDisconnectingCAS(s)
  PROVE  EndStep(s, closeNow(s)) /\ EndStep(s, errorConnection(s))
BY DoCloseStep DEF closeNow, errorConnection, setDisconnectingCAS

\* The end of a connection in a handler: the completed operation is gone.
LEMMA CompletedEnd ==
  ASSUME NEW s \in Socket, NEW op, NEW t, EndStep(Completed(s, op), t)
  PROVE  EndStep(s, t)
<1> DEFINE u == Completed(s, op)
<1>1. /\ u.pending = s.pending \ {op}
      /\ u.state = s.state /\ u.generation = s.generation
      /\ u.stream = s.stream /\ SameData(s, u)
      /\ u.messageQueue = s.messageQueue /\ u.crashed = s.crashed
      /\ u.kind = s.kind
  BY CompletedEffect
<1>2. EndStep(u, t)
  OBVIOUS
<1> HIDE DEF u
<1> QED
  BY <1>1, <1>2 DEF EndStep, SameData

----------------------------------------------------------------------------
(* The handlers.  Each lemma is about the completion of a current          *)
(* operation; stale ones come at the end.                                  *)

\* closeNow() or errorConnection() at the end of a handler.
LEMMA HandlerCloses ==
  ASSUME NEW s, Core(s), NEW op \in Current(s), op.kind \in Incoming
  PROVE  /\ OtherStep(s, closeNow(Completed(s, op)))
         /\ OtherStep(s, errorConnection(Completed(s, op)))
<1> DEFINE u == Completed(s, op)
<1>1. s \in Socket
  BY DEF Core, Closable
<1>2. /\ u \in Socket /\ u.pending = s.pending \ {op}
      /\ u.state = s.state /\ u.generation = s.generation
      /\ u.stream = s.stream /\ u.established = s.established
      /\ SameData(s, u) /\ u.messageQueue = s.messageQueue
      /\ u.crashed = s.crashed /\ u.kind = s.kind
  BY <1>1, CompletedEffect
<1>3. CASE setDisconnectingCAS(u)
  <2>1. EndStep(u, closeNow(u)) /\ EndStep(u, errorConnection(u))
    BY <1>2, <1>3, CloseNowStep
  <2>2. EndStep(s, closeNow(u)) /\ EndStep(s, errorConnection(u))
    BY <1>1, <2>1, CompletedEnd
  <2> QED
    BY <2>2 DEF OtherStep
<1>4. CASE ~setDisconnectingCAS(u)
  <2>1. closeNow(u) = u /\ errorConnection(u) = u
    BY <1>4 DEF closeNow, errorConnection
  <2>2. s.state = "DISCONNECTING"
    BY <1>2, <1>4 DEF setDisconnectingCAS, Core, Alive
  <2> HIDE DEF u
  <2>3. GiveUpStep(s, u)
    BY <1>2, <2>2 DEF GiveUpStep, SameData
  <2> QED
    BY <2>1, <2>3 DEF OtherStep, u
<1> QED
  BY <1>3, <1>4

\* The socket after resetWS().
LEMMA ResetWSEffect ==
  ASSUME NEW s \in Socket
  PROVE  LET t == resetWS(s)
             u == [t EXCEPT !.tcpOpen = TRUE]
         IN  \A v \in {t, u} :
               /\ v \in Socket /\ v.state = s.state
               /\ v.generation = s.generation
               /\ v.pending = s.pending /\ v.stream = s.generation
               /\ v.established = s.established /\ v.crashed = s.crashed
               /\ v.kind = s.kind
               /\ v.messageQueue = s.messageQueue
               /\ v.messageToWrite = s.messageToWrite
               /\ v.written = s.written /\ v.sent = << >>
               /\ v.closeMark = s.closeMark /\ v.writeQueue = s.writeQueue
<1> DEFINE g == s.generation
           t == [s EXCEPT !.stream = g, !.tcpOpen = FALSE, !.sent = << >>]
           u == [t EXCEPT !.tcpOpen = TRUE]
<1>1. g \in Nat /\ << >> \in Seq(Nat)
  BY FieldTypes
<1>2. resetWS(s) = t
  BY DEF resetWS
<1> HIDE DEF g
<1>3. /\ t \in Socket /\ t.state = s.state /\ t.generation = s.generation
      /\ t.pending = s.pending /\ t.stream = g
      /\ t.established = s.established /\ t.crashed = s.crashed
      /\ t.kind = s.kind
      /\ t.messageQueue = s.messageQueue
      /\ t.messageToWrite = s.messageToWrite
      /\ t.written = s.written /\ t.sent = << >>
      /\ t.closeMark = s.closeMark /\ t.writeQueue = s.writeQueue
  BY <1>1 DEF Socket
<1> HIDE DEF t
<1>4. /\ u \in Socket /\ u.state = s.state /\ u.generation = s.generation
      /\ u.pending = s.pending /\ u.stream = g
      /\ u.established = s.established /\ u.crashed = s.crashed
      /\ u.kind = s.kind
      /\ u.messageQueue = s.messageQueue
      /\ u.messageToWrite = s.messageToWrite
      /\ u.written = s.written /\ u.sent = << >>
      /\ u.closeMark = s.closeMark /\ u.writeQueue = s.writeQueue
  BY <1>3 DEF Socket
<1> HIDE DEF u
<1> QED
  BY <1>2, <1>3, <1>4 DEF g, u

LEMMA HostResolvedStepStep ==
  ASSUME NEW s, Core(s), NEW op \in Current(s), op.kind = "resolve",
         NEW ec, NEW tlsParams
  PROVE  OtherStep(s, hostResolvedStep(Completed(s, op), ec, tlsParams))
<1> DEFINE c == Completed(s, op)
           t == resetWS(c)
           u == [t EXCEPT !.tcpOpen = TRUE]
           v == Start(u, "connect")
<1>1. s \in Socket /\ op.kind \in Incoming /\ op.kind \in ConnectPhase
  BY DEF Core, Closable, Incoming, ConnectPhase
<1>2. /\ c \in Socket /\ c.pending = s.pending \ {op}
      /\ c.state = s.state /\ c.generation = s.generation
      /\ c.established = s.established
      /\ SameData(s, c) /\ c.messageQueue = s.messageQueue
      /\ c.crashed = s.crashed /\ c.kind = s.kind
  BY <1>1, CompletedEffect
<1>3. OtherStep(s, errorConnection(c))
  BY <1>1, HandlerCloses
<1>4. hostResolvedStep(c, ec, tlsParams) \in {errorConnection(c),
                                              errorConnection(t), v}
  BY DEF hostResolvedStep, asyncConnect
<1> HIDE DEF c
<1>5. /\ t \in Socket /\ t.state = s.state /\ t.generation = s.generation
      /\ t.pending = s.pending \ {op} /\ t.stream = s.generation
      /\ t.established = s.established /\ t.crashed = s.crashed
      /\ t.kind = s.kind
      /\ t.messageQueue = s.messageQueue
      /\ t.messageToWrite = s.messageToWrite
      /\ t.written = s.written /\ t.sent = << >>
      /\ t.closeMark = s.closeMark /\ t.writeQueue = s.writeQueue
  BY <1>2, ResetWSEffect DEF SameData
<1>6. /\ u \in Socket /\ u.state = s.state /\ u.generation = s.generation
      /\ u.pending = s.pending \ {op} /\ u.stream = s.generation
      /\ u.established = s.established /\ u.crashed = s.crashed
      /\ u.kind = s.kind
      /\ u.messageQueue = s.messageQueue
      /\ u.messageToWrite = s.messageToWrite
      /\ u.written = s.written /\ u.sent = << >>
      /\ u.closeMark = s.closeMark /\ u.writeQueue = s.writeQueue
  BY <1>2, ResetWSEffect DEF SameData
<1> HIDE DEF t, u
<1>7. OtherStep(s, errorConnection(t))
  <2>1. CASE setDisconnectingCAS(t)
    <3>1. EndStep(t, errorConnection(t))
      BY <1>5, <2>1, CloseNowStep
    <3>2. EndStep(s, errorConnection(t))
      BY <1>5, <3>1 DEF EndStep
    <3> QED
      BY <3>2 DEF OtherStep
  <2>2. CASE ~setDisconnectingCAS(t)
    <3>1. errorConnection(t) = t
      BY <2>2 DEF errorConnection
    <3>2. s.state = "DISCONNECTING"
      BY <1>5, <2>2 DEF setDisconnectingCAS, Core, Alive
    <3>3. GiveUpStep(s, t)
      BY <1>1, <1>5, <3>2 DEF GiveUpStep
    <3> QED
      BY <3>1, <3>3 DEF OtherStep
  <2> QED
    BY <2>1, <2>2
<1>8. OtherStep(s, v)
  <2>1. "connect" \in OpKind /\ "connect" \in ConnectPhase \ {"resolve"}
    BY DEF OpKind, ConnectPhase
  <2>2. /\ v.pending = u.pending \cup {NewOp(u, "connect")}
        /\ v.state = u.state /\ SameConnection(u, v)
        /\ SameData(u, v) /\ v.messageQueue = u.messageQueue
        /\ v.crashed = (u.crashed \/ u.stream = 0)
    BY <1>6, <2>1, StartEffect DEF NewOp, SameConnection
  <2> HIDE DEF v
  <2>3. NewOp(u, "connect") = NewOp(v, "connect")
    BY <2>2 DEF NewOp, SameConnection
  <2>4. ConnectStep(s, v)
    BY <1>1, <1>6, <2>1, <2>2, <2>3
       DEF ConnectStep, SameConnection, SameData
  <2> QED
    BY <2>4 DEF OtherStep
<1> QED
  BY <1>3, <1>4, <1>7, <1>8 DEF c

\* The next operation of connecting, on the same stream.
LEMMA ContinueStep ==
  ASSUME NEW s, Core(s), NEW op \in Current(s),
         op.kind \in ConnectPhase \ {"resolve"},
         NEW kind \in ConnectPhase \ {"resolve"},
         kind = "ssl_handshake" => s.kind # "ws"
  PROVE  OtherStep(s, Start(Completed(s, op), kind))
<1> DEFINE u == Completed(s, op)
           v == Start(u, kind)
<1>1. s \in Socket /\ kind \in OpKind
  BY DEF Core, Closable, OpKind
<1>2. /\ u \in Socket /\ u.pending = s.pending \ {op}
      /\ u.state = s.state /\ u.generation = s.generation
      /\ u.stream = s.stream /\ u.established = s.established
      /\ SameData(s, u) /\ u.messageQueue = s.messageQueue
      /\ u.crashed = s.crashed /\ u.kind = s.kind
  BY <1>1, CompletedEffect
<1> HIDE DEF u
<1>3. /\ v.pending = u.pending \cup {NewOp(u, kind)}
      /\ v.state = u.state /\ SameConnection(u, v)
      /\ SameData(u, v) /\ v.messageQueue = u.messageQueue
      /\ v.crashed = (u.crashed \/ u.stream = 0)
  BY <1>1, <1>2, StartEffect DEF NewOp, SameConnection
<1> HIDE DEF v
<1>4. NewOp(u, kind) = NewOp(v, kind)
  BY <1>3 DEF NewOp, SameConnection
<1>5. ConnectStep(s, v)
  BY <1>2, <1>3, <1>4 DEF ConnectStep, SameConnection, SameData
<1> QED
  BY <1>5 DEF OtherStep, u, v

LEMMA SocketConnectedStep ==
  ASSUME NEW s, Core(s), NEW op \in Current(s), op.kind = "connect", NEW ec
  PROVE  OtherStep(s, socketConnected(Completed(s, op), ec))
<1>1. OtherStep(s, errorConnection(Completed(s, op)))
  BY HandlerCloses DEF Incoming, ConnectPhase
<1>2. /\ OtherStep(s, Start(Completed(s, op), "handshake"))
      /\ s.kind # "ws" =>
           OtherStep(s, Start(Completed(s, op), "ssl_handshake"))
  BY ContinueStep DEF ConnectPhase
<1>3. Completed(s, op).kind = s.kind
  BY CompletedEffect DEF Core, Closable
<1> QED
  BY <1>1, <1>2, <1>3 DEF socketConnected, asyncHandshake

LEMMA HandshakeCompletedStep ==
  ASSUME NEW s, Core(s), NEW op \in Current(s), NEW ec,
         \/ op.kind = "handshake"
         \/ op.kind = "ssl_handshake" /\ ec # "ok"
  PROVE  OtherStep(s, handshakeCompleted(Completed(s, op), ec))
<1> DEFINE u == Completed(s, op)
<1>1. s \in Socket /\ op.kind \in Incoming /\ op.kind \in ConnectPhase
  BY DEF Core, Closable, Incoming, ConnectPhase
<1>2. OtherStep(s, closeNow(u)) /\ OtherStep(s, errorConnection(u))
  BY <1>1, HandlerCloses
<1>3. ASSUME s.state = "CONNECTING", op.kind = "handshake"
      PROVE  OtherStep(s, checkWriting(Established(u)))
  <2> DEFINE v == Established(u)
  <2>1. /\ u \in Socket /\ u.pending = s.pending \ {op}
        /\ u.state = s.state /\ u.generation = s.generation
        /\ u.stream = s.stream /\ u.established = s.established
        /\ SameData(s, u) /\ u.messageQueue = s.messageQueue
        /\ u.crashed = s.crashed /\ u.kind = s.kind
    BY <1>1, CompletedEffect
  <2>2. Resumed(u) /\ ~s.established
    BY <1>1, IncomingCompleted DEF Core, Lanes
  <2> HIDE DEF u
  <2>3. /\ Core(v)
        /\ v.pending = u.pending \cup {NewOp(u, "read")}
        /\ v.state = "CONNECTED" /\ v.established = TRUE
        /\ v.generation = u.generation /\ v.stream = u.stream
        /\ SameData(u, v)
        /\ v.messageQueue = Append(u.messageQueue,
                              [type |-> "IN_CONNECTED", gens |-> {}])
        /\ v.crashed = (u.crashed \/ u.stream = 0) /\ v.kind = u.kind
    BY <1>3, <2>1, <2>2, EstablishedCore DEF NewOp
  <2> HIDE DEF v
  <2>4. NewOp(u, "read") = NewOp(s, "read")
    BY <2>1 DEF NewOp
  <2>5. EstablishStep(s, v)
    BY <1>3, <2>1, <2>2, <2>3, <2>4 DEF EstablishStep, SameData
  <2>6. MayPump(v, checkWriting(v))
    BY <2>3, CheckWritingStep
  <2>7. ResumeStep(s, checkWriting(v))
    BY <2>3, <2>5, <2>6 DEF ResumeStep
  <2> QED
    BY <2>7 DEF OtherStep, v
<1>4. u.state = s.state
  BY <1>1, CompletedEffect
<1>5. handshakeCompleted(u, ec) =
        IF ec = "ok"
        THEN IF u.state = "CONNECTING" THEN checkWriting(Established(u))
                                       ELSE closeNow(u)
        ELSE errorConnection(u)
  BY DEF handshakeCompleted, Established
<1> HIDE DEF u
<1>6. OtherStep(s, handshakeCompleted(u, ec))
  BY <1>2, <1>3, <1>4, <1>5
<1> QED
  BY <1>6 DEF u

LEMMA SSLHandshakeCompleteStep ==
  ASSUME NEW s, Core(s), NEW op \in Current(s), op.kind = "ssl_handshake",
         NEW ec
  PROVE  OtherStep(s, sslHandshakeComplete(Completed(s, op), ec))
<1>1. OtherStep(s, Start(Completed(s, op), "handshake"))
  BY ContinueStep DEF ConnectPhase
<1>2. ec # "ok" => OtherStep(s, handshakeCompleted(Completed(s, op), ec))
  BY HandshakeCompletedStep
<1> QED
  BY <1>1, <1>2 DEF sslHandshakeComplete

LEMMA OnReadStep ==
  ASSUME NEW s, Core(s), NEW op \in Current(s), op.kind = "read",
         NEW ec \in ErrorCode
  PROVE  OtherStep(s, onRead(Completed(s, op), ec))
<1> DEFINE c == Completed(s, op)
           b == c.readBuffer \cup {c.generation}
           t == put(c, "IN_MESSAGE", b)
           u == [t EXCEPT !.readBuffer = {}]
           v == Start(u, "read")
<1>1. s \in Socket /\ op.kind \in Incoming
  BY DEF Core, Closable, Incoming
<1>2. OtherStep(s, closeNow(c)) /\ OtherStep(s, errorConnection(c))
  BY <1>1, HandlerCloses
<1>3. /\ ec = "ok" => onRead(c, ec) = v
      /\ ec = "closed" => onRead(c, ec) = closeNow(c)
      /\ ec = "error" => onRead(c, ec) = errorConnection(c)
  BY DEF onRead, asyncRead
<1>4. /\ c \in Socket /\ c.pending = s.pending \ {op}
      /\ c.state = s.state /\ c.generation = s.generation
      /\ c.stream = s.stream /\ c.established = s.established
      /\ SameData(s, c) /\ c.messageQueue = s.messageQueue
      /\ c.crashed = s.crashed /\ c.kind = s.kind
  BY <1>1, CompletedEffect
<1>5. s.established /\ s.state # "DISCONNECTED"
  BY DEF Core, Lanes, Alive
<1> HIDE DEF c
<1>6. b \in SUBSET Nat
  BY <1>4, FieldTypes
<1> HIDE DEF b
<1>7. [type |-> "IN_MESSAGE", gens |-> b] \in InMessage
  BY <1>6 DEF InMessage
<1>8. /\ t \in Socket /\ SameControl(c, t) /\ SameData(c, t)
      /\ t.messageQueue = Append(c.messageQueue,
                                 [type |-> "IN_MESSAGE", gens |-> b])
  BY <1>4, <1>7, PutEffect
<1> HIDE DEF t
<1>9. /\ u \in Socket /\ SameControl(t, u) /\ SameData(t, u)
      /\ u.messageQueue = t.messageQueue
  BY <1>8 DEF Socket, SameControl, SameData
<1> HIDE DEF u
<1>10. "read" \in OpKind
  BY DEF OpKind
<1>11. /\ v.pending = u.pending \cup {NewOp(u, "read")}
       /\ v.state = u.state /\ SameConnection(u, v)
       /\ SameData(u, v) /\ v.messageQueue = u.messageQueue
       /\ v.crashed = (u.crashed \/ u.stream = 0)
  BY <1>9, <1>10, StartEffect DEF NewOp, SameConnection
<1> HIDE DEF v
<1>12. SameControl(c, u) /\ SameData(c, u)
  BY <1>8, <1>9 DEF SameControl, SameData
<1>13. NewOp(u, "read") = NewOp(s, "read")
  BY <1>4, <1>12 DEF NewOp, SameControl
<1>14. ReceiveStep(s, v)
  <2>1. v.state = s.state /\ SameConnection(s, v)
    BY <1>4, <1>11, <1>12 DEF SameConnection, SameControl
  <2>2. SameData(s, v)
    BY <1>4, <1>11, <1>12 DEF SameData
  <2>3. v.pending = (s.pending \ {op}) \cup {NewOp(s, "read")}
    BY <1>4, <1>11, <1>12, <1>13 DEF SameControl
  <2>4. v.crashed = (s.crashed \/ s.stream = 0)
    BY <1>4, <1>11, <1>12 DEF SameControl
  <2>5. v.messageQueue = Append(s.messageQueue,
                                [type |-> "IN_MESSAGE", gens |-> b])
    BY <1>4, <1>8, <1>9, <1>11
  <2> QED
    BY <1>5, <1>6, <2>1, <2>2, <2>3, <2>4, <2>5 DEF ReceiveStep
<1>15. OtherStep(s, v)
  BY <1>14 DEF OtherStep
<1>16. OtherStep(s, onRead(c, ec))
  BY <1>2, <1>3, <1>15 DEF ErrorCode
<1> QED
  BY <1>16 DEF c

LEMMA OnWriteStep ==
  ASSUME NEW s, Core(s), NEW op \in Current(s), op.kind = "write",
         NEW ec \in ErrorCode
  PROVE  OtherStep(s, onWrite(Completed(s, op), ec))
<1> DEFINE t == Completed(s, op)
           sent == Append(t.sent, t.messageToWrite)
           u == [t EXCEPT !.writing = FALSE, !.sent = sent]
<1>1. s \in Socket
  BY DEF Core, Closable
<1>2. /\ t \in Socket /\ t.pending = s.pending \ {op}
      /\ t.state = s.state /\ t.generation = s.generation
      /\ t.stream = s.stream /\ t.established = s.established
      /\ SameData(s, t) /\ t.messageQueue = s.messageQueue
      /\ t.crashed = s.crashed /\ t.kind = s.kind
  BY <1>1, CompletedEffect
<1>3. sent \in Seq(Nat)
  BY <1>2, FieldTypes
<1>4. Closable(t) /\ setDisconnectingCAS(t) /\ Core(u)
  BY <1>3, WriteCompleted
<1>5. OtherStep(s, closeNow(t)) /\ OtherStep(s, errorConnection(t))
  <2>1. EndStep(t, closeNow(t)) /\ EndStep(t, errorConnection(t))
    BY <1>2, <1>4, CloseNowStep
  <2>2. EndStep(s, closeNow(t)) /\ EndStep(s, errorConnection(t))
    BY <1>1, <2>1, CompletedEnd
  <2> QED
    BY <2>2 DEF OtherStep
<1>6. /\ ec = "ok" => onWrite(t, ec) = checkWriting(u)
      /\ ec = "closed" => onWrite(t, ec) = closeNow(t)
      /\ ec = "error" => onWrite(t, ec) = errorConnection(t)
  BY DEF onWrite
<1>7. OtherStep(s, checkWriting(u))
  <2>1. sent = Append(s.sent, s.messageToWrite)
    BY <1>2 DEF SameData
  <2> HIDE DEF t, sent
  <2>2. /\ u.pending = t.pending /\ u.sent = sent
        /\ u.state = t.state /\ SameConnection(t, u)
        /\ u.messageQueue = t.messageQueue /\ u.crashed = t.crashed
        /\ u.kind = t.kind
        /\ u.messageToWrite = t.messageToWrite /\ u.written = t.written
        /\ u.closeMark = t.closeMark /\ u.writeQueue = t.writeQueue
    BY <1>2, <1>3 DEF Socket, SameConnection
  <2> HIDE DEF u
  <2>3. AcknowledgeStep(s, u)
    BY <1>2, <2>1, <2>2 DEF AcknowledgeStep, SameConnection, SameData
  <2>4. MayPump(u, checkWriting(u))
    BY <1>4, CheckWritingStep
  <2>5. ResumeStep(s, checkWriting(u))
    BY <1>4, <2>3, <2>4 DEF ResumeStep
  <2> QED
    BY <2>5 DEF OtherStep
<1> HIDE DEF t, u
<1>8. OtherStep(s, onWrite(t, ec))
  BY <1>5, <1>6, <1>7 DEF ErrorCode
<1> QED
  BY <1>8 DEF t

LEMMA OnDisconnectedStep ==
  ASSUME NEW s, Core(s), NEW op \in Current(s)
  PROVE  OtherStep(s, onDisconnected(Completed(s, op)))
<1> DEFINE u == Completed(s, op)
<1>1. s \in Socket /\ s.state # "DISCONNECTED"
  BY DEF Core, Closable, Alive
<1>2. u \in Socket /\ u.state = s.state
  BY <1>1, CompletedEffect
<1>3. EndStep(u, doClose(u))
  BY <1>1, <1>2, DoCloseStep
<1>4. EndStep(s, doClose(u))
  BY <1>1, <1>3, CompletedEnd
<1> QED
  BY <1>4 DEF OtherStep, onDisconnected

\* guardGeneration: an operation of an earlier generation only leaves Asio.
LEMMA GuardedStep ==
  ASSUME NEW s, Core(s), NEW op \in s.pending, NEW t,
         op \in Current(s) => OtherStep(s, t)
  PROVE  OtherStep(s, guardGeneration(Completed(s, op), op, t))
<1> DEFINE u == Completed(s, op)
<1>1. /\ u.pending = s.pending \ {op}
      /\ u.state = s.state /\ u.generation = s.generation
      /\ u.stream = s.stream /\ u.established = s.established
      /\ SameData(s, u) /\ u.messageQueue = s.messageQueue
      /\ u.crashed = s.crashed /\ u.kind = s.kind
  BY CompletedEffect DEF Core, Closable
<1> HIDE DEF u
<1>2. CASE op.gen = s.generation
  BY <1>1, <1>2 DEF guardGeneration, Current, u
<1>3. CASE op.gen # s.generation
  <2>1. Current(u) = Current(s)
    BY <1>1, <1>3 DEF Current
  <2>2. StaleStep(s, u)
    BY <1>1, <2>1 DEF StaleStep, SameConnection
  <2>3. OtherStep(s, u)
    BY <2>2 DEF OtherStep
  <2> QED
    BY <1>1, <1>3, <2>3 DEF guardGeneration, u
<1> QED
  BY <1>2, <1>3

----------------------------------------------------------------------------
(* The calls of the script.                                                *)

LEMMA OpenCallStep ==
  ASSUME NEW s, Core(s), NEW shouldClearQueue \in BOOLEAN
  PROVE  OtherStep(s, open(s, shouldClearQueue))
<1>1. CASE s.state # "DISCONNECTED"
  <2>1. StaleStep(s, s)
    BY DEF StaleStep, SameConnection, SameData
  <2> QED
    BY <1>1, <2>1 DEF open, OtherStep
<1>2. CASE s.state = "DISCONNECTED"
  <2> DEFINE q == IF shouldClearQueue THEN << >> ELSE s.writeQueue
             g == s.generation + 1
             t == [s EXCEPT !.state = "CONNECTING", !.writeQueue = q,
                            !.generation = g]
             v == Start(t, "resolve")
  <2>1. s \in Socket /\ g \in Nat
    BY FieldTypes DEF Core, Closable
  <2>2. q \in Seq(OutMessage)
    <3>1. s.writeQueue \in Seq(OutMessage) /\ << >> \in Seq(OutMessage)
      BY <2>1, FieldTypes
    <3> QED
      BY <3>1
  <2>3. open(s, shouldClearQueue) = v
    BY <1>2, <2>1 DEF open, clearQueue, Socket
  <2>4. q = s.writeQueue \/ q = << >>
    OBVIOUS
  <2> HIDE DEF q
  <2>5. /\ t \in Socket /\ t.state = "CONNECTING" /\ t.writeQueue = q
        /\ t.generation = g /\ t.pending = s.pending
        /\ t.stream = s.stream /\ t.established = s.established
        /\ t.crashed = s.crashed /\ t.messageQueue = s.messageQueue
        /\ t.kind = s.kind
        /\ t.messageToWrite = s.messageToWrite /\ t.written = s.written
        /\ t.sent = s.sent /\ t.closeMark = s.closeMark
    BY <2>1, <2>2 DEF Socket, SocketState
  <2> HIDE DEF t
  <2>6. "resolve" \in OpKind
    BY DEF OpKind, ConnectPhase
  <2>7. /\ v.pending = t.pending \cup {NewOp(t, "resolve")}
        /\ v.state = t.state /\ SameConnection(t, v)
        /\ SameData(t, v) /\ v.messageQueue = t.messageQueue
        /\ v.crashed = t.crashed /\ v.kind = t.kind
    <3>1. /\ v.pending = t.pending \cup {NewOp(t, "resolve")}
          /\ v.state = t.state /\ SameConnection(t, v)
          /\ SameData(t, v) /\ v.messageQueue = t.messageQueue
          /\ v.kind = t.kind
          /\ v.crashed = (t.crashed \/ ("resolve" # "resolve" /\ t.stream = 0))
      BY <2>5, <2>6, StartEffect DEF NewOp, SameConnection
    <3>2. t.crashed \in BOOLEAN
      BY <2>5, FieldTypes
    <3> HIDE DEF v
    <3> QED
      BY <3>1, <3>2
  <2> HIDE DEF v
  <2>8. NewOp(t, "resolve") = NewOp(v, "resolve")
    BY <2>7 DEF NewOp, SameConnection
  <2>9. OpenStep(s, v)
    BY <1>2, <2>4, <2>5, <2>7, <2>8 DEF OpenStep, SameConnection, SameData
  <2> QED
    BY <2>3, <2>9 DEF OtherStep
<1> QED
  BY <1>1, <1>2

LEMMA CloseCallStep ==
  ASSUME NEW s, Core(s)
  PROVE  OtherStep(s, close(s))
<1> DEFINE u == Marked(s)
<1>1. CASE s.state \notin {"CONNECTING", "CONNECTED"}
  <2>1. StaleStep(s, s)
    BY DEF StaleStep, SameConnection, SameData
  <2> QED
    BY <1>1, <2>1 DEF close, OtherStep
<1>2. CASE s.state \in {"CONNECTING", "CONNECTED"}
  <2>1. close(s) = IF s.state = "CONNECTING" THEN u ELSE checkWriting(u)
    BY <1>2 DEF close, Marked
  <2>2. Core(u) /\ RequestStep(s, u)
    BY <1>2, MarkedCore DEF RequestStep, SameConnection, CloseMessage
  <2> HIDE DEF u
  <2>3. MayPump(u, checkWriting(u))
    BY <2>2, CheckWritingStep
  <2>4. AskCloseStep(s, close(s))
    BY <1>2, <2>1, <2>2, <2>3 DEF AskCloseStep, MayPump
  <2> QED
    BY <2>4 DEF OtherStep
<1> QED
  BY <1>1, <1>2

LEMMA WriteCallStep ==
  ASSUME NEW s, Core(s)
  PROVE  WriteStep(s, write(s))
<1> DEFINE u == Queued(s)
<1>1. write(s) = checkWriting(u)
  BY DEF write, Queued
<1>2. Core(u) /\ QueueStep(s, u)
  BY QueuedCore DEF QueueStep, SameConnection, TextMessage
<1> HIDE DEF u
<1>3. MayPump(u, checkWriting(u))
  BY <1>2, CheckWritingStep
<1> QED
  BY <1>1, <1>2, <1>3 DEF WriteStep

LEMMA CloseNowCallStep ==
  ASSUME NEW s, Core(s)
  PROVE  OtherStep(s, closeNow(s)) /\ OtherStep(s, errorConnection(s))
<1>1. s \in Socket
  BY DEF Core, Closable
<1>2. StaleStep(s, s)
  BY DEF StaleStep, SameConnection, SameData
<1>3. CASE setDisconnectingCAS(s)
  BY <1>1, <1>3, CloseNowStep DEF OtherStep
<1>4. CASE ~setDisconnectingCAS(s)
  BY <1>2, <1>4 DEF closeNow, errorConnection, OtherStep
<1> QED
  BY <1>3, <1>4

LEMMA ClearQueueCallStep ==
  ASSUME NEW s, Core(s)
  PROVE  ClearStep(s, clearQueue(s))
<1> DEFINE q == << >>
           t == [s EXCEPT !.writeQueue = q]
<1>1. s \in Socket
  BY DEF Core, Closable
<1> HIDE DEF q
<1>2. /\ t.state = s.state /\ SameConnection(s, t)
      /\ t.pending = s.pending
      /\ t.crashed = s.crashed /\ t.messageQueue = s.messageQueue
      /\ t.kind = s.kind
      /\ t.messageToWrite = s.messageToWrite /\ t.written = s.written
      /\ t.sent = s.sent /\ t.closeMark = s.closeMark
      /\ t.writeQueue = q
  BY <1>1 DEF Socket, SameConnection
<1> HIDE DEF t
<1>3. ClearStep(s, t)
  BY <1>2 DEF ClearStep, q
<1> QED
  BY <1>3 DEF clearQueue, t, q

\* The events are taken, or bytes arrive.
LEMMA DeliverCallStep ==
  ASSUME NEW s, Core(s)
  PROVE  DeliverStep(s, [s EXCEPT !.messageQueue = << >>])
<1> DEFINE q == << >>
           t == [s EXCEPT !.messageQueue = q]
<1>1. s \in Socket
  BY DEF Core, Closable
<1> HIDE DEF q
<1>2. /\ t.state = s.state /\ SameConnection(s, t) /\ SameData(s, t)
      /\ t.pending = s.pending
      /\ t.crashed = s.crashed /\ t.messageQueue = q /\ t.kind = s.kind
  BY <1>1 DEF Socket, SameConnection, SameData
<1> HIDE DEF t
<1>3. DeliverStep(s, t)
  BY <1>2 DEF DeliverStep, q
<1> QED
  BY <1>3 DEF t, q

LEMMA PartialReadStep ==
  ASSUME NEW s, Core(s), NEW op
  PROVE  StaleStep(s, partialRead(s, op))
<1> DEFINE b == s.readBuffer \cup {op.gen}
           t == [s EXCEPT !.readBuffer = b]
<1>1. s \in Socket
  BY DEF Core, Closable
<1> HIDE DEF b
<1>2. /\ t.state = s.state /\ SameConnection(s, t) /\ SameData(s, t)
      /\ t.pending = s.pending
      /\ t.crashed = s.crashed /\ t.messageQueue = s.messageQueue
      /\ t.kind = s.kind
  BY <1>1 DEF Socket, SameConnection, SameData
<1> HIDE DEF t
<1>3. StaleStep(s, t)
  BY <1>2 DEF StaleStep, SameConnection, Current
<1> QED
  BY <1>3 DEF partialRead, t, b

----------------------------------------------------------------------------
(* What the owner of the socket sees of a step.                            *)

LEMMA TypesAppend ==
  ASSUME NEW q \in Seq(InMessage), NEW e \in InMessage
  PROVE  /\ Append(q, e) \in Seq(InMessage)
         /\ EventTypes(Append(q, e)) = Append(EventTypes(q), e.type)
<1> DEFINE r == Append(q, e)
           l == Append(EventTypes(q), e.type)
           T == {"IN_CONNECTED", "IN_MESSAGE", "IN_ERROR", "IN_DISCONNECTED"}
<1>1. /\ r \in Seq(InMessage) /\ Len(r) = Len(q) + 1 /\ r[Len(r)] = e
      /\ \A i \in 1 .. Len(q) : r[i] = q[i]
      /\ Len(q) \in Nat /\ DOMAIN q = 1 .. Len(q) /\ DOMAIN r = 1 .. Len(r)
  OBVIOUS
<1>2. EventTypes(q) \in Seq(T) /\ Len(EventTypes(q)) = Len(q) /\ e.type \in T
  <2>1. \A i \in 1 .. Len(q) : q[i] \in InMessage
    OBVIOUS
  <2>2. EventTypes(q) \in [1 .. Len(q) -> T]
    BY <1>1, <2>1 DEF EventTypes, InMessage
  <2> QED
    BY <1>1, <2>2 DEF InMessage
<1>3. /\ l \in Seq(T) /\ Len(l) = Len(q) + 1 /\ l[Len(l)] = e.type
      /\ \A i \in 1 .. Len(q) : l[i] = EventTypes(q)[i]
      /\ DOMAIN l = 1 .. Len(l)
  BY <1>2
<1> HIDE DEF r, l
<1>4. EventTypes(r) = l
  <2>1. \A i \in 1 .. Len(r) : EventTypes(r)[i] = l[i]
    BY <1>1, <1>3 DEF EventTypes
  <2>2. DOMAIN EventTypes(r) = 1 .. Len(r)
    BY <1>1 DEF EventTypes
  <2>3. /\ l = [i \in 1 .. Len(r) |-> l[i]]
        /\ EventTypes(r) = [i \in 1 .. Len(r) |-> EventTypes(r)[i]]
    BY <1>1, <1>3 DEF EventTypes
  <2> QED
    BY <2>1, <2>3
<1> QED
  BY <1>1, <1>4 DEF r, l

\* A step of the owner's view, from PhaseOf and EventTypes of a socket.
OwnerStep(s, t) ==
  LET p == PhaseOf(s)
      n == PhaseOf(t)
      b == EventTypes(s.messageQueue)
      a == EventTypes(t.messageQueue)
  IN  \/ p = "closed" /\ n = "opening" /\ a = b
      \/ p = "opening" /\ n = "open" /\ a = Append(b, "IN_CONNECTED")
      \/ p = "open" /\ n = p /\ a = Append(b, "IN_MESSAGE")
      \/ /\ p # "closed" /\ n = "closed"
         /\ \/ a = Append(b, "IN_DISCONNECTED")
            \/ a = Append(Append(b, "IN_ERROR"), "IN_DISCONNECTED")
      \/ n = p /\ a = << >>
      \/ n = p /\ a = b

LEMMA OwnerPump ==
  ASSUME NEW s, NEW t, MayPump(s, t)
  PROVE  PhaseOf(t) = PhaseOf(s) /\ t.messageQueue = s.messageQueue
BY DEF MayPump, PumpStep, SameConnection, PhaseOf

LEMMA OwnerOther ==
  ASSUME NEW s, Core(s), NEW t, OtherStep(s, t)
  PROVE  OwnerStep(s, t)
<1> DEFINE q == s.messageQueue
<1>1. q \in Seq(InMessage)
  BY FieldTypes DEF Core, Closable
<1>2. CASE OpenStep(s, t)
  <2>1. PhaseOf(s) = "closed" /\ PhaseOf(t) = "opening"
    BY <1>2 DEF OpenStep, PhaseOf, Core, Alive
  <2> QED
    BY <1>2, <2>1 DEF OpenStep, OwnerStep
<1>3. CASE EndStep(s, t)
  <2>1. PhaseOf(s) # "closed" /\ PhaseOf(t) = "closed"
    BY <1>3 DEF EndStep, PhaseOf
  <2>2. /\ EndedEvent \in InMessage /\ EndedEvent.type = "IN_DISCONNECTED"
        /\ FailedEvent \in InMessage /\ FailedEvent.type = "IN_ERROR"
    BY DEF EndedEvent, FailedEvent, InMessage
  <2>3. /\ EventTypes(Append(q, EndedEvent)) = Append(EventTypes(q), "IN_DISCONNECTED")
        /\ EventTypes(Append(Append(q, FailedEvent), EndedEvent)) =
             Append(Append(EventTypes(q), "IN_ERROR"), "IN_DISCONNECTED")
    <3>1. /\ Append(q, FailedEvent) \in Seq(InMessage)
          /\ EventTypes(Append(q, FailedEvent)) = Append(EventTypes(q), "IN_ERROR")
      BY <1>1, <2>2, TypesAppend
    <3>2. EventTypes(Append(q, EndedEvent)) = Append(EventTypes(q), "IN_DISCONNECTED")
      BY <1>1, <2>2, TypesAppend
    <3> QED
      BY <2>2, <3>1, <3>2, TypesAppend
  <2> QED
    BY <1>3, <2>1, <2>3 DEF EndStep, OwnerStep
<1>4. CASE \/ StaleStep(s, t) \/ ConnectStep(s, t) \/ GiveUpStep(s, t)
  <2>1. PhaseOf(t) = PhaseOf(s) /\ t.messageQueue = q
    BY <1>4 DEF StaleStep, ConnectStep, GiveUpStep, SameConnection, PhaseOf
  <2> QED
    BY <2>1 DEF OwnerStep
<1>5. CASE DeliverStep(s, t)
  <2>1. PhaseOf(t) = PhaseOf(s) /\ t.messageQueue = << >>
    BY <1>5 DEF DeliverStep, SameConnection, PhaseOf
  <2>2. EventTypes(<< >>) = << >>
    BY DEF EventTypes
  <2> QED
    BY <2>1, <2>2 DEF OwnerStep
<1>6. CASE ReceiveStep(s, t)
  <2>1. PhaseOf(s) = "open" /\ PhaseOf(t) = "open"
    BY <1>6 DEF ReceiveStep, SameConnection, PhaseOf
  <2>2. PICK gens \in SUBSET Nat :
          t.messageQueue = Append(q, [type |-> "IN_MESSAGE", gens |-> gens])
    BY <1>6 DEF ReceiveStep
  <2>3. [type |-> "IN_MESSAGE", gens |-> gens] \in InMessage
    BY DEF InMessage
  <2>4. EventTypes(t.messageQueue) = Append(EventTypes(q), "IN_MESSAGE")
    BY <1>1, <2>2, <2>3, TypesAppend
  <2> QED
    BY <2>1, <2>4 DEF OwnerStep
<1>7. CASE AskCloseStep(s, t)
  <2>1. PICK u : RequestStep(s, u) /\ MayPump(u, t)
    BY <1>7 DEF AskCloseStep, MayPump
  <2>2. PhaseOf(u) = PhaseOf(s) /\ u.messageQueue = q
    BY <2>1 DEF RequestStep, SameConnection, PhaseOf
  <2> QED
    BY <2>1, <2>2, OwnerPump DEF OwnerStep
<1>8. CASE ResumeStep(s, t)
  <2>1. PICK u : /\ EstablishStep(s, u) \/ AcknowledgeStep(s, u)
                 /\ MayPump(u, t)
    BY <1>8 DEF ResumeStep
  <2>2. PhaseOf(t) = PhaseOf(u) /\ t.messageQueue = u.messageQueue
    BY <2>1, OwnerPump
  <2>3. CASE EstablishStep(s, u)
    <3>1. PhaseOf(s) = "opening" /\ PhaseOf(u) = "open"
      BY <2>3 DEF EstablishStep, PhaseOf
    <3>2. [type |-> "IN_CONNECTED", gens |-> {}] \in InMessage
      BY DEF InMessage
    <3>3. EventTypes(u.messageQueue) = Append(EventTypes(q), "IN_CONNECTED")
      BY <1>1, <2>3, <3>2, TypesAppend DEF EstablishStep
    <3> QED
      BY <2>2, <3>1, <3>3 DEF OwnerStep
  <2>4. CASE AcknowledgeStep(s, u)
    <3>1. PhaseOf(u) = PhaseOf(s) /\ u.messageQueue = q
      BY <2>4 DEF AcknowledgeStep, SameConnection, PhaseOf
    <3> QED
      BY <2>2, <3>1 DEF OwnerStep
  <2> QED
    BY <2>1, <2>3, <2>4
<1> QED
  BY <1>2, <1>3, <1>4, <1>5, <1>6, <1>7, <1>8 DEF OtherStep

=============================================================================
