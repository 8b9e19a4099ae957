------------------------- MODULE GWSocketOpsProofs -------------------------
(***************************************************************************)
(* Lemmas about the member functions of GWSocketOps: what each of them     *)
(* does to the operations in flight, the state and the marks in the queue. *)
(*                                                                         *)
(* Core(s) is what every socket satisfies between two steps.  A handler    *)
(* starts from a socket whose completed operation has just left `pending`, *)
(* which satisfies only Resumed(s) (an incoming operation completed) or    *)
(* Closable(s); the lemmas say which member function leads from which of   *)
(* these back to Core.  The specifications that are built from these       *)
(* functions (GWSocket, GLua) take their proofs from here.                 *)
(***************************************************************************)
EXTENDS GWSocketOps, TLAPS

\* What doClose() needs of the socket it closes.
Closable(s) ==
  /\ s \in Socket
  /\ \A op \in s.pending : op.gen <= s.generation
  /\ ~s.overlap
  /\ s.stream = 0 => ~s.tcpOpen

\* The operations of the current attempt: one per direction, the outgoing
\* one exactly while `writing`, a read only on an established connection.
Lanes(s) ==
  /\ \A op1, op2 \in Current(s) : Conflicts(op1.kind, op2.kind) => op1 = op2
  /\ s.writing <=> \E op \in Current(s) : op.kind \in Outgoing
  /\ \A op \in Current(s) : op.kind \in ConnectPhase => ~s.established
  /\ \A op \in Current(s) : op.kind = "read" => s.established

\* What the state says about `established`, the closing handshake and the
\* generation.
Phases(s) ==
  /\ s.state = "CONNECTING" => ~s.established
  /\ s.state = "CONNECTED" => s.established
  /\ s.state = "DISCONNECTING" <=> \E op \in Current(s) : op.kind = "close"
  /\ s.state # "DISCONNECTED" => s.generation > 0

\* A disconnected socket has let go of everything, any other one has an
\* operation in flight that reports the end of the connection.
Alive(s) ==
  /\ s.state = "DISCONNECTED" =>
       Current(s) = {} /\ ~s.tcpOpen /\ ~s.established
  /\ s.state = "CONNECTING" =>
       \E op \in Current(s) : op.kind \in ConnectPhase
  /\ s.state = "CONNECTED" => \E op \in Current(s) : op.kind = "read"
  /\ s.state = "DISCONNECT_REQUESTED" =>
       \E op \in Current(s) : op.kind \in Incoming

Marks(s) ==
  \A i \in DOMAIN s.writeQueue :
    s.writeQueue[i].type = "OUT_DISCONNECT" =>
      /\ s.state = "DISCONNECT_REQUESTED"
      /\ \A j \in DOMAIN s.writeQueue :
           s.writeQueue[j].type = "OUT_DISCONNECT" => i = j

Core(s) == Closable(s) /\ Lanes(s) /\ Phases(s) /\ Alive(s) /\ Marks(s)

\* A socket in the handler of an incoming operation.
Resumed(s) == /\ Closable(s) /\ Lanes(s) /\ Phases(s) /\ Marks(s)
              /\ \A op \in Current(s) : op.kind \in Outgoing
              /\ s.state # "DISCONNECTED"

----------------------------------------------------------------------------
(* Fields of the record: types, and what the basic operators change.       *)

LEMMA FieldTypes ==
  ASSUME NEW s \in Socket
  PROVE  /\ s.state \in SocketState /\ s.generation \in Nat
         /\ s.writing \in BOOLEAN /\ s.messageToWrite \in Nat
         /\ s.writeQueue \in Seq(OutMessage)
         /\ s.messageQueue \in Seq(InMessage)
         /\ s.readBuffer \in SUBSET Nat /\ s.stream \in Nat
         /\ s.pending \in SUBSET Op /\ s.tcpOpen \in BOOLEAN
         /\ s.written \in Nat /\ s.sent \in Seq(Nat) /\ s.closeMark \in Nat
         /\ s.established \in BOOLEAN /\ s.overlap \in BOOLEAN
         /\ s.crashed \in BOOLEAN
BY DEF Socket

\* The fields Core speaks of, apart from the queue, and `crashed`.
SameControl(s, t) ==
  /\ t.state = s.state /\ t.generation = s.generation
  /\ t.writing = s.writing /\ t.pending = s.pending
  /\ t.stream = s.stream /\ t.tcpOpen = s.tcpOpen
  /\ t.established = s.established /\ t.overlap = s.overlap
  /\ t.crashed = s.crashed /\ t.kind = s.kind

\* The fields that record which message is where.
SameData(s, t) ==
  /\ t.messageToWrite = s.messageToWrite /\ t.written = s.written
  /\ t.sent = s.sent /\ t.closeMark = s.closeMark
  /\ t.writeQueue = s.writeQueue

LEMMA PutEffect ==
  ASSUME NEW s \in Socket, NEW type, NEW gens,
         [type |-> type, gens |-> gens] \in InMessage
  PROVE  LET t == put(s, type, gens)
         IN  /\ t \in Socket
             /\ SameControl(s, t) /\ SameData(s, t)
             /\ t.messageQueue = Append(s.messageQueue,
                                        [type |-> type, gens |-> gens])
             /\ t.readBuffer = s.readBuffer /\ t.kind = s.kind
<1> DEFINE q == Append(s.messageQueue, [type |-> type, gens |-> gens])
<1>1. q \in Seq(InMessage)
  BY FieldTypes
<1> HIDE DEF q
<1>2. LET t == [s EXCEPT !.messageQueue = q]
      IN  /\ t \in Socket
          /\ SameControl(s, t) /\ SameData(s, t)
          /\ t.messageQueue = q
          /\ t.readBuffer = s.readBuffer /\ t.kind = s.kind
  BY <1>1 DEF Socket, SameControl, SameData
<1> QED
  BY <1>2 DEF put, q

LEMMA StartEffect ==
  ASSUME NEW s \in Socket, NEW kind \in OpKind
  PROVE  LET t == Start(s, kind)
             new == [kind |-> kind, gen |-> s.generation,
                     stream |-> s.stream]
         IN  /\ t \in Socket /\ new \in Op
             /\ t.pending = s.pending \cup {new}
             /\ t.overlap = (s.overlap \/ \E op \in Current(s) :
                                            Conflicts(op.kind, kind))
             /\ t.state = s.state /\ t.generation = s.generation
             /\ t.writing = s.writing /\ t.stream = s.stream
             /\ t.tcpOpen = s.tcpOpen /\ t.established = s.established
             /\ SameData(s, t) /\ t.messageQueue = s.messageQueue
             /\ t.kind = s.kind
             /\ t.crashed = (s.crashed \/ (kind # "resolve" /\ s.stream = 0))
<1> DEFINE new == [kind |-> kind, gen |-> s.generation, stream |-> s.stream]
           p == s.pending \cup {new}
           o == s.overlap \/ \E op \in Current(s) : Conflicts(op.kind, kind)
           c == s.crashed \/ (kind # "resolve" /\ s.stream = 0)
<1>1. new \in Op
  BY FieldTypes DEF Op
<1>2. p \in SUBSET Op /\ o \in BOOLEAN /\ c \in BOOLEAN
  BY <1>1, FieldTypes
<1>3. Start(s, kind) = [s EXCEPT !.pending = p, !.overlap = o, !.crashed = c]
  BY DEF Start
<1> HIDE DEF new, p, o, c
<1>4. LET t == [s EXCEPT !.pending = p, !.overlap = o, !.crashed = c]
      IN  /\ t \in Socket
          /\ t.pending = p /\ t.overlap = o
          /\ t.state = s.state /\ t.generation = s.generation
          /\ t.writing = s.writing /\ t.stream = s.stream
          /\ t.tcpOpen = s.tcpOpen /\ t.established = s.established
          /\ SameData(s, t) /\ t.messageQueue = s.messageQueue
          /\ t.kind = s.kind /\ t.crashed = c
  BY <1>2 DEF Socket, SameData
<1> QED
  BY <1>1, <1>3, <1>4 DEF new, p, o, c

LEMMA DoCloseEffect ==
  ASSUME NEW s \in Socket
  PROVE  LET t == doClose(s)
         IN  /\ t \in Socket
             /\ t.state = "DISCONNECTED" /\ t.generation = s.generation + 1
             /\ t.writing = FALSE /\ t.established = FALSE
             /\ t.pending = s.pending /\ t.overlap = s.overlap
             /\ t.stream = s.stream /\ t.writeQueue = << >>
             /\ t.tcpOpen = (IF s.stream = 0 THEN s.tcpOpen ELSE FALSE)
             /\ t.messageToWrite = s.messageToWrite
             /\ t.written = s.written /\ t.sent = s.sent
             /\ t.closeMark = s.closeMark
             /\ t.messageQueue = Append(s.messageQueue,
                                  [type |-> "IN_DISCONNECTED", gens |-> {}])
             /\ t.crashed = s.crashed /\ t.kind = s.kind
<1> DEFINE g == s.generation + 1
           b == IF s.stream = 0 THEN s.tcpOpen ELSE FALSE
           q == << >>
           v == [s EXCEPT !.generation = g, !.tcpOpen = b, !.writeQueue = q,
                          !.state = "DISCONNECTED", !.writing = FALSE,
                          !.established = FALSE]
<1>1. g \in Nat /\ b \in BOOLEAN /\ q \in Seq(OutMessage)
  <2>1. s.generation \in Nat /\ s.tcpOpen \in BOOLEAN
    BY FieldTypes
  <2>2. q \in Seq(OutMessage)
    OBVIOUS
  <2>3. b \in BOOLEAN
    BY <2>1, Zenon
  <2>4. g \in Nat
    BY <2>1
  <2> QED
    BY <2>2, <2>3, <2>4
<1>2. doClose(s) = put(v, "IN_DISCONNECTED", {})
  <2>1. closeSocket([s EXCEPT !.generation = g]) =
          [s EXCEPT !.generation = g, !.tcpOpen = b]
    BY DEF closeSocket, Socket
  <2>2. clearQueue([s EXCEPT !.generation = g, !.tcpOpen = b]) =
          [s EXCEPT !.generation = g, !.tcpOpen = b, !.writeQueue = q]
    BY DEF clearQueue
  <2> QED
    BY <2>1, <2>2 DEF doClose
<1> HIDE DEF g, b, q
<1>3. /\ v \in Socket
      /\ v.state = "DISCONNECTED" /\ v.generation = g
      /\ v.writing = FALSE /\ v.established = FALSE
      /\ v.pending = s.pending /\ v.overlap = s.overlap
      /\ v.stream = s.stream /\ v.writeQueue = q /\ v.tcpOpen = b
      /\ v.messageToWrite = s.messageToWrite
      /\ v.written = s.written /\ v.sent = s.sent
      /\ v.closeMark = s.closeMark /\ v.messageQueue = s.messageQueue
      /\ v.crashed = s.crashed /\ v.kind = s.kind
  BY <1>1 DEF Socket, SocketState
<1>4. [type |-> "IN_DISCONNECTED", gens |-> {}] \in InMessage
  BY DEF InMessage
<1> HIDE DEF v
<1>5. LET t == put(v, "IN_DISCONNECTED", {})
      IN  /\ t \in Socket
          /\ SameControl(v, t) /\ SameData(v, t)
          /\ t.messageQueue = Append(v.messageQueue,
                                [type |-> "IN_DISCONNECTED", gens |-> {}])
  BY <1>3, <1>4, PutEffect
<1> QED
  BY <1>2, <1>3, <1>5 DEF SameControl, SameData, g, b, q

----------------------------------------------------------------------------
(* The control invariant.                                                  *)

\* Core depends on the control fields and the queue only.
LEMMA FrameControl ==
  ASSUME NEW s, NEW t \in Socket, SameControl(s, t)
  PROVE  /\ Current(t) = Current(s)
         /\ Closable(s) => Closable(t)
         /\ Lanes(s) => Lanes(t)
         /\ Phases(s) => Phases(t)
         /\ Alive(s) => Alive(t)
         /\ Marks(s) /\ t.writeQueue = s.writeQueue => Marks(t)
BY DEF SameControl, Current, Closable, Lanes, Phases, Alive, Marks

\* doClose(): the new generation leaves every operation behind.
LEMMA DoCloseCore ==
  ASSUME NEW s, Closable(s)
  PROVE  Core(doClose(s))
<1> DEFINE t == doClose(s)
<1>1. /\ t \in Socket
      /\ t.state = "DISCONNECTED" /\ t.generation = s.generation + 1
      /\ t.writing = FALSE /\ t.established = FALSE
      /\ t.pending = s.pending /\ t.overlap = s.overlap
      /\ t.stream = s.stream /\ t.writeQueue = << >>
      /\ t.tcpOpen = (IF s.stream = 0 THEN s.tcpOpen ELSE FALSE)
  BY DoCloseEffect DEF Closable
<1> HIDE DEF t
<1>2. \A op \in s.pending : op.gen \in Nat /\ op.gen <= s.generation
  BY FieldTypes DEF Closable, Op
<1>3. s.generation \in Nat
  BY FieldTypes DEF Closable
<1>4. Current(t) = {}
  BY <1>1, <1>2, <1>3 DEF Current
<1>5. ~t.tcpOpen
  BY <1>1 DEF Closable
<1>6. Closable(t)
  BY <1>1, <1>2, <1>3, <1>5 DEF Closable
<1>7. Lanes(t) /\ Phases(t) /\ Alive(t)
  BY <1>1, <1>4, <1>5 DEF Lanes, Phases, Alive
<1>8. Marks(t)
  BY <1>1 DEF Marks
<1> QED
  BY <1>6, <1>7, <1>8 DEF Core, t

\* The two ways of closing at once: doClose() or, on a socket that is closed
\* or closing, nothing.
LEMMA CloseNowCore ==
  ASSUME NEW s, Closable(s), ~setDisconnectingCAS(s) => Core(s)
  PROVE  Core(closeNow(s)) /\ Core(errorConnection(s))
<1>1. Core(closeNow(s))
  BY DoCloseCore DEF closeNow
<1>2. Closable(put(s, "IN_ERROR", {}))
  <2>1. [type |-> "IN_ERROR", gens |-> {}] \in InMessage
    BY DEF InMessage
  <2>2. /\ put(s, "IN_ERROR", {}) \in Socket
        /\ SameControl(s, put(s, "IN_ERROR", {}))
    BY <2>1, PutEffect DEF Closable
  <2> QED
    BY <2>2, FrameControl
<1>3. Core(errorConnection(s))
  BY <1>2, DoCloseCore DEF errorConnection
<1> QED
  BY <1>1, <1>3

LEMMA ResumedCloses ==
  ASSUME NEW s, Resumed(s)
  PROVE  Core(closeNow(s)) /\ Core(errorConnection(s))
<1>1. ~setDisconnectingCAS(s) => Core(s)
  BY DEF Resumed, setDisconnectingCAS, Core, Alive
<1> QED
  BY <1>1, CloseNowCore DEF Resumed

\* A handler that starts the next operation of the incoming direction.
LEMMA StartIncoming ==
  ASSUME NEW s, Resumed(s), NEW kind \in Incoming,
         (kind = "read") <=> s.established
  PROVE  Core(Start(s, kind))
<1> DEFINE t == Start(s, kind)
           new == [kind |-> kind, gen |-> s.generation, stream |-> s.stream]
<1>1. kind \in OpKind
  BY DEF Incoming, OpKind
<1>2. /\ t \in Socket /\ new \in Op
      /\ t.pending = s.pending \cup {new}
      /\ t.overlap = (s.overlap \/ \E op \in Current(s) :
                                     Conflicts(op.kind, kind))
      /\ t.state = s.state /\ t.generation = s.generation
      /\ t.writing = s.writing /\ t.stream = s.stream
      /\ t.tcpOpen = s.tcpOpen /\ t.established = s.established
      /\ t.writeQueue = s.writeQueue
  BY <1>1, StartEffect DEF Resumed, Closable, SameData
<1>3. new.kind = kind /\ new.gen = s.generation
  OBVIOUS
<1> HIDE DEF t, new
<1>4. Current(t) = Current(s) \cup {new}
  BY <1>2, <1>3 DEF Current
<1>5. \A op \in Current(s) : ~Conflicts(op.kind, kind)
  BY DEF Resumed, Conflicts, Incoming, Outgoing, ConnectPhase
<1>6. Closable(t)
  <2>1. s.generation \in Nat
    BY FieldTypes DEF Resumed, Closable
  <2>2. ~t.overlap
    BY <1>2, <1>5, Zenon DEF Resumed, Closable
  <2>3. \A op \in t.pending : op.gen <= t.generation
    BY <1>2, <1>3, <2>1 DEF Resumed, Closable
  <2> QED
    BY <1>2, <2>2, <2>3 DEF Resumed, Closable
<1>7. Lanes(t)
  <2>1. new.kind \notin Outgoing
    BY <1>3 DEF Incoming, Outgoing, ConnectPhase
  <2>2. \A op \in Current(s) : ~Conflicts(new.kind, op.kind)
    BY <1>3, <1>5 DEF Conflicts
  <2>3. new.kind \in ConnectPhase => ~s.established
    BY <1>3 DEF ConnectPhase
  <2> QED
    BY <1>2, <1>3, <1>4, <1>5, <2>1, <2>2, <2>3 DEF Lanes, Resumed
<1>8. Phases(t)
  <2>1. new.kind # "close"
    BY <1>3 DEF Incoming, ConnectPhase
  <2> QED
    BY <1>2, <1>4, <2>1 DEF Phases, Resumed
<1>9. Alive(t)
  <2>1. kind # "read" => kind \in ConnectPhase
    BY DEF Incoming
  <2> QED
    BY <1>2, <1>3, <1>4, <2>1 DEF Alive, Resumed, Phases
<1>10. Marks(t)
  BY <1>2 DEF Marks, Resumed
<1> QED
  BY <1>6, <1>7, <1>8, <1>9, <1>10 DEF Core, t

\* checkWriting() starts an outgoing operation only when there is none.
LEMMA StartOutgoing ==
  ASSUME NEW s, Core(s), ~s.writing, NEW kind \in Outgoing,
         NEW t \in Socket,
         t.generation = s.generation, t.pending = s.pending,
         t.stream = s.stream, t.tcpOpen = s.tcpOpen,
         t.established = s.established, t.overlap = s.overlap,
         t.writing = TRUE,
         kind = "write" => s.state # "DISCONNECTED" /\ t.state = s.state,
         kind = "close" => s.state # "DISCONNECTED" /\ t.state = "DISCONNECTING",
         Marks(t)
  PROVE  Core(Start(t, kind))
<1> DEFINE u == Start(t, kind)
           new == [kind |-> kind, gen |-> t.generation, stream |-> t.stream]
<1>1. kind \in OpKind
  BY DEF Outgoing, OpKind
<1>2. /\ u \in Socket /\ new \in Op
      /\ u.pending = t.pending \cup {new}
      /\ u.overlap = (t.overlap \/ \E op \in Current(t) :
                                     Conflicts(op.kind, kind))
      /\ u.state = t.state /\ u.generation = t.generation
      /\ u.writing = t.writing /\ u.stream = t.stream
      /\ u.tcpOpen = t.tcpOpen /\ u.established = t.established
      /\ u.writeQueue = t.writeQueue
  BY <1>1, StartEffect DEF SameData
<1>3. new.kind = kind /\ new.gen = s.generation
  OBVIOUS
<1> HIDE DEF u, new
<1>4. Current(t) = Current(s) /\ Current(u) = Current(s) \cup {new}
  BY <1>2, <1>3 DEF Current
<1>5. \A op \in Current(s) : op.kind \in Incoming
  <2>1. \A op \in Current(s) : op.kind \in OpKind /\ op.kind \notin Outgoing
    BY FieldTypes DEF Core, Lanes, Current, Closable, Op
  <2> QED
    BY <2>1 DEF OpKind, Incoming, Outgoing
<1>6. kind \notin Incoming
  BY DEF Incoming, Outgoing, ConnectPhase
<1>7. \A op \in Current(s) :
        ~Conflicts(op.kind, kind) /\ ~Conflicts(kind, op.kind)
  BY <1>5, <1>6 DEF Conflicts
<1>8. Closable(u)
  <2>1. s.generation \in Nat
    BY FieldTypes DEF Core, Closable
  <2>2. ~u.overlap
    BY <1>2, <1>4, <1>7, Zenon DEF Core, Closable
  <2>3. \A op \in u.pending : op.gen <= u.generation
    BY <1>2, <1>3, <2>1 DEF Core, Closable
  <2> QED
    BY <1>2, <2>2, <2>3 DEF Core, Closable
<1>9. Lanes(u)
  <2>1. kind \notin ConnectPhase /\ kind # "read"
    BY <1>6 DEF Incoming
  <2> QED
    BY <1>2, <1>3, <1>4, <1>7, <2>1 DEF Lanes, Core
<1>10. Phases(u)
  <2>1. \A op \in Current(s) : op.kind # "close"
    BY <1>5 DEF Incoming, ConnectPhase
  <2>2. CASE kind = "write"
    BY <1>2, <1>3, <1>4, <2>1, <2>2 DEF Phases, Core
  <2>3. CASE kind = "close"
    BY <1>2, <1>3, <1>4, <2>3 DEF Phases, Core
  <2> QED
    BY <2>2, <2>3 DEF Outgoing
<1>11. Alive(u)
  <2>1. CASE kind = "write"
    BY <1>2, <1>4, <2>1 DEF Alive, Core
  <2>2. CASE kind = "close"
    BY <1>2, <2>2 DEF Alive
  <2> QED
    BY <2>1, <2>2 DEF Outgoing
<1>12. Marks(u)
  BY <1>2 DEF Marks
<1> QED
  BY <1>8, <1>9, <1>10, <1>11, <1>12 DEF Core, u

\* The socket after its first queued message has been taken.
Popped(s) == [s EXCEPT !.writing = TRUE, !.writeQueue = Tail(@)]

LEMMA PoppedEffect ==
  ASSUME NEW s \in Socket, s.writeQueue # << >>
  PROVE  LET t == Popped(s)
         IN  /\ t \in Socket
             /\ t.writing = TRUE /\ t.writeQueue = Tail(s.writeQueue)
             /\ t.state = s.state /\ t.generation = s.generation
             /\ t.pending = s.pending /\ t.stream = s.stream
             /\ t.tcpOpen = s.tcpOpen /\ t.established = s.established
             /\ t.overlap = s.overlap /\ t.messageQueue = s.messageQueue
             /\ t.messageToWrite = s.messageToWrite
             /\ t.written = s.written /\ t.sent = s.sent
             /\ t.closeMark = s.closeMark /\ t.crashed = s.crashed
             /\ t.kind = s.kind
<1> DEFINE q == Tail(s.writeQueue)
<1>1. q \in Seq(OutMessage)
  BY FieldTypes
<1> HIDE DEF q
<1>2. LET t == [s EXCEPT !.writing = TRUE, !.writeQueue = q]
      IN  /\ t \in Socket
          /\ t.writing = TRUE /\ t.writeQueue = q
          /\ t.state = s.state /\ t.generation = s.generation
          /\ t.pending = s.pending /\ t.stream = s.stream
          /\ t.tcpOpen = s.tcpOpen /\ t.established = s.established
          /\ t.overlap = s.overlap /\ t.messageQueue = s.messageQueue
          /\ t.messageToWrite = s.messageToWrite
          /\ t.written = s.written /\ t.sent = s.sent
          /\ t.closeMark = s.closeMark /\ t.crashed = s.crashed
          /\ t.kind = s.kind
  BY <1>1 DEF Socket
<1> QED
  BY <1>2 DEF Popped, q

LEMMA TailFacts ==
  ASSUME NEW q \in Seq(OutMessage), q # << >>
  PROVE  /\ Head(q) = q[1] /\ 1 \in DOMAIN q /\ q[1] \in OutMessage
         /\ \A i \in DOMAIN Tail(q) : i + 1 \in DOMAIN q /\ Tail(q)[i] = q[i + 1]
         /\ DOMAIN Tail(q) \subseteq Nat \ {0}
OBVIOUS

LEMMA CheckWritingCore ==
  ASSUME NEW s, Core(s)
  PROVE  Core(checkWriting(s))
<1> DEFINE q == s.writeQueue
           t == Popped(s)
<1>1. s \in Socket /\ q \in Seq(OutMessage)
  BY FieldTypes DEF Core, Closable
<1>2. CASE ~(/\ s.state \in {"CONNECTED", "DISCONNECT_REQUESTED"}
             /\ ~s.writing
             /\ q # << >>)
  BY <1>2 DEF checkWriting
<1>3. CASE /\ s.state \in {"CONNECTED", "DISCONNECT_REQUESTED"}
           /\ ~s.writing
           /\ q # << >>
  <2>1. /\ t \in Socket
        /\ t.writing = TRUE /\ t.writeQueue = Tail(q)
        /\ t.state = s.state /\ t.generation = s.generation
        /\ t.pending = s.pending /\ t.stream = s.stream
        /\ t.tcpOpen = s.tcpOpen /\ t.established = s.established
        /\ t.overlap = s.overlap
    BY <1>1, <1>3, PoppedEffect
  <2>2. /\ Head(q) = q[1] /\ 1 \in DOMAIN q /\ q[1] \in OutMessage
        /\ \A i \in DOMAIN Tail(q) : i + 1 \in DOMAIN q /\ Tail(q)[i] = q[i + 1]
        /\ DOMAIN Tail(q) \subseteq Nat \ {0}
    BY <1>1, <1>3, TailFacts
  <2>3. Marks(s)
    BY DEF Core
  <2> HIDE DEF t, q
  <2>4. CASE q[1].type = "OUT_MESSAGE"
    <3> DEFINE u == [t EXCEPT !.messageToWrite = q[1].id]
    <3>1. /\ u \in Socket
          /\ u.writing = TRUE /\ u.writeQueue = Tail(q)
          /\ u.state = s.state /\ u.generation = s.generation
          /\ u.pending = s.pending /\ u.stream = s.stream
          /\ u.tcpOpen = s.tcpOpen /\ u.established = s.established
          /\ u.overlap = s.overlap
      <4>1. q[1].id \in Nat
        BY <2>2 DEF OutMessage
      <4> QED
        BY <2>1, <4>1 DEF Socket
    <3>2. checkWriting(s) = Start(u, "write")
      BY <1>3, <2>2, <2>4 DEF checkWriting, asyncWrite, t, q, Popped
    <3> HIDE DEF u
    <3>3. Marks(u)
      BY <2>2, <2>3, <3>1 DEF Marks, q
    <3>4. Core(Start(u, "write"))
      BY <1>3, <3>1, <3>3, StartOutgoing DEF Outgoing
    <3> QED
      BY <3>2, <3>4
  <2>5. CASE q[1].type = "OUT_DISCONNECT"
    <3> DEFINE u == [t EXCEPT !.state = "DISCONNECTING"]
    <3>1. /\ u \in Socket
          /\ u.writing = TRUE /\ u.writeQueue = Tail(q)
          /\ u.state = "DISCONNECTING" /\ u.generation = s.generation
          /\ u.pending = s.pending /\ u.stream = s.stream
          /\ u.tcpOpen = s.tcpOpen /\ u.established = s.established
          /\ u.overlap = s.overlap
      BY <2>1 DEF Socket, SocketState
    <3>2. s.state = "DISCONNECT_REQUESTED"
      BY <2>2, <2>3, <2>5 DEF Marks, q
    <3>3. checkWriting(s) = Start(u, "close")
      BY <1>3, <2>1, <2>2, <2>5, <3>2
         DEF checkWriting, asyncCloseSocket, t, q, Popped
    <3> HIDE DEF u
    <3>4. Marks(u)
      BY <2>2, <2>3, <2>5, <3>1 DEF Marks, q
    <3>5. Core(Start(u, "close"))
      BY <1>3, <3>1, <3>4, StartOutgoing DEF Outgoing
    <3> QED
      BY <3>3, <3>5
  <2> QED
    BY <2>2, <2>4, <2>5 DEF OutMessage
<1> QED
  BY <1>2, <1>3

----------------------------------------------------------------------------
(* Completions.                                                            *)

LEMMA CompletedEffect ==
  ASSUME NEW s \in Socket, NEW op
  PROVE  LET t == Completed(s, op)
         IN  /\ t \in Socket
             /\ t.pending = s.pending \ {op}
             /\ t.state = s.state /\ t.generation = s.generation
             /\ t.writing = s.writing /\ t.stream = s.stream
             /\ t.tcpOpen = s.tcpOpen /\ t.established = s.established
             /\ t.overlap = s.overlap /\ SameData(s, t)
             /\ t.messageQueue = s.messageQueue /\ t.kind = s.kind
             /\ t.readBuffer = s.readBuffer /\ t.crashed = s.crashed
<1> DEFINE p == s.pending \ {op}
<1>1. p \in SUBSET Op
  BY FieldTypes
<1> HIDE DEF p
<1>2. LET t == [s EXCEPT !.pending = p]
      IN  /\ t \in Socket
          /\ t.pending = p
          /\ t.state = s.state /\ t.generation = s.generation
          /\ t.writing = s.writing /\ t.stream = s.stream
          /\ t.tcpOpen = s.tcpOpen /\ t.established = s.established
          /\ t.overlap = s.overlap /\ SameData(s, t)
          /\ t.messageQueue = s.messageQueue /\ t.kind = s.kind
          /\ t.readBuffer = s.readBuffer /\ t.crashed = s.crashed
  BY <1>1 DEF Socket, SameData
<1> QED
  BY <1>2 DEF Completed, p

LEMMA CompletedClosable ==
  ASSUME NEW s, Closable(s), NEW op
  PROVE  Closable(Completed(s, op))
BY CompletedEffect DEF Closable

\* An operation of an earlier generation disappears without a trace.
LEMMA StaleCompletion ==
  ASSUME NEW s, Core(s), NEW op, op.gen # s.generation
  PROVE  Core(Completed(s, op))
<1> DEFINE t == Completed(s, op)
<1>1. /\ t \in Socket
      /\ t.pending = s.pending \ {op}
      /\ t.state = s.state /\ t.generation = s.generation
      /\ t.writing = s.writing /\ t.stream = s.stream
      /\ t.tcpOpen = s.tcpOpen /\ t.established = s.established
      /\ t.overlap = s.overlap /\ t.writeQueue = s.writeQueue
  BY CompletedEffect DEF Core, Closable, SameData
<1>2. Closable(t)
  BY CompletedClosable DEF Core
<1> HIDE DEF t
<1>3. Current(t) = Current(s)
  BY <1>1 DEF Current
<1>4. Lanes(t) /\ Phases(t) /\ Alive(t) /\ Marks(t)
  BY <1>1, <1>3 DEF Core, Lanes, Phases, Alive, Marks
<1> QED
  BY <1>2, <1>4 DEF Core, t

LEMMA IncomingCompleted ==
  ASSUME NEW s, Core(s), NEW op \in Current(s), op.kind \in Incoming
  PROVE  /\ Resumed(Completed(s, op))
         /\ (op.kind = "read") <=> Completed(s, op).established
<1> DEFINE t == Completed(s, op)
<1>1. /\ t \in Socket
      /\ t.pending = s.pending \ {op}
      /\ t.state = s.state /\ t.generation = s.generation
      /\ t.writing = s.writing /\ t.stream = s.stream
      /\ t.tcpOpen = s.tcpOpen /\ t.established = s.established
      /\ t.overlap = s.overlap /\ t.writeQueue = s.writeQueue
  BY CompletedEffect DEF Core, Closable, SameData
<1>2. Closable(t)
  BY CompletedClosable DEF Core
<1> HIDE DEF t
<1>3. Current(t) = Current(s) \ {op}
  BY <1>1 DEF Current
<1>4. op.kind \notin Outgoing
  BY DEF Incoming, Outgoing, ConnectPhase
<1>5. \A o \in Current(t) : o.kind \in Outgoing
  <2>1. \A o \in Current(s) : o.kind \in OpKind
    BY FieldTypes DEF Core, Closable, Current, Op
  <2>2. \A o \in Current(t) : ~Conflicts(o.kind, op.kind)
    BY <1>3 DEF Core, Lanes
  <2> QED
    BY <1>3, <2>1, <2>2 DEF Conflicts, OpKind, Incoming, Outgoing
<1>6. Lanes(t)
  BY <1>1, <1>3, <1>4 DEF Core, Lanes
<1>7. Phases(t)
  <2>1. op.kind # "close"
    BY <1>4 DEF Outgoing
  <2> QED
    BY <1>1, <1>3, <2>1 DEF Core, Phases
<1>8. Marks(t)
  BY <1>1 DEF Core, Marks
<1>9. t.state # "DISCONNECTED"
  BY <1>1 DEF Core, Alive
<1>10. (op.kind = "read") <=> t.established
  BY <1>1 DEF Core, Lanes, Incoming
<1> QED
  BY <1>2, <1>5, <1>6, <1>7, <1>8, <1>9, <1>10 DEF Resumed, t

\* A completed write: closing is possible, and so is going on.
LEMMA WriteCompleted ==
  ASSUME NEW s, Core(s), NEW op \in Current(s), op.kind = "write",
         NEW sent \in Seq(Nat)
  PROVE  /\ Closable(Completed(s, op))
         /\ setDisconnectingCAS(Completed(s, op))
         /\ Core([Completed(s, op) EXCEPT !.writing = FALSE, !.sent = sent])
<1> DEFINE t == Completed(s, op)
           u == [t EXCEPT !.writing = FALSE, !.sent = sent]
<1>1. /\ t \in Socket
      /\ t.pending = s.pending \ {op}
      /\ t.state = s.state /\ t.generation = s.generation
      /\ t.stream = s.stream
      /\ t.tcpOpen = s.tcpOpen /\ t.established = s.established
      /\ t.overlap = s.overlap /\ t.writeQueue = s.writeQueue
  BY CompletedEffect DEF Core, Closable, SameData
<1>2. Closable(t)
  BY CompletedClosable DEF Core
<1> HIDE DEF t
<1>3. /\ u \in Socket
      /\ u.pending = s.pending \ {op} /\ u.writing = FALSE
      /\ u.state = s.state /\ u.generation = s.generation
      /\ u.stream = s.stream
      /\ u.tcpOpen = s.tcpOpen /\ u.established = s.established
      /\ u.overlap = s.overlap /\ u.writeQueue = s.writeQueue
  BY <1>1 DEF Socket
<1> HIDE DEF u
<1>4. Current(u) = Current(s) \ {op}
  BY <1>3 DEF Current
<1>5. \A o \in Current(u) : o.kind \notin Outgoing
  <2>1. \A o \in Current(u) : ~Conflicts(o.kind, op.kind)
    BY <1>4 DEF Core, Lanes
  <2>2. op.kind \notin Incoming
    BY DEF Incoming, ConnectPhase
  <2> QED
    BY <2>1, <2>2 DEF Conflicts, Incoming, Outgoing, ConnectPhase
<1>6. \A o \in Current(s) : o.kind # "close"
  BY <1>4, <1>5 DEF Outgoing
<1>7. s.state # "DISCONNECTED" /\ s.state # "DISCONNECTING"
  BY <1>6 DEF Core, Alive, Phases
<1>8. Closable(u)
  BY <1>3 DEF Core, Closable
<1>9. Lanes(u)
  BY <1>3, <1>4, <1>5 DEF Core, Lanes
<1>10. Phases(u)
  BY <1>3, <1>4, <1>6, <1>7 DEF Core, Phases
<1>11. Alive(u)
  <2>1. op.kind \notin Incoming /\ op.kind \notin ConnectPhase
    BY DEF Incoming, ConnectPhase
  <2> QED
    BY <1>3, <1>4, <1>7, <2>1 DEF Core, Alive
<1>12. Marks(u)
  BY <1>3 DEF Core, Marks
<1>13. setDisconnectingCAS(t)
  BY <1>1, <1>7 DEF setDisconnectingCAS
<1> QED
  BY <1>2, <1>8, <1>9, <1>10, <1>11, <1>12, <1>13 DEF Core, t, u

----------------------------------------------------------------------------
(* The handlers.                                                           *)

LEMMA HostResolvedStepCore ==
  ASSUME NEW s, Resumed(s), ~s.established, NEW ec, NEW tlsParams
  PROVE  Core(hostResolvedStep(s, ec, tlsParams))
<1> DEFINE g == s.generation
           t == [s EXCEPT !.stream = g, !.tcpOpen = FALSE, !.sent = << >>]
           u == [t EXCEPT !.tcpOpen = TRUE]
<1>1. s \in Socket /\ g \in Nat /\ g > 0
  BY FieldTypes DEF Resumed, Closable, Phases
<1>2. << >> \in Seq(Nat)
  OBVIOUS
<1> HIDE DEF g
<1>3. /\ t \in Socket /\ t.state = s.state /\ t.generation = s.generation
      /\ t.writing = s.writing /\ t.pending = s.pending
      /\ t.stream = g /\ t.tcpOpen = FALSE
      /\ t.established = s.established /\ t.overlap = s.overlap
      /\ t.writeQueue = s.writeQueue
  BY <1>1, <1>2 DEF Socket
<1>4. resetWS(s) = t
  BY DEF resetWS, g
<1> HIDE DEF t
<1>5. /\ u \in Socket /\ u.state = s.state /\ u.generation = s.generation
      /\ u.writing = s.writing /\ u.pending = s.pending
      /\ u.stream = g /\ u.tcpOpen = TRUE
      /\ u.established = s.established /\ u.overlap = s.overlap
      /\ u.writeQueue = s.writeQueue
  BY <1>3 DEF Socket
<1> HIDE DEF u
<1>6. Current(t) = Current(s) /\ Current(u) = Current(s)
  BY <1>3, <1>5 DEF Current
<1>7. Resumed(t)
  BY <1>1, <1>3, <1>6 DEF Resumed, Closable, Lanes, Phases, Marks
<1>8. Resumed(u)
  BY <1>1, <1>5, <1>6 DEF Resumed, Closable, Lanes, Phases, Marks
<1>9. Core(errorConnection(t))
  BY <1>7, ResumedCloses
<1>10. Core(Start(u, "connect"))
  BY <1>5, <1>8, StartIncoming DEF Incoming, ConnectPhase
<1>11. Core(asyncConnect(s, tlsParams))
  BY <1>4, <1>9, <1>10 DEF asyncConnect, u
<1>12. Core(errorConnection(s))
  BY ResumedCloses
<1> QED
  BY <1>11, <1>12 DEF hostResolvedStep

LEMMA SocketConnectedCore ==
  ASSUME NEW s, Resumed(s), ~s.established, NEW ec
  PROVE  Core(socketConnected(s, ec))
<1>1. Core(Start(s, "handshake")) /\ Core(Start(s, "ssl_handshake"))
  BY StartIncoming DEF Incoming, ConnectPhase
<1>2. Core(errorConnection(s))
  BY ResumedCloses
<1> QED
  BY <1>1, <1>2 DEF socketConnected, asyncHandshake

\* The socket that handshakeCompleted() hands to checkWriting().
Established(s) ==
  asyncRead(put([s EXCEPT !.state = "CONNECTED", !.established = TRUE],
                "IN_CONNECTED", {}))

LEMMA EstablishedCore ==
  ASSUME NEW s, Resumed(s), ~s.established, s.state = "CONNECTING"
  PROVE  LET t == Established(s)
         IN  /\ Core(t)
             /\ t.pending = s.pending \cup {[kind |-> "read",
                             gen |-> s.generation, stream |-> s.stream]}
             /\ t.state = "CONNECTED" /\ t.established = TRUE
             /\ t.generation = s.generation /\ t.stream = s.stream
             /\ t.writing = s.writing /\ SameData(s, t)
             /\ t.messageQueue = Append(s.messageQueue,
                                   [type |-> "IN_CONNECTED", gens |-> {}])
             /\ t.crashed = (s.crashed \/ s.stream = 0) /\ t.kind = s.kind
<1> DEFINE t == [s EXCEPT !.state = "CONNECTED", !.established = TRUE]
           u == put(t, "IN_CONNECTED", {})
<1>1. /\ t \in Socket /\ t.state = "CONNECTED"
      /\ t.established = TRUE /\ t.generation = s.generation
      /\ t.writing = s.writing /\ t.pending = s.pending
      /\ t.stream = s.stream /\ t.tcpOpen = s.tcpOpen
      /\ t.overlap = s.overlap /\ SameData(s, t)
      /\ t.messageQueue = s.messageQueue /\ t.crashed = s.crashed
      /\ t.kind = s.kind
  BY DEF Resumed, Closable, Socket, SocketState, SameData
<1> HIDE DEF t
<1>2. [type |-> "IN_CONNECTED", gens |-> {}] \in InMessage
  BY DEF InMessage
<1>3. /\ u \in Socket /\ SameControl(t, u) /\ SameData(t, u)
      /\ u.messageQueue = Append(t.messageQueue,
                                 [type |-> "IN_CONNECTED", gens |-> {}])
  BY <1>1, <1>2, PutEffect
<1>4. Established(s) = Start(u, "read")
  BY DEF Established, asyncRead, t, u
<1> HIDE DEF u
<1>5. Current(u) = Current(s)
  BY <1>1, <1>3 DEF Current, SameControl
<1>6. Closable(u) /\ Phases(u)
  BY <1>1, <1>3, <1>5 DEF Resumed, Closable, Phases, SameControl
<1>7. Lanes(u)
  <2>1. \A op \in Current(s) : op.kind \notin ConnectPhase
    BY DEF Resumed, Outgoing, ConnectPhase
  <2> QED
    BY <1>1, <1>3, <1>5, <2>1 DEF Resumed, Lanes, SameControl
<1>8. Marks(u)
  BY <1>1, <1>3 DEF Resumed, Marks, SameData
<1>9. Resumed(u) /\ u.established
  BY <1>1, <1>3, <1>5, <1>6, <1>7, <1>8 DEF Resumed, SameControl
<1>10. Core(Start(u, "read"))
  BY <1>9, StartIncoming DEF Incoming
<1> DEFINE v == Start(u, "read")
<1>11. "read" \in OpKind
  BY DEF OpKind
<1>12. /\ v.pending = u.pending \cup {[kind |-> "read",
                         gen |-> u.generation, stream |-> u.stream]}
       /\ v.state = u.state /\ v.established = u.established
       /\ v.generation = u.generation /\ v.stream = u.stream
       /\ v.writing = u.writing /\ SameData(u, v)
       /\ v.messageQueue = u.messageQueue /\ v.kind = u.kind
       /\ v.crashed = (u.crashed \/ u.stream = 0)
  BY <1>3, <1>11, StartEffect
<1> HIDE DEF v
<1> QED
  BY <1>1, <1>3, <1>4, <1>10, <1>12 DEF SameControl, SameData, v

LEMMA HandshakeCompletedCore ==
  ASSUME NEW s, Resumed(s), ~s.established, NEW ec
  PROVE  Core(handshakeCompleted(s, ec))
<1>1. ASSUME s.state = "CONNECTING"
      PROVE  Core(checkWriting(Established(s)))
  BY <1>1, EstablishedCore, CheckWritingCore
<1>2. Core(closeNow(s)) /\ Core(errorConnection(s))
  BY ResumedCloses
<1> QED
  BY <1>1, <1>2 DEF handshakeCompleted, Established

LEMMA SSLHandshakeCompleteCore ==
  ASSUME NEW s, Resumed(s), ~s.established, NEW ec
  PROVE  Core(sslHandshakeComplete(s, ec))
<1>1. Core(Start(s, "handshake"))
  BY StartIncoming DEF Incoming, ConnectPhase
<1> QED
  BY <1>1, HandshakeCompletedCore DEF sslHandshakeComplete

LEMMA OnReadCore ==
  ASSUME NEW s, Resumed(s), s.established, NEW ec \in ErrorCode
  PROVE  Core(onRead(s, ec))
<1> DEFINE b == s.readBuffer \cup {s.generation}
           t == put(s, "IN_MESSAGE", b)
           u == [t EXCEPT !.readBuffer = {}]
<1>1. s \in Socket
  BY DEF Resumed, Closable
<1>2. [type |-> "IN_MESSAGE", gens |-> b] \in InMessage
  BY <1>1, FieldTypes DEF InMessage
<1>3. t \in Socket /\ SameControl(s, t) /\ SameData(s, t)
  BY <1>1, <1>2, PutEffect
<1> HIDE DEF t
<1>4. u \in Socket /\ SameControl(t, u) /\ SameData(t, u)
  BY <1>3 DEF Socket, SameControl, SameData
<1> HIDE DEF u
<1>5. SameControl(s, u) /\ SameData(s, u)
  BY <1>3, <1>4 DEF SameControl, SameData
<1>6. Resumed(u) /\ u.established
  BY <1>4, <1>5, FrameControl DEF Resumed, SameControl, SameData
<1>7. Core(asyncRead(u))
  BY <1>6, StartIncoming DEF asyncRead, Incoming
<1>8. Core(closeNow(s)) /\ Core(errorConnection(s))
  BY ResumedCloses
<1>9. /\ ec = "ok" => onRead(s, ec) = asyncRead(u)
      /\ ec = "closed" => onRead(s, ec) = closeNow(s)
      /\ ec = "error" => onRead(s, ec) = errorConnection(s)
  BY DEF onRead, u, t
<1> QED
  BY <1>7, <1>8, <1>9 DEF ErrorCode

LEMMA OnWriteCore ==
  ASSUME NEW s, Core(s), NEW op \in Current(s), op.kind = "write",
         NEW ec \in ErrorCode
  PROVE  Core(onWrite(Completed(s, op), ec))
<1> DEFINE t == Completed(s, op)
           sent == Append(t.sent, t.messageToWrite)
           u == [t EXCEPT !.writing = FALSE, !.sent = sent]
<1>1. t \in Socket
  BY CompletedEffect DEF Core, Closable
<1>2. sent \in Seq(Nat)
  BY <1>1, FieldTypes
<1>3. Closable(t) /\ setDisconnectingCAS(t) /\ Core(u)
  BY <1>2, WriteCompleted
<1> HIDE DEF t, u
<1>4. Core(closeNow(t)) /\ Core(errorConnection(t))
  BY <1>3, CloseNowCore
<1>5. Core(checkWriting(u))
  BY <1>3, CheckWritingCore
<1>6. /\ ec = "ok" => onWrite(t, ec) = checkWriting(u)
      /\ ec = "closed" => onWrite(t, ec) = closeNow(t)
      /\ ec = "error" => onWrite(t, ec) = errorConnection(t)
  BY DEF onWrite, u, sent
<1>7. Core(onWrite(t, ec))
  BY <1>4, <1>5, <1>6 DEF ErrorCode
<1> QED
  BY <1>7 DEF t

----------------------------------------------------------------------------
(* The calls of the script.                                                *)

LEMMA OpenCore ==
  ASSUME NEW s, Core(s), NEW shouldClearQueue \in BOOLEAN
  PROVE  Core(open(s, shouldClearQueue))
<1>1. CASE s.state # "DISCONNECTED"
  BY <1>1 DEF open
<1>2. CASE s.state = "DISCONNECTED"
  <2> DEFINE q == IF shouldClearQueue THEN << >> ELSE s.writeQueue
             g == s.generation + 1
             t == [s EXCEPT !.state = "CONNECTING", !.writeQueue = q,
                            !.generation = g]
  <2>1. s \in Socket /\ s.generation \in Nat /\ g \in Nat /\ g > 0
    BY FieldTypes DEF Core, Closable
  <2>2. q \in Seq(OutMessage)
    <3>1. s.writeQueue \in Seq(OutMessage) /\ << >> \in Seq(OutMessage)
      BY <2>1, FieldTypes
    <3> QED
      BY <3>1
  <2>3. open(s, shouldClearQueue) = Start(t, "resolve")
    BY <1>2, <2>1 DEF open, clearQueue, Socket
  <2>4. \A op \in s.pending : op.gen \in Nat /\ op.gen < g
    BY <2>1, FieldTypes DEF Core, Closable, Op
  <2>5. \A i \in DOMAIN q : q[i].type # "OUT_DISCONNECT"
    BY <1>2 DEF Core, Marks
  <2> HIDE DEF q
  <2>6. /\ t \in Socket /\ t.state = "CONNECTING" /\ t.writeQueue = q
        /\ t.generation = g /\ t.pending = s.pending
        /\ t.writing = s.writing /\ t.stream = s.stream
        /\ t.tcpOpen = s.tcpOpen /\ t.established = s.established
        /\ t.overlap = s.overlap
    BY <2>1, <2>2 DEF Socket, SocketState
  <2> HIDE DEF t
  <2>7. Current(t) = {}
    BY <2>1, <2>4, <2>6 DEF Current
  <2>8. Closable(t)
    BY <2>1, <2>4, <2>6 DEF Core, Closable
  <2>9. Lanes(t) /\ ~t.established
    BY <1>2, <2>6, <2>7 DEF Core, Lanes, Alive
  <2>10. Phases(t)
    BY <2>1, <2>6, <2>7, <2>9 DEF Phases
  <2>11. Marks(t)
    BY <2>5, <2>6 DEF Marks
  <2>12. Resumed(t)
    BY <2>6, <2>7, <2>8, <2>9, <2>10, <2>11 DEF Resumed
  <2>13. Core(Start(t, "resolve"))
    BY <2>9, <2>12, StartIncoming DEF Incoming, ConnectPhase
  <2> QED
    BY <2>3, <2>13
<1> QED
  BY <1>1, <1>2

\* Appending to the queue.
LEMMA AppendFacts ==
  ASSUME NEW q \in Seq(OutMessage), NEW m \in OutMessage
  PROVE  /\ Append(q, m) \in Seq(OutMessage)
         /\ DOMAIN Append(q, m) = DOMAIN q \cup {Len(q) + 1}
         /\ Len(q) + 1 \notin DOMAIN q
         /\ Append(q, m)[Len(q) + 1] = m
         /\ \A i \in DOMAIN q : Append(q, m)[i] = q[i] /\ i < Len(q) + 1
         /\ DOMAIN q \subseteq Nat \ {0}
OBVIOUS

\* The socket that close() hands to checkWriting().
Marked(s) ==
  [s EXCEPT !.state      = "DISCONNECT_REQUESTED",
            !.closeMark  = s.written,
            !.writeQueue = Append(@, [type |-> "OUT_DISCONNECT", id |-> 0])]

LEMMA MarkedCore ==
  ASSUME NEW s, Core(s), s.state \in {"CONNECTING", "CONNECTED"}
  PROVE  LET t == Marked(s)
         IN  /\ Core(t)
             /\ t.state = "DISCONNECT_REQUESTED"
             /\ t.generation = s.generation /\ t.stream = s.stream
             /\ t.established = s.established /\ t.crashed = s.crashed
             /\ t.kind = s.kind
             /\ t.pending = s.pending /\ t.messageQueue = s.messageQueue
             /\ t.messageToWrite = s.messageToWrite
             /\ t.written = s.written /\ t.sent = s.sent
             /\ t.closeMark = s.written
             /\ t.writeQueue = Append(s.writeQueue,
                                 [type |-> "OUT_DISCONNECT", id |-> 0])
<1> DEFINE m == [type |-> "OUT_DISCONNECT", id |-> 0]
           q == Append(s.writeQueue, m)
           w == s.written
           t == [s EXCEPT !.state = "DISCONNECT_REQUESTED",
                          !.closeMark = w, !.writeQueue = q]
<1>1. /\ s \in Socket /\ s.writeQueue \in Seq(OutMessage)
      /\ w \in Nat /\ m \in OutMessage
  BY FieldTypes DEF Core, Closable, OutMessage
<1>2. /\ q \in Seq(OutMessage)
      /\ DOMAIN q = DOMAIN s.writeQueue \cup {Len(s.writeQueue) + 1}
      /\ \A i \in DOMAIN s.writeQueue : q[i] = s.writeQueue[i]
  BY <1>1, AppendFacts
<1>3. Marked(s) = t
  BY DEF Marked
<1> HIDE DEF q, w
<1>4. /\ t \in Socket /\ t.state = "DISCONNECT_REQUESTED"
      /\ t.writeQueue = q /\ t.generation = s.generation
      /\ t.pending = s.pending /\ t.writing = s.writing
      /\ t.stream = s.stream /\ t.tcpOpen = s.tcpOpen
      /\ t.established = s.established /\ t.overlap = s.overlap
      /\ t.messageQueue = s.messageQueue /\ t.crashed = s.crashed
      /\ t.kind = s.kind
      /\ t.messageToWrite = s.messageToWrite /\ t.written = s.written
      /\ t.sent = s.sent /\ t.closeMark = w
  BY <1>1, <1>2 DEF Socket, SocketState
<1> HIDE DEF t
<1>5. Current(t) = Current(s)
  BY <1>4 DEF Current
<1>6. Closable(t) /\ Lanes(t)
  BY <1>4, <1>5 DEF Core, Closable, Lanes
<1>7. Phases(t)
  BY <1>4, <1>5 DEF Core, Phases
<1>8. Alive(t)
  BY <1>4, <1>5 DEF Core, Alive, Incoming
<1>9. Marks(t)
  <2>1. \A i \in DOMAIN s.writeQueue : q[i].type # "OUT_DISCONNECT"
    BY <1>2 DEF Core, Marks
  <2> QED
    BY <1>2, <1>4, <2>1 DEF Marks
<1>10. Core(t)
  BY <1>6, <1>7, <1>8, <1>9 DEF Core
<1> QED
  BY <1>3, <1>4, <1>10 DEF q, w

LEMMA CloseCore ==
  ASSUME NEW s, Core(s)
  PROVE  Core(close(s))
<1>1. CASE s.state \notin {"CONNECTING", "CONNECTED"}
  BY <1>1 DEF close
<1>2. CASE s.state \in {"CONNECTING", "CONNECTED"}
  <2>1. close(s) = IF s.state = "CONNECTING" THEN Marked(s)
                                             ELSE checkWriting(Marked(s))
    BY <1>2 DEF close, Marked
  <2> QED
    BY <1>2, <2>1, MarkedCore, CheckWritingCore
<1> QED
  BY <1>1, <1>2

\* The socket that write() hands to checkWriting().
Queued(s) ==
  [s EXCEPT !.written    = s.written + 1,
            !.writeQueue = Append(@, [type |-> "OUT_MESSAGE",
                                      id |-> s.written + 1])]

LEMMA QueuedCore ==
  ASSUME NEW s, Core(s)
  PROVE  LET t == Queued(s)
         IN  /\ Core(t)
             /\ t.state = s.state /\ t.generation = s.generation
             /\ t.stream = s.stream /\ t.established = s.established
             /\ t.crashed = s.crashed /\ t.pending = s.pending
             /\ t.kind = s.kind
             /\ t.messageQueue = s.messageQueue
             /\ t.messageToWrite = s.messageToWrite
             /\ t.written = s.written + 1 /\ t.sent = s.sent
             /\ t.closeMark = s.closeMark
             /\ t.writeQueue = Append(s.writeQueue,
                            [type |-> "OUT_MESSAGE", id |-> s.written + 1])
<1> DEFINE n == s.written + 1
           m == [type |-> "OUT_MESSAGE", id |-> n]
           q == Append(s.writeQueue, m)
           t == [s EXCEPT !.written = n, !.writeQueue = q]
<1>1. /\ s \in Socket /\ s.writeQueue \in Seq(OutMessage)
      /\ n \in Nat /\ m \in OutMessage
  BY FieldTypes DEF Core, Closable, OutMessage
<1>2. /\ q \in Seq(OutMessage)
      /\ DOMAIN q = DOMAIN s.writeQueue \cup {Len(s.writeQueue) + 1}
      /\ q[Len(s.writeQueue) + 1] = m
      /\ \A i \in DOMAIN s.writeQueue : q[i] = s.writeQueue[i]
  BY <1>1, AppendFacts
<1>3. Queued(s) = t
  BY DEF Queued
<1>4. m.type # "OUT_DISCONNECT"
  OBVIOUS
<1> HIDE DEF q, m, n
<1>5. /\ t \in Socket /\ SameControl(s, t) /\ t.writeQueue = q
      /\ t.messageQueue = s.messageQueue
      /\ t.messageToWrite = s.messageToWrite /\ t.written = n
      /\ t.sent = s.sent /\ t.closeMark = s.closeMark
  BY <1>1, <1>2 DEF Socket, SameControl
<1> HIDE DEF t
<1>6. Marks(t)
  BY <1>2, <1>4, <1>5 DEF Core, Marks, SameControl
<1>7. Core(t)
  BY <1>5, <1>6, FrameControl DEF Core
<1> QED
  BY <1>3, <1>5, <1>7 DEF SameControl, q, m, n

LEMMA WriteCore ==
  ASSUME NEW s, Core(s)
  PROVE  Core(write(s))
<1>1. write(s) = checkWriting(Queued(s))
  BY DEF write, Queued
<1> QED
  BY <1>1, QueuedCore, CheckWritingCore

LEMMA ClearQueueCore ==
  ASSUME NEW s, Core(s)
  PROVE  Core(clearQueue(s))
<1> DEFINE q == << >>
           t == [s EXCEPT !.writeQueue = q]
<1>1. s \in Socket
  BY DEF Core, Closable
<1>2. q \in Seq(OutMessage)
  OBVIOUS
<1>3. clearQueue(s) = t
  BY DEF clearQueue
<1>4. DOMAIN q = {}
  OBVIOUS
<1> HIDE DEF q
<1>5. t \in Socket /\ SameControl(s, t) /\ t.writeQueue = q
  BY <1>1, <1>2 DEF Socket, SameControl
<1> HIDE DEF t
<1>6. Marks(t)
  BY <1>4, <1>5 DEF Marks
<1> QED
  BY <1>3, <1>5, <1>6, FrameControl DEF Core

----------------------------------------------------------------------------
(* A new socket, and handlers behind guardGeneration.                      *)

LEMMA NewSocketCore ==
  ASSUME NEW kind \in Kind
  PROVE  Core(NewSocket(kind))
<1> DEFINE s == NewSocket(kind)
<1>1. << >> \in Seq(OutMessage) /\ << >> \in Seq(InMessage)
      /\ << >> \in Seq(Nat)
  OBVIOUS
<1>2. s \in Socket
  BY <1>1 DEF NewSocket, Socket, SocketState
<1>3. /\ s.state = "DISCONNECTED" /\ s.pending = {}
      /\ s.writing = FALSE /\ s.established = FALSE
      /\ s.tcpOpen = FALSE /\ s.overlap = FALSE
      /\ s.writeQueue = << >>
  BY DEF NewSocket
<1> HIDE DEF s
<1>4. Current(s) = {}
  BY <1>3 DEF Current
<1>5. Core(s)
  BY <1>2, <1>3, <1>4 DEF Core, Closable, Lanes, Phases, Alive, Marks
<1> QED
  BY <1>5 DEF s

\* A handler of an incoming operation that leads from Resumed to Core, with
\* guardGeneration around it.
LEMMA GuardedIncoming ==
  ASSUME NEW s, Core(s), NEW op \in s.pending, op.kind \in Incoming,
         NEW t,
         LET u == Completed(s, op)
         IN  Resumed(u) /\ (op.kind = "read" <=> u.established) => Core(t)
  PROVE  Core(guardGeneration(Completed(s, op), op, t))
<1>1. Completed(s, op).generation = s.generation
  BY CompletedEffect DEF Core, Closable
<1>2. CASE op.gen = s.generation
  <2>1. op \in Current(s)
    BY <1>2 DEF Current
  <2>2. Core(t)
    BY <2>1, IncomingCompleted
  <2> QED
    BY <1>1, <1>2, <2>2 DEF guardGeneration
<1>3. CASE op.gen # s.generation
  BY <1>1, <1>3, StaleCompletion DEF guardGeneration
<1> QED
  BY <1>2, <1>3

=============================================================================
