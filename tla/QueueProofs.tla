---------------------------- MODULE QueueProofs ----------------------------
(***************************************************************************)
(* The messages of a socket: they are sent in the order of the write()     *)
(* calls, none twice, none is lost while the connection lasts, and the     *)
(* closing handshake starts after those queued before the close().         *)
(***************************************************************************)
EXTENDS GWSocketProofs

IsText(m) == m.type = "OUT_MESSAGE"

\* A write of the current attempt is in flight.
Busy(s) == \E op \in Current(s) : op.kind = "write"

\* What was acknowledged is increasing, up to the last message that was
\* handed to the stream, and without it while it is in flight.
SentUpTo(sent, last, busy) ==
  /\ \A i, j \in DOMAIN sent : i < j => sent[i] < sent[j]
  /\ \A i \in DOMAIN sent : sent[i] <= last /\ (busy => sent[i] < last)

\* The queued messages are increasing, after the last one that was handed to
\* the stream and up to the last one written.
QueuedFrom(queue, last, written) ==
  /\ \A i \in DOMAIN queue : IsText(queue[i]) =>
       last < queue[i].id /\ queue[i].id <= written
  /\ \A i, j \in DOMAIN queue :
       i < j /\ IsText(queue[i]) /\ IsText(queue[j]) =>
         queue[i].id < queue[j].id

\* Behind the mark there are only messages written after the close().
LateBehindMark(queue, mark) ==
  \A i, j \in DOMAIN queue :
    j < i /\ ~IsText(queue[j]) /\ IsText(queue[i]) => queue[i].id > mark

\* The closing handshake is under way: all of them were.
LateOnly(queue, mark) ==
  \A i \in DOMAIN queue : IsText(queue[i]) => queue[i].id > mark

Data(s) ==
  /\ s.messageToWrite <= s.written /\ s.closeMark <= s.written
  /\ SentUpTo(s.sent, s.messageToWrite, Busy(s))
  /\ QueuedFrom(s.writeQueue, s.messageToWrite, s.written)
  /\ LateBehindMark(s.writeQueue, s.closeMark)
  /\ s.state = "DISCONNECTING" => LateOnly(s.writeQueue, s.closeMark)

----------------------------------------------------------------------------
(* The sequences.                                                          *)

LEMMA DataTypes ==
  ASSUME NEW s, Core(s)
  PROVE  /\ s.messageToWrite \in Nat /\ s.written \in Nat
         /\ s.closeMark \in Nat /\ s.sent \in Seq(Nat)
         /\ s.writeQueue \in Seq(OutMessage)
BY CoreTypes, FieldTypes

LEMMA EmptyData ==
  ASSUME NEW a, NEW b, NEW c
  PROVE  /\ SentUpTo(<< >>, a, b) /\ QueuedFrom(<< >>, a, b)
         /\ LateBehindMark(<< >>, c) /\ LateOnly(<< >>, c)
BY DEF SentUpTo, QueuedFrom, LateBehindMark, LateOnly

LEMMA SentAppend ==
  ASSUME NEW sent \in Seq(Nat), NEW last \in Nat, SentUpTo(sent, last, TRUE)
  PROVE  SentUpTo(Append(sent, last), last, FALSE)
<1> DEFINE r == Append(sent, last)
<1>1. /\ Len(sent) \in Nat /\ DOMAIN sent = 1 .. Len(sent)
      /\ DOMAIN r = 1 .. Len(sent) + 1
      /\ \A i \in 1 .. Len(sent) : r[i] = sent[i]
      /\ r[Len(sent) + 1] = last
  OBVIOUS
<1> HIDE DEF r
<1>2. \A i \in DOMAIN r : i \in DOMAIN sent \/ i = Len(sent) + 1
  BY <1>1
<1>3. \A i \in DOMAIN sent : sent[i] < last
  BY DEF SentUpTo
<1>4. \A i \in DOMAIN r : r[i] <= last
  BY <1>1, <1>2, <1>3 DEF SentUpTo
<1>5. ASSUME NEW i \in DOMAIN r, NEW j \in DOMAIN r, i < j
      PROVE  r[i] < r[j]
  <2>1. i \in DOMAIN sent
    BY <1>1, <1>5
  <2>2. CASE j \in DOMAIN sent
    BY <1>1, <1>5, <2>1, <2>2 DEF SentUpTo
  <2>3. CASE j = Len(sent) + 1
    BY <1>1, <1>3, <2>1, <2>3
  <2> QED
    BY <1>2, <2>2, <2>3
<1>6. SentUpTo(r, last, FALSE)
  BY <1>4, <1>5 DEF SentUpTo
<1> QED
  BY <1>6 DEF r

\* The next message is handed to the stream.
LEMMA SentRaise ==
  ASSUME NEW sent \in Seq(Nat), NEW last \in Nat, NEW next \in Nat,
         NEW busy, NEW busier, SentUpTo(sent, last, busy), last < next
  PROVE  SentUpTo(sent, next, busier)
<1>1. \A i \in DOMAIN sent : sent[i] \in Nat
  OBVIOUS
<1> QED
  BY <1>1 DEF SentUpTo

LEMMA QueueTail ==
  ASSUME NEW queue \in Seq(OutMessage), queue # << >>, NEW last \in Nat,
         NEW written \in Nat, NEW mark \in Nat,
         QueuedFrom(queue, last, written), LateBehindMark(queue, mark)
  PROVE  /\ LateBehindMark(Tail(queue), mark)
         /\ ~IsText(queue[1]) => /\ LateOnly(Tail(queue), mark)
                                 /\ QueuedFrom(Tail(queue), last, written)
         /\ IsText(queue[1]) => /\ queue[1].id \in Nat
                                /\ last < queue[1].id /\ queue[1].id <= written
                                /\ QueuedFrom(Tail(queue), queue[1].id, written)
<1> DEFINE r == Tail(queue)
<1>1. /\ 1 \in DOMAIN queue /\ queue[1] \in OutMessage
      /\ \A i \in DOMAIN r : /\ i + 1 \in DOMAIN queue /\ r[i] = queue[i + 1]
                             /\ 1 < i + 1 /\ i \in Nat
  BY TailFacts
<1> HIDE DEF r
<1>2. \A i, j \in DOMAIN r : i < j => i + 1 < j + 1
  BY <1>1
<1>3. LateBehindMark(r, mark)
  BY <1>1, <1>2 DEF LateBehindMark
<1>4. ~IsText(queue[1]) => LateOnly(r, mark)
  BY <1>1 DEF LateBehindMark, LateOnly
<1>5. \A i, j \in DOMAIN r : i < j /\ IsText(r[i]) /\ IsText(r[j]) =>
        r[i].id < r[j].id
  BY <1>1, <1>2 DEF QueuedFrom
<1>6. QueuedFrom(r, last, written)
  BY <1>1, <1>5 DEF QueuedFrom
<1>7. ASSUME IsText(queue[1])
      PROVE  /\ queue[1].id \in Nat
             /\ last < queue[1].id /\ queue[1].id <= written
             /\ QueuedFrom(r, queue[1].id, written)
  <2>1. queue[1].id \in Nat
    BY <1>1 DEF OutMessage
  <2>2. last < queue[1].id /\ queue[1].id <= written
    BY <1>1, <1>7 DEF QueuedFrom
  <2>3. \A i \in DOMAIN r : IsText(r[i]) =>
          queue[1].id < r[i].id /\ r[i].id <= written
    BY <1>1, <1>7 DEF QueuedFrom
  <2> QED
    BY <1>5, <2>1, <2>2, <2>3 DEF QueuedFrom
<1> QED
  BY <1>3, <1>4, <1>6, <1>7 DEF r

LEMMA QueueAppend ==
  ASSUME NEW queue \in Seq(OutMessage), NEW last \in Nat, NEW written \in Nat,
         NEW mark \in Nat, QueuedFrom(queue, last, written),
         LateBehindMark(queue, mark), last <= written, mark <= written
  PROVE  LET r == Append(queue, TextMessage(written + 1))
         IN  /\ QueuedFrom(r, last, written + 1)
             /\ LateBehindMark(r, mark)
             /\ LateOnly(queue, mark) => LateOnly(r, mark)
<1> DEFINE m == TextMessage(written + 1)
           r == Append(queue, m)
           n == Len(queue) + 1
<1>1. m \in OutMessage /\ m.id = written + 1 /\ IsText(m)
  BY DEF TextMessage, OutMessage, IsText
<1> HIDE DEF m
<1>2. /\ DOMAIN r = DOMAIN queue \cup {n} /\ n \notin DOMAIN queue
      /\ r[n] = m /\ DOMAIN queue \subseteq Nat
      /\ \A i \in DOMAIN queue : r[i] = queue[i] /\ i < n
  BY <1>1, AppendFacts
<1>3. \A i \in DOMAIN queue : queue[i].id \in Nat
  <2>1. \A i \in DOMAIN queue : queue[i] \in OutMessage
    OBVIOUS
  <2> QED
    BY <2>1 DEF OutMessage
<1>4. n \in Nat
  OBVIOUS
<1> HIDE DEF r, n
<1>5. \A i, j \in DOMAIN r : i < j => i \in DOMAIN queue
  BY <1>2, <1>4
<1>6. \A i \in DOMAIN r : IsText(r[i]) => last < r[i].id /\ r[i].id <= written + 1
  BY <1>1, <1>2, <1>3 DEF QueuedFrom
<1>7. ASSUME NEW i \in DOMAIN r, NEW j \in DOMAIN r, i < j,
             IsText(r[i]), IsText(r[j])
      PROVE  r[i].id < r[j].id
  <2>1. i \in DOMAIN queue /\ r[i] = queue[i] /\ queue[i].id <= written
    BY <1>2, <1>5, <1>7 DEF QueuedFrom
  <2>2. CASE j = n
    BY <1>1, <1>2, <1>3, <2>1, <2>2
  <2>3. CASE j \in DOMAIN queue
    BY <1>2, <1>7, <2>1, <2>3 DEF QueuedFrom
  <2> QED
    BY <1>2, <2>2, <2>3
<1>8. LateBehindMark(r, mark)
  BY <1>1, <1>2, <1>5 DEF LateBehindMark
<1>9. LateOnly(queue, mark) => LateOnly(r, mark)
  BY <1>1, <1>2 DEF LateOnly
<1> QED
  BY <1>6, <1>7, <1>8, <1>9 DEF QueuedFrom, r, m

LEMMA MarkAppend ==
  ASSUME NEW queue \in Seq(OutMessage), NEW last, NEW written, NEW mark,
         QueuedFrom(queue, last, written),
         \A i \in DOMAIN queue : IsText(queue[i])
  PROVE  LET r == Append(queue, CloseMessage)
         IN  QueuedFrom(r, last, written) /\ LateBehindMark(r, mark)
<1> DEFINE m == CloseMessage
           r == Append(queue, m)
           n == Len(queue) + 1
<1>1. m \in OutMessage /\ ~IsText(m)
  BY DEF CloseMessage, OutMessage, IsText
<1> HIDE DEF m
<1>2. /\ DOMAIN r = DOMAIN queue \cup {n} /\ r[n] = m
      /\ \A i \in DOMAIN queue : r[i] = queue[i] /\ i < n
      /\ n \in Nat /\ DOMAIN queue \subseteq Nat
  BY <1>1, AppendFacts
<1> HIDE DEF r, n
<1>3. \A i \in DOMAIN r : IsText(r[i]) <=> i \in DOMAIN queue
  BY <1>1, <1>2
<1>4. \A i, j \in DOMAIN r : j < i => j \in DOMAIN queue
  BY <1>2
<1>5. QueuedFrom(r, last, written)
  BY <1>2, <1>3 DEF QueuedFrom
<1>6. LateBehindMark(r, mark)
  BY <1>3, <1>4 DEF LateBehindMark
<1> QED
  BY <1>5, <1>6 DEF r, m

----------------------------------------------------------------------------
(* Every step keeps Data.                                                  *)

\* At most one outgoing operation, so none other than the write in flight.
LEMMA OneOutgoing ==
  ASSUME NEW s, Core(s), NEW op1 \in Current(s), NEW op2 \in Current(s),
         op1.kind \in Outgoing, op2.kind \in Outgoing
  PROVE  op1 = op2
<1>1. op1.kind \notin Incoming /\ op2.kind \notin Incoming
  BY DEF Incoming, Outgoing, ConnectPhase
<1> QED
  BY <1>1 DEF Core, Lanes, Conflicts

LEMMA IdleWhenNotWriting ==
  ASSUME NEW s, Core(s), ~s.writing
  PROVE  ~Busy(s)
BY DEF Core, Lanes, Busy, Outgoing

LEMMA DataPump ==
  ASSUME NEW s, Core(s), Data(s), NEW t, MayPump(s, t)
  PROVE  Data(t)
<1>1. CASE t = s
  BY <1>1
<1>2. CASE PumpStep(s, t)
  <2> DEFINE q == s.writeQueue
  <2>1. /\ q \in Seq(OutMessage) /\ q # << >> /\ s.sent \in Seq(Nat)
        /\ s.messageToWrite \in Nat /\ s.written \in Nat
        /\ s.closeMark \in Nat
    BY <1>2, DataTypes DEF PumpStep
  <2>2. Head(q) = q[1]
    BY <2>1, TailFacts
  <2>3. /\ LateBehindMark(Tail(q), s.closeMark)
        /\ ~IsText(q[1]) =>
             /\ LateOnly(Tail(q), s.closeMark)
             /\ QueuedFrom(Tail(q), s.messageToWrite, s.written)
        /\ IsText(q[1]) =>
             /\ q[1].id \in Nat
             /\ s.messageToWrite < q[1].id /\ q[1].id <= s.written
             /\ QueuedFrom(Tail(q), q[1].id, s.written)
    BY <2>1, QueueTail DEF Data
  <2>4. /\ t.written = s.written /\ t.sent = s.sent
        /\ t.closeMark = s.closeMark /\ t.writeQueue = Tail(q)
    BY <1>2 DEF PumpStep
  <2>5. CASE IsText(q[1])
    <3>1. t.messageToWrite = q[1].id /\ t.state = s.state
      BY <1>2, <2>2, <2>5 DEF PumpStep, IsText
    <3>2. s.state # "DISCONNECTING"
      BY <1>2 DEF PumpStep
    <3>3. SentUpTo(t.sent, t.messageToWrite, Busy(t))
      BY <2>1, <2>3, <2>4, <2>5, <3>1, SentRaise DEF Data
    <3> QED
      BY <2>3, <2>4, <2>5, <3>1, <3>2, <3>3 DEF Data
  <2>6. CASE ~IsText(q[1])
    <3>1. /\ t.messageToWrite = s.messageToWrite
          /\ t.pending = s.pending \cup {NewOp(s, "close")}
          /\ t.generation = s.generation
      BY <1>2, <2>2, <2>6 DEF PumpStep, IsText, SameConnection
    <3>2. Busy(t) => Busy(s)
      BY <3>1, NewOpFields DEF Busy, Current
    <3>3. SentUpTo(t.sent, t.messageToWrite, Busy(t))
      BY <2>4, <3>1, <3>2 DEF Data, SentUpTo
    <3> QED
      BY <2>3, <2>4, <2>6, <3>1, <3>3 DEF Data
  <2> QED
    BY <2>5, <2>6
<1> QED
  BY <1>1, <1>2 DEF MayPump

\* A step that changes nothing of the messages, or forgets what was sent on
\* the stream before, or the queue.
LEMMA DataFrame ==
  ASSUME NEW s, Data(s), NEW t,
         t.messageToWrite = s.messageToWrite, t.written = s.written,
         t.closeMark = s.closeMark,
         t.sent = s.sent \/ t.sent = << >>,
         t.writeQueue = s.writeQueue \/ t.writeQueue = << >>,
         Busy(t) => Busy(s),
         t.state = "DISCONNECTING" => s.state = "DISCONNECTING"
  PROVE  Data(t)
<1>1. SentUpTo(t.sent, t.messageToWrite, Busy(t))
  <2>1. CASE t.sent = s.sent
    BY <2>1 DEF Data, SentUpTo
  <2>2. CASE t.sent = << >>
    BY <2>2, EmptyData
  <2> QED
    BY <2>1, <2>2
<1>2. CASE t.writeQueue = s.writeQueue
  BY <1>1, <1>2 DEF Data
<1>3. CASE t.writeQueue = << >>
  BY <1>1, <1>3, EmptyData DEF Data
<1> QED
  BY <1>2, <1>3

LEMMA DataOther ==
  ASSUME NEW s, Core(s), Data(s), NEW t, OtherStep(s, t)
  PROVE  Data(t)
<1> USE CoreTypes, NewOpFields
<1>1. CASE OpenStep(s, t)
  <2>1. ~Busy(t)
    BY <1>1 DEF OpenStep, Busy, Current
  <2> QED
    BY <1>1, <2>1, DataFrame DEF OpenStep
<1>2. CASE EndStep(s, t)
  <2>1. ~Busy(t)
    BY <1>2 DEF EndStep, Busy, Current
  <2> QED
    BY <1>2, <2>1, DataFrame DEF EndStep
<1>3. CASE StaleStep(s, t)
  <2>1. Busy(t) => Busy(s)
    BY <1>3 DEF StaleStep, Busy
  <2> QED
    BY <1>3, <2>1, DataFrame DEF StaleStep, SameData
<1>4. CASE DeliverStep(s, t)
  <2>1. Busy(t) => Busy(s)
    BY <1>4 DEF DeliverStep, SameConnection, Busy, Current
  <2> QED
    BY <1>4, <2>1, DataFrame DEF DeliverStep, SameData
<1>5. CASE ConnectStep(s, t)
  <2>1. Busy(t) => Busy(s)
    BY <1>5 DEF ConnectStep, Busy, Current, ConnectPhase
  <2> QED
    BY <1>5, <2>1, DataFrame DEF ConnectStep
<1>6. CASE ReceiveStep(s, t)
  <2>1. Busy(t) => Busy(s)
    BY <1>6 DEF ReceiveStep, SameConnection, Busy, Current
  <2> QED
    BY <1>6, <2>1, DataFrame DEF ReceiveStep, SameData
<1>7. CASE GiveUpStep(s, t)
  <2>1. Busy(t) => Busy(s)
    BY <1>7 DEF GiveUpStep, Busy, Current
  <2> QED
    BY <1>7, <2>1, DataFrame DEF GiveUpStep
<1>8. CASE AskCloseStep(s, t)
  <2>1. PICK u : Core(u) /\ RequestStep(s, u) /\ MayPump(u, t)
    BY <1>8 DEF AskCloseStep, MayPump
  <2>2. s.writeQueue \in Seq(OutMessage) /\ s.written \in Nat
    BY DataTypes
  <2>3. \A i \in DOMAIN s.writeQueue : IsText(s.writeQueue[i])
    <3>1. \A i \in DOMAIN s.writeQueue : s.writeQueue[i] \in OutMessage
      BY <2>2
    <3>2. s.state # "DISCONNECT_REQUESTED"
      BY <2>1 DEF RequestStep
    <3> QED
      BY <3>1, <3>2 DEF Core, Marks, IsText, OutMessage
  <2>4. /\ QueuedFrom(u.writeQueue, s.messageToWrite, s.written)
        /\ LateBehindMark(u.writeQueue, s.written)
    BY <2>1, <2>2, <2>3, MarkAppend DEF RequestStep, Data
  <2>5. Busy(u) = Busy(s)
    BY <2>1 DEF RequestStep, SameConnection, Busy, Current
  <2>6. Data(u)
    BY <2>1, <2>2, <2>4, <2>5 DEF RequestStep, Data
  <2> QED
    BY <2>1, <2>6, DataPump
<1>9. CASE ResumeStep(s, t)
  <2>1. PICK u : /\ Core(u) /\ MayPump(u, t)
                 /\ EstablishStep(s, u) \/ AcknowledgeStep(s, u)
    BY <1>9 DEF ResumeStep
  <2>2. CASE EstablishStep(s, u)
    <3>1. Busy(u) => Busy(s)
      BY <2>2 DEF EstablishStep, Busy, Current
    <3>2. Data(u)
      BY <2>2, <3>1, DataFrame DEF EstablishStep, SameData
    <3> QED
      BY <2>1, <3>2, DataPump
  <2>3. CASE AcknowledgeStep(s, u)
    <3>1. PICK op \in Current(s) :
            /\ op.kind = "write" /\ u.pending = s.pending \ {op}
      BY <2>3 DEF AcknowledgeStep
    <3>2. u.generation = s.generation
      BY <2>3 DEF AcknowledgeStep, SameConnection
    <3>3. Busy(s) /\ ~Busy(u)
      BY <3>1, <3>2, OneOutgoing DEF Busy, Current, Outgoing
    <3>4. s.sent \in Seq(Nat) /\ s.messageToWrite \in Nat
      BY DataTypes
    <3>5. SentUpTo(s.sent, s.messageToWrite, TRUE)
      BY <3>3 DEF Data, SentUpTo
    <3>6. SentUpTo(u.sent, u.messageToWrite, FALSE)
      BY <2>3, <3>4, <3>5, SentAppend DEF AcknowledgeStep
    <3>7. SentUpTo(u.sent, u.messageToWrite, Busy(u))
      BY <3>3, <3>6 DEF SentUpTo
    <3>8. Data(u)
      BY <2>3, <3>7 DEF AcknowledgeStep, Data
    <3> QED
      BY <2>1, <3>8, DataPump
  <2> QED
    BY <2>1, <2>2, <2>3
<1> QED
  BY <1>1, <1>2, <1>3, <1>4, <1>5, <1>6, <1>7, <1>8, <1>9 DEF OtherStep

LEMMA DataStep ==
  Core(sock) /\ Data(sock) /\ [Next]_sock => Data(sock')
<1> SUFFICES ASSUME Core(sock), Data(sock), [Next]_sock
             PROVE  Data(sock')
  OBVIOUS
<1>1. CASE WriteStep(sock, sock')
  <2>1. PICK u : Core(u) /\ QueueStep(sock, u) /\ MayPump(u, sock')
    BY <1>1 DEF WriteStep
  <2>2. /\ sock.writeQueue \in Seq(OutMessage) /\ sock.written \in Nat
        /\ sock.messageToWrite \in Nat /\ sock.closeMark \in Nat
    BY DataTypes
  <2>3. /\ QueuedFrom(u.writeQueue, sock.messageToWrite, sock.written + 1)
        /\ LateBehindMark(u.writeQueue, sock.closeMark)
        /\ LateOnly(sock.writeQueue, sock.closeMark) =>
             LateOnly(u.writeQueue, sock.closeMark)
    BY <2>1, <2>2, QueueAppend DEF QueueStep, Data
  <2>4. Busy(u) = Busy(sock)
    BY <2>1 DEF QueueStep, SameConnection, Busy, Current
  <2>5. Data(u)
    BY <2>1, <2>2, <2>3, <2>4 DEF QueueStep, Data
  <2> QED
    BY <2>1, <2>5, DataPump
<1>2. CASE ClearStep(sock, sock')
  <2>1. Busy(sock') => Busy(sock)
    BY <1>2 DEF ClearStep, SameConnection, Busy, Current
  <2> QED
    BY <1>2, <2>1, DataFrame DEF ClearStep
<1> QED
  BY <1>1, <1>2, NextStep, DataOther

LEMMA DataInvariant == Spec => []Data(sock)
<1>1. Init => Data(sock)
  BY EmptyData DEF Init, NewSocket, Data
<1>2. IInv /\ Data(sock) /\ [Next]_sock => Data(sock)'
  BY DataStep DEF IInv
<1> QED
  BY <1>1, <1>2, CoreInvariant, PTL DEF Spec

\* Messages are sent in the order of the write() calls and at most once.
THEOREM OrderedDelivery == Spec => []SentInOrder
<1>1. IInv /\ Data(sock) => SentInOrder
  <2> SUFFICES ASSUME Core(sock), Data(sock)
               PROVE  SentInOrder
    BY DEF IInv
  <2> DEFINE q == sock.writeQueue
  <2>1. /\ q \in Seq(OutMessage) /\ sock.sent \in Seq(Nat)
        /\ sock.messageToWrite \in Nat /\ sock.written \in Nat
    BY DataTypes
  <2>2. \A i \in DOMAIN q : q[i].id \in Nat
    <3>1. \A i \in DOMAIN q : q[i] \in OutMessage
      BY <2>1
    <3> QED
      BY <3>1 DEF OutMessage
  <2>3. \A i \in DOMAIN sock.sent : sock.sent[i] \in Nat
    BY <2>1
  <2>4. \A i \in DOMAIN sock.sent : /\ sock.sent[i] <= sock.messageToWrite
                                    /\ ~InFlight(sock.sent[i])
    BY <2>1, <2>3 DEF Data, SentUpTo, Busy, InFlight, Kinds
  <2>5. \A i \in DOMAIN q : q[i].type = "OUT_MESSAGE" =>
          q[i].id \in sock.messageToWrite + 1 .. sock.written
    BY <2>1, <2>2 DEF Data, QueuedFrom, IsText
  <2> QED
    BY <2>4, <2>5 DEF Data, SentUpTo, QueuedFrom, IsText, SentInOrder
<1> QED
  BY <1>1, CoreInvariant, DataInvariant, PTL

\* The closing handshake starts only after every message queued before the
\* close() has left the queue and none is in flight.
THEOREM ClosesAfterFlush == Spec => []CloseAfterFlush
<1>1. IInv /\ Data(sock) => CloseAfterFlush
  <2> SUFFICES ASSUME Core(sock), Data(sock), sock.state = "DISCONNECTING"
               PROVE  /\ "write" \notin Kinds
                      /\ \A i \in DOMAIN sock.writeQueue :
                           sock.writeQueue[i].id > sock.closeMark
    BY DEF IInv, CloseAfterFlush
  <2>1. PICK op \in Current(sock) : op.kind = "close"
    BY DEF Core, Phases
  <2>2. \A p \in Current(sock) : p.kind # "write"
    BY <2>1, OneOutgoing DEF Outgoing
  <2>3. \A i \in DOMAIN sock.writeQueue : IsText(sock.writeQueue[i])
    <3>1. sock.writeQueue \in Seq(OutMessage)
      BY DataTypes
    <3>2. \A i \in DOMAIN sock.writeQueue : sock.writeQueue[i] \in OutMessage
      BY <3>1
    <3> QED
      BY <3>2 DEF Core, Marks, IsText, OutMessage
  <2> QED
    BY <2>2, <2>3 DEF Data, LateOnly, Kinds
<1> QED
  BY <1>1, CoreInvariant, DataInvariant, PTL

----------------------------------------------------------------------------
(* No message is lost while the connection lasts.                          *)

\* Outstanding and Acknowledged of an arbitrary socket.
Open(s) == {id \in 1 .. s.written :
              \/ Busy(s) /\ id = s.messageToWrite
              \/ \E i \in DOMAIN s.writeQueue :
                   s.writeQueue[i] = TextMessage(id)}

Done(s) == {s.sent[i] : i \in DOMAIN s.sent}

Keeps(s, t) == Open(s) \subseteq Open(t) \cup Done(t)

LEMMA KeepsFrame ==
  ASSUME NEW s, NEW t, Busy(s) => Busy(t),
         t.messageToWrite = s.messageToWrite, t.written = s.written,
         t.writeQueue = s.writeQueue
  PROVE  Keeps(s, t)
BY DEF Keeps, Open

LEMMA KeepsPump ==
  ASSUME NEW s, Core(s), NEW t, MayPump(s, t)
  PROVE  Keeps(s, t) /\ Done(t) = Done(s)
<1>1. CASE t = s
  BY <1>1 DEF Keeps
<1>2. CASE PumpStep(s, t)
  <2> DEFINE q == s.writeQueue
  <2>1. /\ q \in Seq(OutMessage) /\ q # << >> /\ ~s.writing
        /\ t.written = s.written /\ t.sent = s.sent
        /\ t.generation = s.generation /\ t.writeQueue = Tail(q)
    BY <1>2, DataTypes DEF PumpStep, SameConnection
  <2>2. ~Busy(s)
    BY <2>1, IdleWhenNotWriting
  <2>3. /\ Head(q) = q[1]
        /\ \A i \in DOMAIN q : i = 1 \/ (/\ i - 1 \in DOMAIN Tail(q)
                                         /\ Tail(q)[i - 1] = q[i])
    BY <2>1
  <2>4. ASSUME NEW id \in 1 .. s.written, q[1] = TextMessage(id)
        PROVE  id \in Open(t)
    <3>1. q[1].type = "OUT_MESSAGE" /\ q[1].id = id
      BY <2>4 DEF TextMessage
    <3>2. /\ t.messageToWrite = id
          /\ t.pending = s.pending \cup {NewOp(s, "write")}
      BY <1>2, <2>3, <3>1 DEF PumpStep
    <3>3. Busy(t)
      BY <2>1, <3>2, NewOpFields DEF Busy, Current
    <3> QED
      BY <2>1, <3>2, <3>3 DEF Open
  <2>5. ASSUME NEW id \in Open(s)
        PROVE  id \in Open(t)
    <3>1. PICK i \in DOMAIN q : q[i] = TextMessage(id)
      BY <2>2 DEF Open
    <3>2. id \in 1 .. s.written
      BY DEF Open
    <3>3. CASE i = 1
      BY <2>4, <3>1, <3>2, <3>3
    <3>4. CASE i # 1
      <4>1. i - 1 \in DOMAIN t.writeQueue /\ t.writeQueue[i - 1] = TextMessage(id)
        BY <2>1, <2>3, <3>1, <3>4
      <4> QED
        BY <2>1, <3>2, <4>1 DEF Open
    <3> QED
      BY <3>3, <3>4
  <2> QED
    BY <2>1, <2>5 DEF Keeps, Done
<1> QED
  BY <1>1, <1>2 DEF MayPump

LEMMA KeepsAcknowledge ==
  ASSUME NEW s, Core(s), NEW t, AcknowledgeStep(s, t)
  PROVE  Keeps(s, t)
<1>1. /\ s.sent \in Seq(Nat) /\ s.messageToWrite \in Nat
      /\ t.sent = Append(s.sent, s.messageToWrite)
      /\ t.written = s.written /\ t.writeQueue = s.writeQueue
  BY DataTypes DEF AcknowledgeStep
<1>2. /\ Len(s.sent) + 1 \in DOMAIN t.sent
      /\ t.sent[Len(s.sent) + 1] = s.messageToWrite
  BY <1>1
<1>3. s.messageToWrite \in Done(t)
  BY <1>2 DEF Done
<1> QED
  BY <1>1, <1>3 DEF Keeps, Open

LEMMA KeepsAppend ==
  ASSUME NEW s, Core(s), NEW t, NEW m \in OutMessage, Busy(s) => Busy(t),
         t.messageToWrite = s.messageToWrite, t.written \in Nat,
         s.written <= t.written, t.writeQueue = Append(s.writeQueue, m)
  PROVE  Keeps(s, t)
<1>1. s.writeQueue \in Seq(OutMessage) /\ s.written \in Nat
  BY DataTypes
<1>2. \A i \in DOMAIN s.writeQueue :
        i \in DOMAIN t.writeQueue /\ t.writeQueue[i] = s.writeQueue[i]
  BY <1>1, AppendFacts
<1>3. 1 .. s.written \subseteq 1 .. t.written
  BY <1>1
<1> QED
  BY <1>2, <1>3 DEF Keeps, Open

LEMMA KeepsOther ==
  ASSUME NEW s, Core(s), NEW t, OtherStep(s, t),
         t.generation = s.generation
  PROVE  Keeps(s, t)
<1>1. s.generation \in Nat
  BY CoreTypes
<1>2. ~OpenStep(s, t) /\ ~EndStep(s, t)
  BY <1>1 DEF OpenStep, EndStep
<1>3. CASE StaleStep(s, t)
  BY <1>3, KeepsFrame DEF StaleStep, SameData, Busy
<1>4. CASE DeliverStep(s, t)
  <2>1. Busy(s) => Busy(t)
    BY <1>4 DEF DeliverStep, SameConnection, Busy, Current
  <2> QED
    BY <1>4, <2>1, KeepsFrame DEF DeliverStep, SameData
<1>5. CASE ConnectStep(s, t)
  <2>1. Busy(s) => Busy(t)
    BY <1>5 DEF ConnectStep, Busy, Current, ConnectPhase
  <2> QED
    BY <1>5, <2>1, KeepsFrame DEF ConnectStep
<1>6. CASE ReceiveStep(s, t)
  <2>1. Busy(s) => Busy(t)
    BY <1>6 DEF ReceiveStep, SameConnection, Busy, Current
  <2> QED
    BY <1>6, <2>1, KeepsFrame DEF ReceiveStep, SameData
<1>7. CASE GiveUpStep(s, t)
  <2>1. Busy(s) => Busy(t)
    BY <1>7 DEF GiveUpStep, Busy, Current, Incoming, ConnectPhase
  <2> QED
    BY <1>7, <2>1, KeepsFrame DEF GiveUpStep
<1>8. CASE AskCloseStep(s, t)
  <2>1. PICK u : Core(u) /\ RequestStep(s, u) /\ MayPump(u, t)
    BY <1>8 DEF AskCloseStep, MayPump
  <2>2. CloseMessage \in OutMessage
    BY DEF CloseMessage, OutMessage
  <2>3. Busy(s) => Busy(u)
    BY <2>1 DEF RequestStep, SameConnection, Busy, Current
  <2>4. u.written \in Nat
    BY <2>1, DataTypes
  <2>5. /\ u.messageToWrite = s.messageToWrite /\ s.written <= u.written
        /\ u.writeQueue = Append(s.writeQueue, CloseMessage)
    BY <2>1, <2>4 DEF RequestStep
  <2>6. Keeps(s, u)
    BY <2>2, <2>3, <2>4, <2>5, KeepsAppend
  <2> QED
    BY <2>1, <2>6, KeepsPump DEF Keeps
<1>9. CASE ResumeStep(s, t)
  <2>1. PICK u : /\ Core(u) /\ MayPump(u, t)
                 /\ EstablishStep(s, u) \/ AcknowledgeStep(s, u)
    BY <1>9 DEF ResumeStep
  <2>2. CASE EstablishStep(s, u)
    <3>1. Busy(s) => Busy(u)
      BY <2>2 DEF EstablishStep, Busy, Current
    <3>2. Keeps(s, u)
      BY <2>2, <3>1, KeepsFrame DEF EstablishStep, SameData
    <3> QED
      BY <2>1, <3>2, KeepsPump DEF Keeps
  <2>3. CASE AcknowledgeStep(s, u)
    BY <2>1, <2>3, KeepsAcknowledge, KeepsPump DEF Keeps
  <2> QED
    BY <2>1, <2>2, <2>3
<1> QED
  BY <1>2, <1>3, <1>4, <1>5, <1>6, <1>7, <1>8, <1>9 DEF OtherStep

LEMMA KeepsStep ==
  Core(sock) /\ [Next]_sock =>
    (sock'.generation = sock.generation =>
       Keeps(sock, sock') \/ socketClearQueue)
<1> SUFFICES ASSUME Core(sock), [Next]_sock,
                    sock'.generation = sock.generation
             PROVE  Keeps(sock, sock') \/ socketClearQueue
  OBVIOUS
<1>1. CASE WriteStep(sock, sock')
  <2>1. PICK u : Core(u) /\ QueueStep(sock, u) /\ MayPump(u, sock')
    BY <1>1 DEF WriteStep
  <2>2. sock.written \in Nat /\ u.written \in Nat
    BY <2>1, DataTypes
  <2>3. TextMessage(u.written) \in OutMessage
    BY <2>2 DEF TextMessage, OutMessage
  <2>4. Busy(sock) => Busy(u)
    BY <2>1 DEF QueueStep, SameConnection, Busy, Current
  <2>5. /\ u.messageToWrite = sock.messageToWrite
        /\ sock.written <= u.written
        /\ u.writeQueue = Append(sock.writeQueue, TextMessage(u.written))
    BY <2>1, <2>2 DEF QueueStep
  <2>6. Keeps(sock, u)
    BY <2>2, <2>3, <2>4, <2>5, KeepsAppend
  <2> QED
    BY <2>1, <2>6, KeepsPump DEF Keeps
<1> QED
  BY <1>1, NextStep, KeepsOther

\* While the connection lasts a step loses no message, unless the script
\* clears the queue.
THEOREM NoMessageLost == Spec => NothingLost
<1>1. Outstanding = Open(sock) /\ Acknowledged = Done(sock)
  BY DEF Outstanding, Acknowledged, Open, Done, InFlight, Kinds, Busy,
         TextMessage
<1>2. Outstanding' = Open(sock') /\ Acknowledged' = Done(sock')
  BY DEF Outstanding, Acknowledged, Open, Done, InFlight, Kinds, Busy,
         TextMessage, Current
<1>3. IInv /\ [Next]_sock =>
        [sock'.generation = sock.generation =>
           \/ Outstanding \subseteq Outstanding' \cup Acknowledged'
           \/ socketClearQueue]_sock
  BY <1>1, <1>2, KeepsStep DEF IInv, Keeps
<1> QED
  BY <1>3, CoreInvariant, PTL DEF Spec, NothingLost

=============================================================================
