--------------------------- MODULE GWSocketProofs ---------------------------
(***************************************************************************)
(* Proofs about the operations, the state and the marks of GWSocket, for   *)
(* every kind of socket, every set of calls and outcomes and every bound.  *)
(* The inductive invariant is Core of GWSocketOpsProofs.                   *)
(***************************************************************************)
EXTENDS GWSocket, GWSocketStepProofs

\* The inductive invariant of the specification.
IInv == Core(sock)

LEMMA InitCore == Init => Core(sock)
BY NewSocketCore, ConstantsAssumption DEF Init

LEMMA LuaCallCore == Core(sock) /\ LuaCall => Core(sock')
<1> SUFFICES ASSUME Core(sock), LuaCall
             PROVE  Core(sock')
  OBVIOUS
<1>1. CASE socketOpen
  BY <1>1, OpenCore DEF socketOpen
<1>2. CASE socketClose
  BY <1>2, CloseCore DEF socketClose
<1>3. CASE socketCloseNow
  BY <1>3, CloseNowCore DEF socketCloseNow, Core
<1>4. CASE socketWrite
  BY <1>4, WriteCore DEF socketWrite
<1>5. CASE socketClearQueue
  BY <1>5, ClearQueueCore DEF socketClearQueue
<1> QED
  BY <1>1, <1>2, <1>3, <1>4, <1>5 DEF LuaCall

LEMMA CompletionCore == Core(sock) /\ Completion => Core(sock')
<1> SUFFICES ASSUME Core(sock), Completion
             PROVE  Core(sock')
  OBVIOUS
<1>1. CASE HostResolved
  <2>1. PICK op \in Running("resolve"), ec \in Outcomes,
             tlsParams \in Outcomes :
          LET s == Completed(sock, op)
          IN  sock' = guardGeneration(s, op, hostResolvedStep(s, ec, tlsParams))
    BY <1>1 DEF HostResolved, Result
  <2>2. op \in sock.pending /\ op.kind = "resolve" /\ op.kind \in Incoming
    BY DEF Running, Incoming, ConnectPhase
  <2> QED
    BY <2>1, <2>2, GuardedIncoming, HostResolvedStepCore
<1>2. CASE SocketConnected
  <2>1. PICK op \in Running("connect"), ec \in Outcomes :
          LET s == Completed(sock, op)
          IN  sock' = guardGeneration(s, op, socketConnected(s, ec))
    BY <1>2 DEF SocketConnected, Result
  <2>2. op \in sock.pending /\ op.kind = "connect" /\ op.kind \in Incoming
    BY DEF Running, Incoming, ConnectPhase
  <2> QED
    BY <2>1, <2>2, GuardedIncoming, SocketConnectedCore
<1>3. CASE SSLHandshakeComplete
  <2>1. PICK op \in Running("ssl_handshake"), ec \in Outcomes :
          LET s == Completed(sock, op)
          IN  sock' = guardGeneration(s, op, sslHandshakeComplete(s, ec))
    BY <1>3 DEF SSLHandshakeComplete, Result
  <2>2. /\ op \in sock.pending /\ op.kind = "ssl_handshake"
        /\ op.kind \in Incoming
    BY DEF Running, Incoming, ConnectPhase
  <2> QED
    BY <2>1, <2>2, GuardedIncoming, SSLHandshakeCompleteCore
<1>4. CASE VerifyCertificate
  <2>1. sock' = verifyCertificate(sock, "X509_V_ERR_CERT_HAS_EXPIRED")
    BY <1>4 DEF VerifyCertificate
  <2>2. Core(errorConnection(sock))
    BY CloseNowCore DEF Core
  <2> QED
    BY <2>1, <2>2 DEF verifyCertificate
<1>5. CASE HandshakeCompleted
  <2>1. PICK op \in Running("handshake"), ec \in Outcomes :
          LET s == Completed(sock, op)
          IN  sock' = guardGeneration(s, op, handshakeCompleted(s, ec))
    BY <1>5 DEF HandshakeCompleted, Result
  <2>2. op \in sock.pending /\ op.kind = "handshake" /\ op.kind \in Incoming
    BY DEF Running, Incoming, ConnectPhase
  <2> QED
    BY <2>1, <2>2, GuardedIncoming, HandshakeCompletedCore
<1>6. CASE PartialRead
  <2>1. PICK op \in sock.pending : sock' = partialRead(sock, op)
    BY <1>6 DEF PartialRead, Running
  <2> DEFINE b == sock.readBuffer \cup {op.gen}
  <2>2. sock \in Socket /\ b \in SUBSET Nat
    BY FieldTypes DEF Core, Closable, Op
  <2> HIDE DEF b
  <2>3. LET t == [sock EXCEPT !.readBuffer = b]
        IN  t \in Socket /\ SameControl(sock, t) /\ SameData(sock, t)
    BY <2>2 DEF Socket, SameControl, SameData
  <2>4. sock' \in Socket /\ SameControl(sock, sock') /\ SameData(sock, sock')
    BY <2>1, <2>3 DEF partialRead, b
  <2> QED
    BY <2>4, FrameControl DEF Core, SameData
<1>7. CASE OnRead
  <2>1. PICK op \in Running("read"), ec \in ErrorCode :
          LET s == Completed(sock, op)
          IN  sock' = guardGeneration(s, op, onRead(s, ec))
    BY <1>7 DEF OnRead, Result
  <2>2. op \in sock.pending /\ op.kind = "read" /\ op.kind \in Incoming
    BY DEF Running, Incoming
  <2> QED
    BY <2>1, <2>2, GuardedIncoming, OnReadCore
<1>8. CASE OnWrite
  <2>1. PICK op \in Running("write"), ec \in ErrorCode :
          LET s == Completed(sock, op)
          IN  sock' = guardGeneration(s, op, onWrite(s, ec))
    BY <1>8 DEF OnWrite, Result
  <2>2. op \in sock.pending /\ op.kind = "write"
    BY DEF Running
  <2>3. Completed(sock, op).generation = sock.generation
    BY CompletedEffect DEF Core, Closable
  <2>4. op.gen = sock.generation => Core(onWrite(Completed(sock, op), ec))
    BY <2>2, OnWriteCore DEF Current
  <2> QED
    BY <2>1, <2>3, <2>4, StaleCompletion DEF guardGeneration
<1>9. CASE OnDisconnected
  <2>1. PICK op \in sock.pending :
          LET s == Completed(sock, op)
          IN  sock' = guardGeneration(s, op, onDisconnected(s))
    BY <1>9 DEF OnDisconnected, Running
  <2>2. Completed(sock, op).generation = sock.generation
    BY CompletedEffect DEF Core, Closable
  <2>3. Core(onDisconnected(Completed(sock, op)))
    BY CompletedClosable, DoCloseCore DEF Core, onDisconnected
  <2> QED
    BY <2>1, <2>2, <2>3, StaleCompletion DEF guardGeneration
<1> QED
  BY <1>1, <1>2, <1>3, <1>4, <1>5, <1>6, <1>7, <1>8, <1>9 DEF Completion

LEMMA DrainCore == Core(sock) /\ Drain => Core(sock')
<1> SUFFICES ASSUME Core(sock), Drain
             PROVE  Core(sock')
  OBVIOUS
<1> DEFINE q == << >>
<1>1. sock \in Socket /\ q \in Seq(InMessage)
  BY DEF Core, Closable
<1>2. sock' = [sock EXCEPT !.messageQueue = q]
  BY DEF Drain
<1> HIDE DEF q
<1>3. sock' \in Socket /\ SameControl(sock, sock') /\ SameData(sock, sock')
  BY <1>1, <1>2 DEF Socket, SameControl, SameData
<1> QED
  BY <1>3, FrameControl DEF Core, SameData

\* The control invariant holds in every reachable state: whatever the script
\* calls and however Asio orders and fails the operations.
THEOREM CoreInvariant == Spec => []IInv
<1>1. Init => IInv
  BY InitCore DEF IInv
<1>2. IInv /\ [Next]_sock => IInv'
  <2> SUFFICES ASSUME Core(sock), [Next]_sock
               PROVE  Core(sock')
    BY DEF IInv
  <2>1. CASE UNCHANGED sock
    BY <2>1
  <2> QED
    BY <2>1, LuaCallCore, CompletionCore, DrainCore DEF Next
<1> QED
  BY <1>1, <1>2, PTL DEF Spec

\* Every field of the socket keeps its type.
THEOREM TypeCorrect == Spec => []TypeOK
<1>1. IInv => TypeOK
  BY DEF IInv, Core, Closable, TypeOK
<1> QED
  BY <1>1, CoreInvariant, PTL

\* `writing` is the truth about the outgoing operation in flight.
THEOREM WritingCorrect == Spec => []WritingMatchesOps
<1>1. IInv => WritingMatchesOps
  BY DEF IInv, Core, Lanes, WritingMatchesOps, Kinds
<1> QED
  BY <1>1, CoreInvariant, PTL

\* The contract of the Beast stream is kept: no two conflicting operations.
THEOREM OneOperationPerDirection == Spec => []NoOverlap
<1>1. IInv => NoOverlap
  BY DEF IInv, Core, Closable, Lanes, NoOverlap
<1> QED
  BY <1>1, CoreInvariant, PTL

\* A disconnected socket has nothing in flight and holds no descriptor.
THEOREM DisconnectedIsClean == Spec => []ClosedIsClean
<1>1. IInv => ClosedIsClean
  BY DEF IInv, Core, Lanes, Alive, ClosedIsClean
<1> QED
  BY <1>1, CoreInvariant, PTL

\* A socket that is not disconnected always has an operation in flight whose
\* handler will run.
THEOREM NoOrphan == Spec => []NeverOrphaned
<1>1. IInv => NeverOrphaned
  BY DEF IInv, Core, Alive, Phases, NeverOrphaned, Kinds, Requested
<1> QED
  BY <1>1, CoreInvariant, PTL

\* OUT_DISCONNECT is queued at most once, and only while a close() waits.
THEOREM MarkCorrect == Spec => []MarkOnlyWhileRequested
<1>1. IInv => MarkOnlyWhileRequested
  BY DEF IInv, Core, Marks, MarkOnlyWhileRequested, Requested
<1> QED
  BY <1>1, CoreInvariant, PTL

----------------------------------------------------------------------------
(* Every step of the specification is one of those of GWSocketStepProofs.  *)

LEMMA CompletionStep == Core(sock) /\ Completion => OtherStep(sock, sock')
<1> SUFFICES ASSUME Core(sock), Completion
             PROVE  OtherStep(sock, sock')
  OBVIOUS
<1>1. CASE HostResolved
  <2>1. PICK op \in Running("resolve"), ec \in Outcomes,
             tlsParams \in Outcomes :
          LET s == Completed(sock, op)
          IN  sock' = guardGeneration(s, op, hostResolvedStep(s, ec, tlsParams))
    BY <1>1 DEF HostResolved, Result
  <2>2. op \in sock.pending /\ op.kind = "resolve"
    BY DEF Running
  <2> QED
    BY <2>1, <2>2, GuardedStep, HostResolvedStepStep
<1>2. CASE SocketConnected
  <2>1. PICK op \in Running("connect"), ec \in Outcomes :
          LET s == Completed(sock, op)
          IN  sock' = guardGeneration(s, op, socketConnected(s, ec))
    BY <1>2 DEF SocketConnected, Result
  <2>2. op \in sock.pending /\ op.kind = "connect"
    BY DEF Running
  <2> QED
    BY <2>1, <2>2, GuardedStep, SocketConnectedStep
<1>3. CASE SSLHandshakeComplete
  <2>1. PICK op \in Running("ssl_handshake"), ec \in Outcomes :
          LET s == Completed(sock, op)
          IN  sock' = guardGeneration(s, op, sslHandshakeComplete(s, ec))
    BY <1>3 DEF SSLHandshakeComplete, Result
  <2>2. op \in sock.pending /\ op.kind = "ssl_handshake"
    BY DEF Running
  <2> QED
    BY <2>1, <2>2, GuardedStep, SSLHandshakeCompleteStep
<1>4. CASE VerifyCertificate
  <2>1. sock' = verifyCertificate(sock, "X509_V_ERR_CERT_HAS_EXPIRED")
    BY <1>4 DEF VerifyCertificate
  <2> QED
    BY <2>1, CloseNowCallStep DEF verifyCertificate
<1>5. CASE HandshakeCompleted
  <2>1. PICK op \in Running("handshake"), ec \in Outcomes :
          LET s == Completed(sock, op)
          IN  sock' = guardGeneration(s, op, handshakeCompleted(s, ec))
    BY <1>5 DEF HandshakeCompleted, Result
  <2>2. op \in sock.pending /\ op.kind = "handshake"
    BY DEF Running
  <2> QED
    BY <2>1, <2>2, GuardedStep, HandshakeCompletedStep
<1>6. CASE PartialRead
  <2>1. PICK op \in sock.pending : sock' = partialRead(sock, op)
    BY <1>6 DEF PartialRead, Running
  <2> QED
    BY <2>1, PartialReadStep DEF OtherStep
<1>7. CASE OnRead
  <2>1. PICK op \in Running("read"), ec \in ErrorCode :
          LET s == Completed(sock, op)
          IN  sock' = guardGeneration(s, op, onRead(s, ec))
    BY <1>7 DEF OnRead, Result
  <2>2. op \in sock.pending /\ op.kind = "read"
    BY DEF Running
  <2> QED
    BY <2>1, <2>2, GuardedStep, OnReadStep
<1>8. CASE OnWrite
  <2>1. PICK op \in Running("write"), ec \in ErrorCode :
          LET s == Completed(sock, op)
          IN  sock' = guardGeneration(s, op, onWrite(s, ec))
    BY <1>8 DEF OnWrite, Result
  <2>2. op \in sock.pending /\ op.kind = "write"
    BY DEF Running
  <2> QED
    BY <2>1, <2>2, GuardedStep, OnWriteStep
<1>9. CASE OnDisconnected
  <2>1. PICK op \in sock.pending :
          LET s == Completed(sock, op)
          IN  sock' = guardGeneration(s, op, onDisconnected(s))
    BY <1>9 DEF OnDisconnected, Running
  <2> QED
    BY <2>1, GuardedStep, OnDisconnectedStep
<1> QED
  BY <1>1, <1>2, <1>3, <1>4, <1>5, <1>6, <1>7, <1>8, <1>9 DEF Completion

LEMMA NextStep ==
  Core(sock) /\ [Next]_sock =>
    \/ socketWrite /\ WriteStep(sock, sock')
    \/ socketClearQueue /\ ClearStep(sock, sock')
    \/ OtherStep(sock, sock')
<1> SUFFICES ASSUME Core(sock), [Next]_sock
             PROVE  \/ socketWrite /\ WriteStep(sock, sock')
                    \/ socketClearQueue /\ ClearStep(sock, sock')
                    \/ OtherStep(sock, sock')
  OBVIOUS
<1>1. CASE socketOpen
  BY <1>1, OpenCallStep DEF socketOpen
<1>2. CASE socketClose
  BY <1>2, CloseCallStep DEF socketClose
<1>3. CASE socketCloseNow
  BY <1>3, CloseNowCallStep DEF socketCloseNow
<1>4. CASE socketWrite
  BY <1>4, WriteCallStep DEF socketWrite
<1>5. CASE socketClearQueue
  BY <1>5, ClearQueueCallStep DEF socketClearQueue
<1>6. CASE Completion
  BY <1>6, CompletionStep
<1>7. CASE Drain
  BY <1>7, DeliverCallStep DEF Drain, OtherStep
<1>8. CASE UNCHANGED sock
  <2>1. StaleStep(sock, sock')
    BY <1>8 DEF StaleStep, SameConnection, SameData
  <2> QED
    BY <2>1 DEF OtherStep
<1> QED
  BY <1>1, <1>2, <1>3, <1>4, <1>5, <1>6, <1>7, <1>8 DEF Next, LuaCall

----------------------------------------------------------------------------
(* Streams: which connection the stream of an operation belongs to.        *)

\* A stream is no younger than the operation that runs on it, and from
\* asyncConnect() on an attempt works on a stream of its own.
Streams(s) ==
  /\ s.stream <= s.generation
  /\ \A op \in s.pending : op.stream <= op.gen
  /\ \A op \in Current(s) :
       op.kind \in Incoming \ {"resolve"} => s.stream = s.generation
  /\ s.established => s.stream = s.generation

LEMMA CoreTypes ==
  ASSUME NEW s, Core(s)
  PROVE  /\ s \in Socket
         /\ s.generation \in Nat /\ s.stream \in Nat
         /\ \A op \in s.pending : /\ op \in Op /\ op.kind \in OpKind
                                  /\ op.gen \in Nat /\ op.stream \in Nat
                                  /\ op.gen <= s.generation
<1>1. s \in Socket
  BY DEF Core, Closable
<1>2. s.generation \in Nat /\ s.stream \in Nat /\ s.pending \in SUBSET Op
  BY <1>1, FieldTypes
<1> QED
  BY <1>1, <1>2 DEF Core, Closable, Op

LEMMA NewOpFields ==
  ASSUME NEW s, NEW kind
  PROVE  LET op == NewOp(s, kind)
         IN  op.kind = kind /\ op.gen = s.generation /\ op.stream = s.stream
BY DEF NewOp

LEMMA StreamsPump ==
  ASSUME NEW s, Core(s), Streams(s), NEW t, MayPump(s, t)
  PROVE  Streams(t)
<1>1. CASE t = s
  BY <1>1
<1>2. CASE PumpStep(s, t)
  <2>1. PICK kind \in Outgoing : t.pending = s.pending \cup {NewOp(s, kind)}
    BY <1>2 DEF PumpStep, Outgoing
  <2>2. SameConnection(s, t)
    BY <1>2 DEF PumpStep
  <2>3. kind \notin Incoming
    BY DEF Incoming, Outgoing, ConnectPhase
  <2> QED
    BY <2>1, <2>2, <2>3, CoreTypes, NewOpFields
    DEF Streams, Current, SameConnection
<1> QED
  BY <1>1, <1>2 DEF MayPump

LEMMA StreamsOther ==
  ASSUME NEW s, Core(s), Streams(s), NEW t, OtherStep(s, t)
  PROVE  Streams(t)
<1> USE CoreTypes, NewOpFields
<1>1. CASE OpenStep(s, t)
  <2>1. ~s.established
    BY <1>1 DEF OpenStep, Core, Alive
  <2>2. Current(t) = {NewOp(t, "resolve")}
    BY <1>1 DEF OpenStep, Current
  <2> QED
    BY <1>1, <2>1, <2>2 DEF OpenStep, Streams
<1>2. CASE EndStep(s, t)
  <2>1. Current(t) = {}
    BY <1>2 DEF EndStep, Current
  <2> QED
    BY <1>2, <2>1 DEF EndStep, Streams
<1>3. CASE StaleStep(s, t)
  BY <1>3 DEF StaleStep, Streams, SameConnection
<1>4. CASE DeliverStep(s, t)
  BY <1>4 DEF DeliverStep, Streams, SameConnection, Current
<1>5. CASE ConnectStep(s, t)
  <2>1. PICK op \in Current(s), kind \in ConnectPhase \ {"resolve"} :
          /\ op.kind \in ConnectPhase
          /\ t.generation = s.generation /\ t.established = s.established
          /\ t.pending = (s.pending \ {op}) \cup {NewOp(t, kind)}
          /\ IF op.kind = "resolve" THEN t.stream = s.generation
                                    ELSE t.stream = s.stream
    BY <1>5 DEF ConnectStep
  <2>2. t.stream = s.generation
    BY <2>1 DEF Streams, Incoming
  <2> QED
    BY <2>1, <2>2 DEF Streams, Current
<1>6. CASE ReceiveStep(s, t)
  BY <1>6 DEF ReceiveStep, Streams, SameConnection, Current
<1>7. CASE GiveUpStep(s, t)
  BY <1>7 DEF GiveUpStep, Streams, Current
<1>8. CASE AskCloseStep(s, t)
  <2>1. PICK u : Core(u) /\ RequestStep(s, u) /\ MayPump(u, t)
    BY <1>8 DEF AskCloseStep, MayPump
  <2>2. Streams(u)
    BY <2>1 DEF RequestStep, Streams, SameConnection, Current
  <2> QED
    BY <2>1, <2>2, StreamsPump
<1>9. CASE ResumeStep(s, t)
  <2>1. PICK u : /\ Core(u) /\ MayPump(u, t)
                 /\ EstablishStep(s, u) \/ AcknowledgeStep(s, u)
    BY <1>9 DEF ResumeStep
  <2>2. CASE EstablishStep(s, u)
    <3>1. PICK op \in Current(s) :
            /\ op.kind = "handshake"
            /\ u.generation = s.generation /\ u.stream = s.stream
            /\ u.pending = (s.pending \ {op}) \cup {NewOp(s, "read")}
      BY <2>2 DEF EstablishStep
    <3>2. s.stream = s.generation
      BY <3>1 DEF Streams, Incoming, ConnectPhase
    <3>3. Streams(u)
      BY <3>1, <3>2 DEF Streams, Current
    <3> QED
      BY <2>1, <3>3, StreamsPump
  <2>3. CASE AcknowledgeStep(s, u)
    <3>1. Streams(u)
      BY <2>3 DEF AcknowledgeStep, Streams, SameConnection, Current
    <3> QED
      BY <2>1, <3>1, StreamsPump
  <2> QED
    BY <2>1, <2>2, <2>3
<1> QED
  BY <1>1, <1>2, <1>3, <1>4, <1>5, <1>6, <1>7, <1>8, <1>9 DEF OtherStep

LEMMA StreamsStep ==
  Core(sock) /\ Streams(sock) /\ [Next]_sock => Streams(sock')
<1> SUFFICES ASSUME Core(sock), Streams(sock), [Next]_sock
             PROVE  Streams(sock')
  OBVIOUS
<1>1. CASE WriteStep(sock, sock')
  <2>1. PICK u : Core(u) /\ QueueStep(sock, u) /\ MayPump(u, sock')
    BY <1>1 DEF WriteStep
  <2>2. Streams(u)
    BY <2>1 DEF QueueStep, Streams, SameConnection, Current
  <2> QED
    BY <2>1, <2>2, StreamsPump
<1>2. CASE ClearStep(sock, sock')
  BY <1>2 DEF ClearStep, Streams, SameConnection, Current
<1>3. CASE OtherStep(sock, sock')
  BY <1>3, StreamsOther
<1> QED
  BY <1>1, <1>2, <1>3, NextStep

LEMMA InitStreams == Init => Streams(sock)
BY DEF Init, NewSocket, Streams, Current

\* Every stream belongs to one attempt, whatever was left running.
LEMMA StreamsInvariant == Spec => []Streams(sock)
<1>1. IInv /\ Streams(sock) /\ [Next]_sock => Streams(sock)'
  BY StreamsStep DEF IInv
<1> QED
  BY <1>1, InitStreams, CoreInvariant, PTL DEF Spec

\* Operations that an earlier attempt left running do not touch the stream of
\* an established connection.
THEOREM StreamIsolated == Spec => []EstablishedIsIsolated
<1>1. IInv /\ Streams(sock) => EstablishedIsIsolated
  <2> SUFFICES ASSUME Core(sock), Streams(sock), sock.established,
                      NEW op \in sock.pending, op.stream = sock.stream
               PROVE  op.gen = sock.generation
    BY DEF IInv, EstablishedIsIsolated
  <2> QED
    BY CoreTypes DEF Streams
<1> QED
  BY <1>1, CoreInvariant, StreamsInvariant, PTL

----------------------------------------------------------------------------
(* A script that does not write between close() and the closing handshake  *)
(* never has a message handed to a stream that is not connected.           *)

Waiting(s) ==
  /\ ~s.crashed
  /\ \A op \in Current(s) : op.kind \in Outgoing => s.established

\* An established connection has a stream.
LEMMA StreamExists ==
  ASSUME NEW s, Core(s), Streams(s), s.established
  PROVE  s.stream # 0
<1>1. s.state # "DISCONNECTED"
  BY DEF Core, Alive
<1>2. s.generation > 0
  BY <1>1 DEF Core, Phases
<1> QED
  BY <1>2, CoreTypes DEF Streams

LEMMA WaitingPump ==
  ASSUME NEW s, Core(s), Streams(s), Waiting(s), NEW t, PumpStep(s, t),
         s.established
  PROVE  Waiting(t)
<1>1. ~t.crashed
  BY StreamExists DEF PumpStep, Waiting
<1>2. t.established
  BY DEF PumpStep, SameConnection
<1> QED
  BY <1>1, <1>2 DEF Waiting

LEMMA WaitingOther ==
  ASSUME NEW s, Core(s), Streams(s), Waiting(s), NEW t, OtherStep(s, t)
  PROVE  Waiting(t)
<1> USE CoreTypes, NewOpFields
<1>1. CASE OpenStep(s, t)
  <2>1. Current(t) = {NewOp(t, "resolve")}
    BY <1>1 DEF OpenStep, Current
  <2> QED
    BY <1>1, <2>1 DEF OpenStep, Waiting, Outgoing
<1>2. CASE EndStep(s, t)
  <2>1. Current(t) = {}
    BY <1>2 DEF EndStep, Current
  <2> QED
    BY <1>2, <2>1 DEF EndStep, Waiting
<1>3. CASE StaleStep(s, t)
  BY <1>3 DEF StaleStep, Waiting, SameConnection
<1>4. CASE DeliverStep(s, t)
  BY <1>4 DEF DeliverStep, Waiting, SameConnection, Current
<1>5. CASE ConnectStep(s, t)
  <2>1. PICK op \in Current(s), kind \in ConnectPhase \ {"resolve"} :
          /\ op.kind \in ConnectPhase
          /\ t.generation = s.generation /\ t.established = s.established
          /\ t.pending = (s.pending \ {op}) \cup {NewOp(t, kind)}
          /\ IF op.kind = "resolve" THEN t.stream = s.generation
                                    ELSE t.stream = s.stream
          /\ t.crashed = (s.crashed \/ t.stream = 0)
    BY <1>5 DEF ConnectStep
  <2>2. t.stream = s.generation
    BY <2>1 DEF Streams, Incoming
  <2>3. s.generation # 0
    BY DEF Core, Alive, Phases
  <2>4. kind \notin Outgoing
    BY DEF Outgoing, ConnectPhase
  <2>5. ~t.crashed
    BY <2>1, <2>2, <2>3 DEF Waiting
  <2>6. Current(t) \subseteq Current(s) \cup {NewOp(t, kind)}
    BY <2>1 DEF Current
  <2>7. \A p \in Current(t) : p.kind \in Outgoing => t.established
    BY <2>1, <2>4, <2>6 DEF Waiting
  <2> QED
    BY <2>5, <2>7 DEF Waiting
<1>6. CASE ReceiveStep(s, t)
  BY <1>6, StreamExists DEF ReceiveStep, Waiting, SameConnection
<1>7. CASE GiveUpStep(s, t)
  BY <1>7 DEF GiveUpStep, Waiting, Current
<1>8. CASE AskCloseStep(s, t)
  <2>1. PICK u : /\ Core(u) /\ RequestStep(s, u)
                 /\ t = u \/ (s.state = "CONNECTED" /\ PumpStep(u, t))
    BY <1>8 DEF AskCloseStep
  <2>2. Streams(u) /\ Waiting(u)
    BY <2>1 DEF RequestStep, Streams, Waiting, SameConnection, Current
  <2>3. s.state = "CONNECTED" => u.established
    BY <2>1 DEF RequestStep, SameConnection, Core, Phases
  <2> QED
    BY <2>1, <2>2, <2>3, WaitingPump
<1>9. CASE ResumeStep(s, t)
  <2>1. PICK u : /\ Core(u) /\ MayPump(u, t)
                 /\ EstablishStep(s, u) \/ AcknowledgeStep(s, u)
    BY <1>9 DEF ResumeStep
  <2>2. OtherStep(s, u)
    BY <2>1 DEF OtherStep, ResumeStep, MayPump
  <2>3. Streams(u)
    BY <2>2, StreamsOther
  <2>4. u.established
    BY <2>1 DEF EstablishStep, AcknowledgeStep, SameConnection, Waiting,
                Outgoing
  <2>5. ~u.crashed
    BY <2>1, <2>3, <2>4, StreamExists
    DEF EstablishStep, AcknowledgeStep, SameConnection, Waiting
  <2>6. Waiting(u)
    BY <2>4, <2>5 DEF Waiting
  <2> QED
    BY <2>1, <2>3, <2>4, <2>6, WaitingPump DEF MayPump
<1> QED
  BY <1>1, <1>2, <1>3, <1>4, <1>5, <1>6, <1>7, <1>8, <1>9 DEF OtherStep

LEMMA WaitingStep ==
  ASSUME "write" \notin AfterClose
  PROVE  Core(sock) /\ Streams(sock) /\ Waiting(sock) /\ [Next]_sock
           => Waiting(sock')
<1> SUFFICES ASSUME Core(sock), Streams(sock), Waiting(sock), [Next]_sock
             PROVE  Waiting(sock')
  OBVIOUS
<1>1. CASE socketWrite /\ WriteStep(sock, sock')
  <2>1. PICK u : Core(u) /\ QueueStep(sock, u) /\ MayPump(u, sock')
    BY <1>1 DEF WriteStep
  <2>2. Streams(u) /\ Waiting(u)
    BY <2>1 DEF QueueStep, Streams, Waiting, SameConnection, Current
  <2>3. u.state # "DISCONNECT_REQUESTED"
    BY <1>1, <2>1 DEF socketWrite, Requested, QueueStep
  <2>4. PumpStep(u, sock') => u.established
    BY <2>1, <2>3 DEF PumpStep, Core, Phases
  <2> QED
    BY <2>1, <2>2, <2>4, WaitingPump DEF MayPump
<1>2. CASE ClearStep(sock, sock')
  BY <1>2 DEF ClearStep, Waiting, SameConnection, Current
<1>3. CASE OtherStep(sock, sock')
  BY <1>3, WaitingOther
<1> QED
  BY <1>1, <1>2, <1>3, NextStep

\* No message is handed to a stream before its WebSocket handshake has
\* completed and no operation is started on nullptr, provided the script does
\* not call write() between close() and the closing handshake.
THEOREM WritesWait ==
  ASSUME "write" \notin AfterClose
  PROVE  Spec => []WritesWaitForConnection
<1>1. Init => Waiting(sock)
  BY DEF Init, NewSocket, Waiting, Current
<1>2. IInv /\ Streams(sock) /\ Waiting(sock) /\ [Next]_sock => Waiting(sock)'
  BY WaitingStep DEF IInv
<1>3. Waiting(sock) => WritesWaitForConnection
  BY DEF Waiting, WritesWaitForConnection, Kinds
<1> QED
  BY <1>1, <1>2, <1>3, CoreInvariant, StreamsInvariant, PTL DEF Spec

----------------------------------------------------------------------------
(* The order of the events.                                                *)

Ordered(q) == \A i \in DOMAIN q :
                i + 1 \in DOMAIN q => q[i + 1].type \in Follows[q[i].type]

\* The types the last event may have.
LastEvent(established) == IF established THEN {"IN_CONNECTED", "IN_MESSAGE"}
                                         ELSE {"IN_DISCONNECTED"}

Events(s) ==
  /\ Ordered(s.messageQueue)
  /\ s.messageQueue # << >> =>
       s.messageQueue[Len(s.messageQueue)].type \in LastEvent(s.established)

LEMMA AppendOrdered ==
  ASSUME NEW q \in Seq(InMessage), NEW e \in InMessage, Ordered(q),
         q # << >> => e.type \in Follows[q[Len(q)].type]
  PROVE  /\ Append(q, e) \in Seq(InMessage) /\ Append(q, e) # << >>
         /\ Append(q, e)[Len(Append(q, e))] = e
         /\ Ordered(Append(q, e))
<1> DEFINE r == Append(q, e)
<1>1. /\ r \in Seq(InMessage) /\ Len(r) = Len(q) + 1 /\ r[Len(r)] = e
      /\ \A i \in 1 .. Len(q) : r[i] = q[i]
      /\ Len(q) \in Nat /\ DOMAIN q = 1 .. Len(q) /\ DOMAIN r = 1 .. Len(r)
  OBVIOUS
<1>2. q = << >> <=> Len(q) = 0
  OBVIOUS
<1> HIDE DEF r
<1>3. ASSUME NEW i \in DOMAIN r, i + 1 \in DOMAIN r
      PROVE  r[i + 1].type \in Follows[r[i].type]
  <2>1. CASE i = Len(q)
    BY <1>1, <1>2, <1>3, <2>1
  <2>2. CASE i < Len(q)
    BY <1>1, <1>3, <2>2 DEF Ordered
  <2> QED
    BY <1>1, <1>3, <2>1, <2>2
<1>4. r # << >>
  BY <1>1
<1> QED
  BY <1>1, <1>3, <1>4 DEF Ordered, r

\* An event that may follow what `established` says was the last one.
LEMMA PutOrdered ==
  ASSUME NEW s, Core(s), Events(s), NEW e \in InMessage,
         \A type \in LastEvent(s.established) : e.type \in Follows[type]
  PROVE  LET r == Append(s.messageQueue, e)
         IN  /\ r \in Seq(InMessage) /\ r # << >>
             /\ r[Len(r)] = e /\ Ordered(r)
<1>1. s.messageQueue \in Seq(InMessage)
  BY CoreTypes, FieldTypes
<1> QED
  BY <1>1, AppendOrdered DEF Events

LEMMA EventsPump ==
  ASSUME NEW s, Events(s), NEW t, MayPump(s, t)
  PROVE  Events(t)
BY DEF MayPump, PumpStep, SameConnection, Events

LEMMA EventsOther ==
  ASSUME NEW s, Core(s), Events(s), NEW t, OtherStep(s, t)
  PROVE  Events(t)
<1>1. CASE OpenStep(s, t)
  BY <1>1 DEF OpenStep, Events
<1>2. CASE EndStep(s, t)
  <2> DEFINE q == s.messageQueue
  <2>1. EndedEvent \in InMessage /\ FailedEvent \in InMessage
    BY DEF EndedEvent, FailedEvent, InMessage
  <2>2. /\ EndedEvent.type = "IN_DISCONNECTED"
        /\ FailedEvent.type = "IN_ERROR"
    BY DEF EndedEvent, FailedEvent
  <2>3. \A type \in LastEvent(s.established) :
          /\ "IN_DISCONNECTED" \in Follows[type]
          /\ "IN_ERROR" \in Follows[type]
    BY DEF LastEvent, Follows
  <2>4. "IN_DISCONNECTED" \in Follows["IN_ERROR"]
    BY DEF Follows
  <2>5. LET r == Append(q, EndedEvent)
        IN  r # << >> /\ r[Len(r)] = EndedEvent /\ Ordered(r)
    BY <2>1, <2>2, <2>3, PutOrdered
  <2>6. LET r == Append(q, FailedEvent)
        IN  /\ r \in Seq(InMessage)
            /\ r[Len(r)] = FailedEvent /\ Ordered(r)
    BY <2>1, <2>2, <2>3, PutOrdered
  <2>7. LET r == Append(Append(q, FailedEvent), EndedEvent)
        IN  r # << >> /\ r[Len(r)] = EndedEvent /\ Ordered(r)
    BY <2>1, <2>2, <2>4, <2>6, AppendOrdered
  <2>8. /\ t.messageQueue # << >>
        /\ t.messageQueue[Len(t.messageQueue)] = EndedEvent
        /\ Ordered(t.messageQueue)
    BY <1>2, <2>5, <2>7 DEF EndStep
  <2>9. t.established = FALSE
    BY <1>2 DEF EndStep
  <2> QED
    BY <2>2, <2>8, <2>9 DEF Events, LastEvent
<1>3. CASE StaleStep(s, t)
  BY <1>3 DEF StaleStep, SameConnection, Events
<1>4. CASE DeliverStep(s, t)
  BY <1>4 DEF DeliverStep, Events, Ordered
<1>5. CASE ConnectStep(s, t)
  BY <1>5 DEF ConnectStep, Events
<1>6. CASE ReceiveStep(s, t)
  <2>1. PICK gens \in SUBSET Nat :
          /\ t.established = s.established /\ s.established
          /\ t.messageQueue = Append(s.messageQueue,
                                     [type |-> "IN_MESSAGE", gens |-> gens])
    BY <1>6 DEF ReceiveStep, SameConnection
  <2> DEFINE e == [type |-> "IN_MESSAGE", gens |-> gens]
  <2>2. e \in InMessage /\ e.type = "IN_MESSAGE"
    BY DEF InMessage
  <2>3. \A type \in LastEvent(s.established) : e.type \in Follows[type]
    BY <2>1 DEF LastEvent, Follows
  <2> HIDE DEF e
  <2>4. LET r == Append(s.messageQueue, e)
        IN  r # << >> /\ r[Len(r)] = e /\ Ordered(r)
    BY <2>2, <2>3, PutOrdered
  <2> QED
    BY <2>1, <2>2, <2>4 DEF Events, LastEvent, e
<1>7. CASE GiveUpStep(s, t)
  BY <1>7 DEF GiveUpStep, Events
<1>8. CASE AskCloseStep(s, t)
  <2>1. PICK u : RequestStep(s, u) /\ MayPump(u, t)
    BY <1>8 DEF AskCloseStep, MayPump
  <2>2. Events(u)
    BY <2>1 DEF RequestStep, SameConnection, Events
  <2> QED
    BY <2>1, <2>2, EventsPump
<1>9. CASE ResumeStep(s, t)
  <2>1. PICK u : /\ EstablishStep(s, u) \/ AcknowledgeStep(s, u)
                 /\ MayPump(u, t)
    BY <1>9 DEF ResumeStep
  <2>2. CASE EstablishStep(s, u)
    <3> DEFINE e == [type |-> "IN_CONNECTED", gens |-> {}]
    <3>1. /\ ~s.established /\ u.established = TRUE
          /\ u.messageQueue = Append(s.messageQueue, e)
      BY <2>2 DEF EstablishStep
    <3>2. e \in InMessage /\ e.type = "IN_CONNECTED"
      BY DEF InMessage
    <3>3. \A type \in LastEvent(s.established) : e.type \in Follows[type]
      BY <3>1 DEF LastEvent, Follows
    <3> HIDE DEF e
    <3>4. LET r == Append(s.messageQueue, e)
          IN  r # << >> /\ r[Len(r)] = e /\ Ordered(r)
      BY <3>2, <3>3, PutOrdered
    <3>5. Events(u)
      BY <3>1, <3>2, <3>4 DEF Events, LastEvent
    <3> QED
      BY <2>1, <3>5, EventsPump
  <2>3. CASE AcknowledgeStep(s, u)
    <3>1. Events(u)
      BY <2>3 DEF AcknowledgeStep, SameConnection, Events
    <3> QED
      BY <2>1, <3>1, EventsPump
  <2> QED
    BY <2>1, <2>2, <2>3
<1> QED
  BY <1>1, <1>2, <1>3, <1>4, <1>5, <1>6, <1>7, <1>8, <1>9 DEF OtherStep

LEMMA EventsStep ==
  Core(sock) /\ Events(sock) /\ [Next]_sock => Events(sock')
<1> SUFFICES ASSUME Core(sock), Events(sock), [Next]_sock
             PROVE  Events(sock')
  OBVIOUS
<1>1. CASE WriteStep(sock, sock')
  <2>1. PICK u : QueueStep(sock, u) /\ MayPump(u, sock')
    BY <1>1 DEF WriteStep
  <2>2. Events(u)
    BY <2>1 DEF QueueStep, SameConnection, Events
  <2> QED
    BY <2>1, <2>2, EventsPump
<1>2. CASE ClearStep(sock, sock')
  BY <1>2 DEF ClearStep, SameConnection, Events
<1> QED
  BY <1>1, <1>2, NextStep, EventsOther

\* The events wait in an order a script may rely on, however many attempts
\* pass between two thinks.
THEOREM EventsInOrder == Spec => []EventOrder
<1>1. Init => Events(sock)
  BY DEF Init, NewSocket, Events, Ordered
<1>2. IInv /\ Events(sock) /\ [Next]_sock => Events(sock)'
  BY EventsStep DEF IInv
<1>3. Events(sock) => EventOrder
  BY DEF Events, EventOrder, Ordered, LastEvent
<1> QED
  BY <1>1, <1>2, <1>3, CoreInvariant, PTL DEF Spec

----------------------------------------------------------------------------
(* The refinement.                                                         *)

LEMMA OwnerNext == Core(sock) /\ [Next]_sock => OwnerStep(sock, sock')
<1> SUFFICES ASSUME Core(sock), [Next]_sock
             PROVE  OwnerStep(sock, sock')
  OBVIOUS
<1>1. CASE WriteStep(sock, sock')
  <2>1. PICK u : QueueStep(sock, u) /\ MayPump(u, sock')
    BY <1>1 DEF WriteStep
  <2>2. PhaseOf(u) = PhaseOf(sock) /\ u.messageQueue = sock.messageQueue
    BY <2>1 DEF QueueStep, SameConnection, PhaseOf
  <2> QED
    BY <2>1, <2>2, OwnerPump DEF OwnerStep
<1>2. CASE ClearStep(sock, sock')
  BY <1>2 DEF ClearStep, SameConnection, PhaseOf, OwnerStep
<1> QED
  BY <1>1, <1>2, NextStep, OwnerOther

\* GWSocket implements SocketLifecycle: the owner of a socket sees at most
\* one onConnected and exactly one onDisconnected per open(), whatever the
\* network, the script and the operations of earlier attempts do.
THEOREM Implementation == Spec => ImplementsLifecycle
<1>1. Init => Lifecycle!Init
  BY DEF Init, NewSocket, PhaseOf, EventTypes, Lifecycle!Init
<1>2. IInv /\ [Next]_sock => [Lifecycle!Next]_(Lifecycle!vars)
  <2> SUFFICES ASSUME OwnerStep(sock, sock')
               PROVE  [Lifecycle!Next]_(Lifecycle!vars)
    BY OwnerNext DEF IInv
  <2> QED
    BY DEF OwnerStep, Lifecycle!Next, Lifecycle!vars, Lifecycle!Open,
           Lifecycle!Establish, Lifecycle!Receive, Lifecycle!Finish,
           Lifecycle!Deliver
<1> QED
  BY <1>1, <1>2, CoreInvariant, PTL
  DEF Spec, ImplementsLifecycle, Lifecycle!Spec

=============================================================================
