------------------------------ MODULE GWSocket ------------------------------
(***************************************************************************)
(* One socket of the module: the Lua script calls its methods, Boost.Asio  *)
(* completes its asynchronous operations (during ioc->poll() in            *)
(* webSocketThink) in any order and with any result, and webSocketThink    *)
(* takes the events that wait in messageQueue.                             *)
(***************************************************************************)
EXTENDS GWSocketOps

CONSTANTS
  SocketKinds,  \* the kinds of socket the script may create
  LuaCalls,     \* the methods the script calls
  AfterClose,   \* those of write and clearQueue that it also calls between
                \* close() and the start of the closing handshake
  Outcomes,     \* the results of operations; "partial": messages may arrive
                \* in pieces
  MaxOpens,     \* bound on open() calls
  MaxWrites,    \* bound on write() calls
  MaxInbox      \* a message is received while fewer events than this wait

Calls == {"open", "close", "closeNow", "write", "clearQueue"}

ASSUME ConstantsAssumption ==
  /\ SocketKinds \subseteq Kind
  /\ LuaCalls \subseteq Calls
  /\ AfterClose \subseteq {"write", "clearQueue"}
  /\ Outcomes \subseteq ErrorCode \cup {"partial"}

ASSUME BoundsAssumption ==
  MaxOpens \in Nat /\ MaxWrites \in Nat /\ MaxInbox \in Nat

VARIABLE sock

Init == \E kind \in SocketKinds : sock = NewSocket(kind)

----------------------------------------------------------------------------
(* The Lua methods.                                                        *)

Calling(call) == /\ call \in LuaCalls
                 /\ ~sock.crashed

Requested == sock.state = "DISCONNECT_REQUESTED"

\* socketOpen throws unless the socket is disconnected.
socketOpen == /\ Calling("open")
              /\ sock.state = "DISCONNECTED"
              /\ sock.generation < 2 * MaxOpens
              /\ \E shouldClearQueue \in BOOLEAN :
                   sock' = open(sock, shouldClearQueue)

socketClose == /\ Calling("close")
               /\ sock' = close(sock)

socketCloseNow == /\ Calling("closeNow")
                  /\ sock' = closeNow(sock)

socketWrite == /\ Calling("write")
               /\ Requested => "write" \in AfterClose
               /\ sock.written < MaxWrites
               /\ sock' = write(sock)

socketClearQueue == /\ Calling("clearQueue")
                    /\ Requested => "clearQueue" \in AfterClose
                    /\ sock' = clearQueue(sock)

----------------------------------------------------------------------------
(* Boost.Asio completes an operation.                                      *)

\* Success needs the stream the operation was started on, with its
\* descriptor, and for a write an established WebSocket connection.  The
\* result of an operation of an earlier generation is never looked at.
Result(op) ==
  {ec \in Outcomes \cap ErrorCode :
     ec = "ok" /\ op.kind # "resolve" =>
       /\ op.stream = sock.stream
       /\ sock.tcpOpen
       /\ op.kind = "write" => sock.established}

\* The operations of a kind that can complete.
Running(kind) == {op \in sock.pending : op.kind = kind /\ ~sock.crashed}

HostResolved ==
  \E op \in Running("resolve") :
    \E ec \in Result(op), tlsParams \in Outcomes \cap {"ok", "error"} :
      LET s == Completed(sock, op)
      IN  sock' = guardGeneration(s, op, hostResolvedStep(s, ec, tlsParams))

SocketConnected ==
  \E op \in Running("connect") : \E ec \in Result(op) :
    LET s == Completed(sock, op)
    IN  sock' = guardGeneration(s, op, socketConnected(s, ec))

SSLHandshakeComplete ==
  \E op \in Running("ssl_handshake") : \E ec \in Result(op) :
    LET s == Completed(sock, op)
    IN  sock' = guardGeneration(s, op, sslHandshakeComplete(s, ec))

\* The handshake runs the verification callback while it is in progress,
\* also when it processes data that had arrived before the socket was closed,
\* as long as its stream has not been replaced.
VerifyCertificate ==
  \E op \in Running("ssl_handshake") :
    /\ sock.kind = "wss"
    /\ op.stream = sock.stream
    /\ "error" \in Outcomes
    /\ sock' = verifyCertificate(sock, "X509_V_ERR_CERT_HAS_EXPIRED")

HandshakeCompleted ==
  \E op \in Running("handshake") : \E ec \in Result(op) :
    LET s == Completed(sock, op)
    IN  sock' = guardGeneration(s, op, handshakeCompleted(s, ec))

PartialRead ==
  \E op \in Running("read") :
    /\ op.stream = sock.stream
    /\ sock.tcpOpen
    /\ "partial" \in Outcomes
    /\ sock' = partialRead(sock, op)

OnRead ==
  \E op \in Running("read") : \E ec \in Result(op) :
    LET s == Completed(sock, op)
    IN  /\ ec = "ok" => Len(sock.messageQueue) < MaxInbox
        /\ sock' = guardGeneration(s, op, onRead(s, ec))

OnWrite ==
  \E op \in Running("write") : \E ec \in Result(op) :
    LET s == Completed(sock, op)
    IN  sock' = guardGeneration(s, op, onWrite(s, ec))

OnDisconnected ==
  \E op \in Running("close") :
    LET s == Completed(sock, op)
    IN  sock' = guardGeneration(s, op, onDisconnected(s))

\* webSocketThink: messageQueue.clear(), then the callbacks.
Drain == /\ ~sock.crashed
         /\ sock' = [sock EXCEPT !.messageQueue = << >>]

LuaCall == \/ socketOpen
           \/ socketClose
           \/ socketCloseNow
           \/ socketWrite
           \/ socketClearQueue

Completion == \/ HostResolved
              \/ SocketConnected
              \/ SSLHandshakeComplete
              \/ VerifyCertificate
              \/ HandshakeCompleted
              \/ PartialRead
              \/ OnRead
              \/ OnWrite
              \/ OnDisconnected

Next == LuaCall \/ Completion \/ Drain

Spec == Init /\ [][Next]_sock

\* Fairness, for liveness only: webSocketThink runs every frame, and the
\* resolver, the network and the peer answer every operation other than a
\* read (the code sets no timeout that would answer for them; a peer that
\* sends nothing is normal).
Fairness == /\ WF_sock(HostResolved)
            /\ WF_sock(SocketConnected)
            /\ WF_sock(SSLHandshakeComplete)
            /\ WF_sock(HandshakeCompleted)
            /\ WF_sock(OnWrite)
            /\ WF_sock(OnDisconnected)
            /\ WF_sock(Drain)

FairSpec == Spec /\ Fairness

----------------------------------------------------------------------------
(* Safety.                                                                 *)

\* Every field of the socket keeps its type.
TypeOK == sock \in Socket

Kinds == {op.kind : op \in Current(sock)}

\* `writing` is true exactly while the current attempt has a write or a close
\* in flight: checkWriting neither starts a second one nor waits for one that
\* will never complete, whatever an operation of an earlier attempt does.
WritingMatchesOps == sock.writing <=> Kinds \cap Outgoing # {}

\* No operation is started on a stream while a conflicting one of the same
\* attempt is in flight (two reads, two writes, a write and a close).
NoOverlap == /\ ~sock.overlap
             /\ \A op1, op2 \in Current(sock) :
                  Conflicts(op1.kind, op2.kind) => op1 = op2

\* A disconnected socket owns nothing: no operation whose handler would
\* still run, no write mark and no open descriptor.
ClosedIsClean == sock.state = "DISCONNECTED" =>
                   /\ Current(sock) = {}
                   /\ ~sock.writing
                   /\ ~sock.tcpOpen

\* In every other state some operation is in flight whose handler will run,
\* so the socket hears of the end of its connection.
NeverOrphaned ==
  /\ sock.state = "CONNECTING" => Kinds \cap ConnectPhase # {}
  /\ sock.state = "CONNECTED" => "read" \in Kinds
  /\ Requested => Kinds \cap Incoming # {}
  /\ sock.state = "DISCONNECTING" <=> "close" \in Kinds

\* Whether `id` is the message of the write in flight.
InFlight(id) == "write" \in Kinds /\ id = sock.messageToWrite

\* Messages are sent in the order of the write() calls and at most once:
\* those acknowledged, the one in flight and those queued have increasing
\* numbers.
SentInOrder ==
  LET queue == sock.writeQueue
      Text(i) == queue[i].type = "OUT_MESSAGE"
  IN  /\ \A i, j \in DOMAIN sock.sent :
           i < j => sock.sent[i] < sock.sent[j]
      /\ \A i \in DOMAIN sock.sent :
           /\ sock.sent[i] <= sock.messageToWrite
           /\ ~InFlight(sock.sent[i])
      /\ \A j \in DOMAIN queue :
           Text(j) => queue[j].id \in sock.messageToWrite + 1 .. sock.written
      /\ \A i, j \in DOMAIN queue :
           i < j /\ Text(i) /\ Text(j) => queue[i].id < queue[j].id

\* The closing handshake starts only after every message queued before the
\* close() has left the queue and none is in flight.
CloseAfterFlush ==
  sock.state = "DISCONNECTING" =>
    /\ "write" \notin Kinds
    /\ \A i \in DOMAIN sock.writeQueue :
         sock.writeQueue[i].id > sock.closeMark

\* OUT_DISCONNECT is queued at most once and only while a close() is being
\* carried out, so the fallback in checkWriting is never needed and a reopened
\* socket never meets the mark of an earlier connection.
MarkOnlyWhileRequested ==
  \A i \in DOMAIN sock.writeQueue :
    sock.writeQueue[i].type = "OUT_DISCONNECT" =>
      /\ Requested
      /\ \A j \in DOMAIN sock.writeQueue :
           sock.writeQueue[j].type = "OUT_DISCONNECT" => i = j

Follows == [ IN_CONNECTED    |-> {"IN_MESSAGE", "IN_ERROR", "IN_DISCONNECTED"},
             IN_MESSAGE      |-> {"IN_MESSAGE", "IN_ERROR", "IN_DISCONNECTED"},
             IN_ERROR        |-> {"IN_DISCONNECTED"},
             IN_DISCONNECTED |-> {"IN_CONNECTED", "IN_ERROR",
                                  "IN_DISCONNECTED"} ]

\* The events wait in an order a script may rely on: an error is followed by
\* the disconnection, no message precedes onConnected or follows
\* onDisconnected, and the last event agrees with the state.
EventOrder ==
  LET q == sock.messageQueue
  IN  /\ \A i \in DOMAIN q :
           i + 1 \in DOMAIN q => q[i + 1].type \in Follows[q[i].type]
      /\ q # << >> =>
           q[Len(q)].type \in IF sock.established
                              THEN {"IN_CONNECTED", "IN_MESSAGE"}
                              ELSE {"IN_DISCONNECTED"}

\* Messages that are neither acknowledged nor given up.
Outstanding == {id \in 1 .. sock.written :
                  \/ InFlight(id)
                  \/ \E i \in DOMAIN sock.writeQueue :
                       sock.writeQueue[i] = [type |-> "OUT_MESSAGE", id |-> id]}

Acknowledged == {sock.sent[i] : i \in DOMAIN sock.sent}

\* While the connection lasts a step loses no message: what is outstanding
\* stays so or is acknowledged, unless the script clears the queue.
NothingLost ==
  [][sock'.generation = sock.generation =>
       \/ Outstanding \subseteq Outstanding' \cup Acknowledged'
       \/ socketClearQueue]_sock

\* No operation is started on a stream that does not exist, and no message is
\* handed to a stream before its WebSocket handshake has completed.
WritesWaitForConnection ==
  /\ ~sock.crashed
  /\ Kinds \cap Outgoing # {} => sock.established

\* Nothing that an earlier attempt left running can touch an established
\* connection: what runs on its stream was started by it.  guardGeneration
\* does not protect the verification callback, which therefore reaches a
\* later attempt only while that is still looking up its host.
EstablishedIsIsolated ==
  sock.established =>
    \A op \in sock.pending :
      op.stream = sock.stream => op.gen = sock.generation

\* The socket as its owner sees it.
Lifecycle == INSTANCE SocketLifecycle WITH
  phase <- PhaseOf(sock), inbox <- EventTypes(sock.messageQueue)

\* The socket keeps the promise of SocketLifecycle: one onConnected at most
\* and one onDisconnected exactly per open().
ImplementsLifecycle == Lifecycle!Spec

----------------------------------------------------------------------------
(* Liveness.                                                               *)

\* A close() that was accepted ends in a disconnected socket.
CloseCompletes == Requested ~> sock.state = "DISCONNECTED"

\* A connection attempt succeeds or ends.
AttemptEnds ==
  sock.state = "CONNECTING" ~> sock.state \in {"CONNECTED", "DISCONNECTED"}

\* A message queued on an established connection does not wait for ever: it
\* is acknowledged, cleared or given up with the connection.
QueueMoves ==
  \A id \in 1 .. MaxWrites :
    (sock.established /\ id \in Outstanding) ~> (id \notin Outstanding)

----------------------------------------------------------------------------
(* What the documentation says and the code does not keep.                 *)

\* README.md: close() waits for all queued messages to be sent.  A socket
\* that was asked to close gives up no message queued before that, given that
\* no operation fails.
CloseFlushesQueue ==
  [][Requested /\ sock'.state = "DISCONNECTED" =>
       \A id \in Outstanding : id > sock.closeMark]_sock

\* README.md: onMessage is called with a message from the peer.  Every
\* received message consists of bytes of a single connection.
MessagesFromOneConnection ==
  \A i \in DOMAIN sock.messageQueue :
    \A g, h \in sock.messageQueue[i].gens : g = h

=============================================================================
