---------------------------- MODULE GWSocketOps ----------------------------
(***************************************************************************)
(* The member functions of GWSocket, WebSocket and SSLWebSocket as         *)
(* operators that map the record of a socket to the record the function    *)
(* leaves behind.  Everything runs on the game's main thread (GWSocket.h,  *)
(* lines 18-21), so a function is one step and a compare-exchange succeeds *)
(* exactly when the state is the expected one.                             *)
(*                                                                         *)
(* An asynchronous operation is a record in `pending`: what was started,   *)
(* the value of `generation` that guardGeneration captured, and the stream *)
(* object it runs on (0 is nullptr).  Texts (reasons, error messages) are  *)
(* left out; an outgoing message is the number of the write() call.        *)
(***************************************************************************)
EXTENDS Naturals, Sequences

SocketState == {"CONNECTING", "CONNECTED", "DISCONNECT_REQUESTED",
                "DISCONNECTING", "DISCONNECTED"}

\* The operations that establish a connection, in the order they follow
\* each other; "ssl_handshake" only on an SSLWebSocket.
ConnectPhase == {"resolve", "connect", "ssl_handshake", "handshake"}
OpKind       == ConnectPhase \cup {"read", "write", "close"}

\* A stream works on at most one incoming operation (connecting, then
\* reading) and one outgoing operation (writing or closing) at a time:
\* the contract of boost::beast::websocket::stream.
Incoming == ConnectPhase \cup {"read"}
Outgoing == {"write", "close"}
Conflicts(k, l) == (k \in Incoming) <=> (l \in Incoming)

Op         == [kind : OpKind, gen : Nat, stream : Nat]
OutMessage == [type : {"OUT_MESSAGE", "OUT_DISCONNECT"}, id : Nat]
\* `gens`: the connections whose bytes the text of an IN_MESSAGE holds.
InMessage  == [type : {"IN_CONNECTED", "IN_MESSAGE", "IN_ERROR",
                       "IN_DISCONNECTED"}, gens : SUBSET Nat]
\* "wss_noverify" is an SSLWebSocket with shouldVerifyCertificate = false.
Kind       == {"ws", "wss", "wss_noverify"}
\* "closed": the codes isConnectionClosedError accepts; "error": the others.
ErrorCode  == {"ok", "closed", "error"}

Socket ==
  [ kind           : Kind,
    state          : SocketState,
    generation     : Nat,
    writing        : BOOLEAN,
    messageToWrite : Nat,
    writeQueue     : Seq(OutMessage),
    messageQueue   : Seq(InMessage),
    readBuffer     : SUBSET Nat,      \* connections whose bytes it holds
    stream         : Nat,             \* generation that made *ws, 0 = nullptr
    \* Boost.Asio and the network
    pending        : SUBSET Op,
    tcpOpen        : BOOLEAN,         \* the lowest layer has a descriptor
    \* history, read by the properties and by no operator
    written        : Nat,             \* number of write() calls so far
    sent           : Seq(Nat),        \* acknowledged on the current stream
    closeMark      : Nat,             \* `written` when close() last succeeded
    established    : BOOLEAN,         \* this attempt produced IN_CONNECTED
    overlap        : BOOLEAN,         \* two conflicting operations met
    crashed        : BOOLEAN ]        \* an operation started on nullptr

\* The constructors: GWSocket::GWSocket and the member initialisers.
NewSocket(kind) ==
  [ kind |-> kind, state |-> "DISCONNECTED", generation |-> 0,
    writing |-> FALSE, messageToWrite |-> 0, writeQueue |-> << >>,
    messageQueue |-> << >>, readBuffer |-> {}, stream |-> 0,
    pending |-> {}, tcpOpen |-> FALSE, written |-> 0, sent |-> << >>,
    closeMark |-> 0, established |-> FALSE, overlap |-> FALSE,
    crashed |-> FALSE ]

----------------------------------------------------------------------------
(* Asynchronous operations and the queue of events for Lua.                *)

Current(s) == {op \in s.pending : op.gen = s.generation}

\* Start an operation; guardGeneration captures the generation here.
Start(s, kind) ==
  [s EXCEPT
     !.pending = @ \cup {[kind |-> kind, gen |-> s.generation,
                          stream |-> s.stream]},
     !.overlap = @ \/ \E op \in Current(s) : Conflicts(op.kind, kind),
     !.crashed = @ \/ (kind # "resolve" /\ s.stream = 0)]

\* The completed operation leaves Asio ...
Completed(s, op) == [s EXCEPT !.pending = @ \ {op}]

\* Faulty: the handler runs for every completion.
guardGeneration_Unguarded(s, op, t) == t

\* ... and its handler, which turns s into t, runs only if the socket has
\* not been closed or reopened since the operation was started.
guardGeneration(s, op, t) == IF s.generation = op.gen THEN t ELSE s

\* BlockingQueue::put
put(s, type, gens) ==
  [s EXCEPT !.messageQueue = Append(@, [type |-> type, gens |-> gens])]

----------------------------------------------------------------------------
(* Closing.                                                                *)

closeSocket(s) == IF s.stream = 0 THEN s ELSE [s EXCEPT !.tcpOpen = FALSE]

clearQueue(s) == [s EXCEPT !.writeQueue = << >>]

\* Faulty: the queue, and an OUT_DISCONNECT in it, survive.
doClose_KeepsQueue(s) ==
  LET t == closeSocket([s EXCEPT !.generation = @ + 1])
  IN  put([t EXCEPT !.state = "DISCONNECTED", !.writing = FALSE,
                    !.established = FALSE],
          "IN_DISCONNECTED", {})

\* Faulty: `writing` is not reset.
doClose_KeepsWriting(s) ==
  LET t == clearQueue(closeSocket([s EXCEPT !.generation = @ + 1]))
  IN  put([t EXCEPT !.state = "DISCONNECTED", !.established = FALSE],
          "IN_DISCONNECTED", {})

doClose(s) ==
  LET t == clearQueue(closeSocket([s EXCEPT !.generation = @ + 1]))
  IN  put([t EXCEPT !.state = "DISCONNECTED", !.writing = FALSE,
                    !.established = FALSE],
          "IN_DISCONNECTED", {})

\* Faulty: a closed socket can be closed again.
setDisconnectingCAS_Always(s) == s.state # "DISCONNECTING"

\* Whether the exchange to STATE_DISCONNECTING succeeds; every caller then
\* runs doClose in the same step, which overwrites that state.
setDisconnectingCAS(s) == s.state \notin {"DISCONNECTED", "DISCONNECTING"}

closeNow(s) == IF setDisconnectingCAS(s) THEN doClose(s) ELSE s

\* Faulty: the error is reported after the disconnection.
errorConnection_Late(s) ==
  IF setDisconnectingCAS(s) THEN put(doClose(s), "IN_ERROR", {}) ELSE s

\* Faulty: an event type webSocketThink does not know.
errorConnection_UnknownType(s) ==
  IF setDisconnectingCAS(s) THEN doClose(put(s, "IN_FAILED", {})) ELSE s

errorConnection(s) ==
  IF setDisconnectingCAS(s) THEN doClose(put(s, "IN_ERROR", {})) ELSE s

----------------------------------------------------------------------------
(* The virtual functions of WebSocket and SSLWebSocket.                    *)

\* Faulty: keeps the stream of the last connection.
resetWS_Reuses(s) ==
  [s EXCEPT !.stream = IF @ = 0 THEN s.generation ELSE @,
            !.tcpOpen = FALSE, !.sent = << >>]

resetWS(s) == [s EXCEPT !.stream = s.generation, !.tcpOpen = FALSE,
                        !.sent = << >>]

\* tlsParams: whether an SSLWebSocket could set the host name (SNI) and the
\* host to verify.
asyncConnect(s, tlsParams) ==
  LET t == resetWS(s)
  IN  IF s.kind # "ws" /\ tlsParams # "ok"
      THEN errorConnection(t)
      ELSE Start([t EXCEPT !.tcpOpen = TRUE], "connect")

asyncHandshake(s) ==
  Start(s, IF s.kind = "ws" THEN "handshake" ELSE "ssl_handshake")

asyncRead(s) == Start(s, "read")

asyncWrite(s, id) == Start([s EXCEPT !.messageToWrite = id], "write")

asyncCloseSocket(s) == Start(s, "close")

\* Called by OpenSSL from inside the TLS handshake, without guardGeneration.
verifyCertificate(s, x509Error) ==
  IF x509Error = "X509_V_OK" THEN s ELSE errorConnection(s)

----------------------------------------------------------------------------
(* Sending.                                                                *)

\* Faulty: does not look at `writing`.
checkWriting_IgnoresWriting(s) ==
  IF /\ s.state \in {"CONNECTED", "DISCONNECT_REQUESTED"}
     /\ s.writeQueue # << >>
  THEN LET message == Head(s.writeQueue)
           t == [s EXCEPT !.writing = TRUE, !.writeQueue = Tail(@)]
       IN  IF message.type = "OUT_MESSAGE"
           THEN asyncWrite(t, message.id)
           ELSE asyncCloseSocket([t EXCEPT !.state = "DISCONNECTING"])
  ELSE s

\* Faulty: takes the message off the queue before it looks at `writing`.
checkWriting_PopsFirst(s) ==
  IF /\ s.state \in {"CONNECTED", "DISCONNECT_REQUESTED"}
     /\ s.writeQueue # << >>
  THEN LET message == Head(s.writeQueue)
           t == [s EXCEPT !.writing = TRUE, !.writeQueue = Tail(@)]
       IN  CASE s.writing -> t
             [] message.type = "OUT_MESSAGE" -> asyncWrite(t, message.id)
             [] OTHER -> asyncCloseSocket([t EXCEPT !.state = "DISCONNECTING"])
  ELSE s

checkWriting(s) ==
  IF /\ s.state \in {"CONNECTED", "DISCONNECT_REQUESTED"}
     /\ ~s.writing
     /\ s.writeQueue # << >>
  THEN LET message == Head(s.writeQueue)
           t == [s EXCEPT !.writing = TRUE, !.writeQueue = Tail(@)]
       IN  IF message.type = "OUT_MESSAGE"
           THEN asyncWrite(t, message.id)
           ELSE IF t.state = "DISCONNECT_REQUESTED"
                THEN asyncCloseSocket([t EXCEPT !.state = "DISCONNECTING"])
                ELSE closeNow(t)
  ELSE s

\* Faulty: the new message goes to the front of the queue.
write_PushFront(s) ==
  LET id == s.written + 1
  IN  checkWriting([s EXCEPT
        !.written    = id,
        !.writeQueue = <<[type |-> "OUT_MESSAGE", id |-> id]>> \o @])

write(s) ==
  LET id == s.written + 1
  IN  checkWriting([s EXCEPT
        !.written    = id,
        !.writeQueue = Append(@, [type |-> "OUT_MESSAGE", id |-> id])])

\* Faulty: does not go on with the next queued message.
onWrite_Stops(s, ec) ==
  CASE ec = "ok"     -> [s EXCEPT !.writing = FALSE,
                                  !.sent = Append(@, s.messageToWrite)]
    [] ec = "closed" -> closeNow(s)
    [] ec = "error"  -> errorConnection(s)

\* On success the message counts as sent.
onWrite(s, ec) ==
  CASE ec = "ok"     -> checkWriting([s EXCEPT !.writing = FALSE,
                                        !.sent = Append(@, s.messageToWrite)])
    [] ec = "closed" -> closeNow(s)
    [] ec = "error"  -> errorConnection(s)

\* Faulty: OUT_DISCONNECT overtakes the queued messages.
close_JumpsQueue(s) ==
  IF s.state \in {"CONNECTING", "CONNECTED"}
  THEN LET t == [s EXCEPT
                   !.state      = "DISCONNECT_REQUESTED",
                   !.closeMark  = s.written,
                   !.writeQueue = <<[type |-> "OUT_DISCONNECT",
                                     id |-> 0]>> \o @]
       IN  IF s.state = "CONNECTING" THEN t ELSE checkWriting(t)
  ELSE s

\* Faulty: does not leave a connecting socket to its handshake.
close_AlwaysChecks(s) ==
  IF s.state \in {"CONNECTING", "CONNECTED"}
  THEN checkWriting([s EXCEPT
         !.state      = "DISCONNECT_REQUESTED",
         !.closeMark  = s.written,
         !.writeQueue = Append(@, [type |-> "OUT_DISCONNECT", id |-> 0])])
  ELSE s

close(s) ==
  IF s.state \in {"CONNECTING", "CONNECTED"}
  THEN LET t == [s EXCEPT
                   !.state      = "DISCONNECT_REQUESTED",
                   !.closeMark  = s.written,
                   !.writeQueue = Append(@, [type |-> "OUT_DISCONNECT",
                                             id |-> 0])]
       IN  IF s.state = "CONNECTING" THEN t ELSE checkWriting(t)
  ELSE s

----------------------------------------------------------------------------
(* Connecting: each handler starts the next operation or fails.            *)

open(s, shouldClearQueue) ==
  IF s.state = "DISCONNECTED"
  THEN LET t == [s EXCEPT !.state = "CONNECTING"]
           u == IF shouldClearQueue THEN clearQueue(t) ELSE t
       IN  Start([u EXCEPT !.generation = @ + 1], "resolve")
  ELSE s

\* Faulty: a failed lookup is ignored.
hostResolvedStep_Silent(s, ec, tlsParams) ==
  IF ec = "ok" THEN asyncConnect(s, tlsParams) ELSE s

hostResolvedStep(s, ec, tlsParams) ==
  IF ec = "ok" THEN asyncConnect(s, tlsParams) ELSE errorConnection(s)

socketConnected(s, ec) ==
  IF ec = "ok" THEN asyncHandshake(s) ELSE errorConnection(s)

\* Faulty: a socket closed during the handshake is left as it is.
handshakeCompleted_NoClose(s, ec) ==
  IF ec = "ok"
  THEN IF s.state = "CONNECTING"
       THEN checkWriting(asyncRead(put([s EXCEPT !.state = "CONNECTED",
                                                 !.established = TRUE],
                                       "IN_CONNECTED", {})))
       ELSE s
  ELSE errorConnection(s)

handshakeCompleted(s, ec) ==
  IF ec = "ok"
  THEN IF s.state = "CONNECTING"
       THEN checkWriting(asyncRead(put([s EXCEPT !.state = "CONNECTED",
                                                 !.established = TRUE],
                                       "IN_CONNECTED", {})))
       ELSE closeNow(s)
  ELSE errorConnection(s)

sslHandshakeComplete(s, ec) ==
  IF ec = "ok" THEN Start(s, "handshake") ELSE handshakeCompleted(s, ec)

----------------------------------------------------------------------------
(* Receiving and the end of an orderly close.                              *)

\* Bytes of a message are put into readBuffer as they arrive; the handler is
\* called once the message is complete.
partialRead(s, op) == [s EXCEPT !.readBuffer = @ \cup {op.gen}]

\* Faulty: reads one message only.
onRead_Once(s, ec) ==
  CASE ec = "ok" -> [put(s, "IN_MESSAGE", s.readBuffer \cup {s.generation})
                       EXCEPT !.readBuffer = {}]
    [] ec = "closed" -> closeNow(s)
    [] ec = "error"  -> errorConnection(s)

onRead(s, ec) ==
  CASE ec = "ok" ->
         asyncRead([put(s, "IN_MESSAGE", s.readBuffer \cup {s.generation})
                      EXCEPT !.readBuffer = {}])
    [] ec = "closed" -> closeNow(s)
    [] ec = "error"  -> errorConnection(s)

onDisconnected(s) == doClose(s)

----------------------------------------------------------------------------
(* What the owner of a socket sees of it (see module SocketLifecycle).     *)

PhaseOf(s) == IF s.state = "DISCONNECTED" THEN "closed"
              ELSE IF s.established THEN "open" ELSE "opening"

EventTypes(queue) == [i \in DOMAIN queue |-> queue[i].type]

=============================================================================
