--------------------------- MODULE SocketThreads ---------------------------
(***************************************************************************)
(* The program at the end of GLua.cpp that runs one socket without the     *)
(* game, and the only one that uses a socket from several threads: "io"    *)
(* runs the handlers (runIOThread), "sender" calls write (sendMessages)    *)
(* and "main" opens the socket, takes events, calls closeNow and stops.    *)
(*                                                                         *)
(* What module GWSocket does in one step takes one step here for every     *)
(* lock, every load or exchange of an atomic and every access to `writing` *)
(* and to the stream.  Each thread is at a label, and a function returns   *)
(* to the place Back names.  close() is not called, so OUT_DISCONNECT and  *)
(* STATE_DISCONNECT_REQUESTED do not occur.                                *)
(***************************************************************************)
EXTENDS GWSocketOps

CONSTANTS
  Outcomes,   \* the results of operations
  Rounds,     \* iterations of the loop of main (100 in the code)
  MaxWrites,  \* bound on write() calls
  MaxInbox    \* a message is received while fewer events than this wait

ASSUME ThreadsAssumption ==
  /\ Outcomes \subseteq ErrorCode
  /\ Rounds \in Nat /\ MaxWrites \in Nat /\ MaxInbox \in Nat

Thread == {"io", "sender", "main"}

VARIABLES
  sock,
  queueMutex,   \* its owner, or "free"
  pc,           \* label of each thread
  stopped,      \* ioc->stopped()
  \* locals
  handling,     \* of io: the completed operation and its result
  failing,      \* of io: errorConnection rather than closeNow
  expected,     \* of setDisconnectingCAS, for each thread
  starting,     \* the operation that each thread is about to start
  rounds        \* of main

locals == <<handling, failing, expected, starting, rounds>>
vars   == <<sock, queueMutex, pc, stopped, locals>>

Idle       == [kind |-> "resolve", gen |-> 0, then |-> "none"]
NotHandled == [op |-> [kind |-> "resolve", gen |-> 0, stream |-> 0],
               ec |-> "ok"]

\* main has opened the socket before it starts the threads.
Init == /\ sock = open(NewSocket("wss"), TRUE)
        /\ queueMutex = "free"
        /\ pc = [t \in Thread |-> IF t = "main" THEN "loop" ELSE "idle"]
        /\ stopped = FALSE
        /\ handling = NotHandled /\ failing = FALSE
        /\ expected = [t \in Thread |-> "DISCONNECTED"]
        /\ starting = [t \in Thread |-> Idle]
        /\ rounds = 0

At(t, label) == pc[t] = label
Go(t, label) == pc' = [pc EXCEPT ![t] = label]
Back(t)      == IF t = "main" THEN "stop" ELSE "idle"

----------------------------------------------------------------------------
(* Starting an operation: guardGeneration loads the generation, then the   *)
(* operation begins on the stream.                                         *)

Starts(t, kind, then) ==
  /\ starting' = [starting EXCEPT ![t] = [kind |-> kind, gen |-> 0,
                                          then |-> then]]
  /\ Go(t, "capture")

Capture(t) ==
  /\ At(t, "capture")
  /\ starting' = [starting EXCEPT ![t].gen = sock.generation]
  /\ Go(t, "start")
  /\ UNCHANGED <<sock, queueMutex, stopped, handling, failing, expected,
                 rounds>>

\* Start, with the generation that was captured.  The lock that checkWriting
\* holds during asyncWrite is released after it.
StartOperation(t) ==
  /\ At(t, "start")
  /\ LET kind == starting[t].kind
         s    == [sock EXCEPT !.generation = starting[t].gen,
                              !.tcpOpen = @ \/ kind = "connect"]
     IN  /\ sock' = [Start(s, kind) EXCEPT !.generation = sock.generation]
         /\ queueMutex' = IF kind = "write" THEN "free" ELSE queueMutex
  /\ Go(t, starting[t].then)
  /\ starting' = [starting EXCEPT ![t] = Idle]
  /\ UNCHANGED <<stopped, handling, failing, expected, rounds>>

----------------------------------------------------------------------------
(* checkWriting                                                            *)

LockQueue(t) ==
  /\ At(t, "cw_lock")
  /\ queueMutex = "free"
  /\ queueMutex' = t
  /\ Go(t, "cw_state")
  /\ UNCHANGED <<sock, stopped, locals>>

TestState(t) ==
  /\ At(t, "cw_state")
  /\ IF sock.state \in {"CONNECTED", "DISCONNECT_REQUESTED"}
     THEN Go(t, "cw_flag") /\ UNCHANGED queueMutex
     ELSE Go(t, Back(t)) /\ queueMutex' = "free"
  /\ UNCHANGED <<sock, stopped, locals>>

TestWriting(t) ==
  /\ At(t, "cw_flag")
  /\ IF ~sock.writing /\ sock.writeQueue # << >>
     THEN Go(t, "cw_set") /\ UNCHANGED queueMutex
     ELSE Go(t, Back(t)) /\ queueMutex' = "free"
  /\ UNCHANGED <<sock, stopped, locals>>

\* Faulty: the write is not marked.
TakeMessage_NoMark(t) ==
  /\ At(t, "cw_set")
  /\ sock' = [sock EXCEPT !.writeQueue = Tail(@),
                          !.messageToWrite = Head(sock.writeQueue).id]
  /\ Starts(t, "write", Back(t))
  /\ UNCHANGED <<queueMutex, stopped, handling, failing, expected, rounds>>

\* Faulty: the message stays in the queue.
TakeMessage_NoPop(t) ==
  /\ At(t, "cw_set")
  /\ sock' = [sock EXCEPT !.writing = TRUE,
                          !.messageToWrite = Head(sock.writeQueue).id]
  /\ Starts(t, "write", Back(t))
  /\ UNCHANGED <<queueMutex, stopped, handling, failing, expected, rounds>>

TakeMessage(t) ==
  /\ At(t, "cw_set")
  /\ sock' = [sock EXCEPT !.writing = TRUE,
                          !.writeQueue = Tail(@),
                          !.messageToWrite = Head(sock.writeQueue).id]
  /\ Starts(t, "write", Back(t))
  /\ UNCHANGED <<queueMutex, stopped, handling, failing, expected, rounds>>

CheckWriting(t) == \/ LockQueue(t) \/ TestState(t) \/ TestWriting(t)
                   \/ TakeMessage(t)

----------------------------------------------------------------------------
(* closeNow and errorConnection: setDisconnectingCAS, then doClose.        *)

LoadState(t) ==
  /\ At(t, "sd_load")
  /\ IF sock.state \in {"DISCONNECTED", "DISCONNECTING"}
     THEN Go(t, Back(t)) /\ failing' = (failing /\ t # "io")
                         /\ UNCHANGED expected
     ELSE Go(t, "sd_cas") /\ expected' = [expected EXCEPT ![t] = sock.state]
                          /\ UNCHANGED failing
  /\ UNCHANGED <<sock, queueMutex, stopped, handling, starting, rounds>>

Proceed(t) == Go(t, IF t = "io" /\ failing THEN "put_error" ELSE "dc_gen")

\* Faulty: stores the new state whatever the old one is.
ExchangeState_Store(t) ==
  /\ At(t, "sd_cas")
  /\ expected' = [expected EXCEPT ![t] = "DISCONNECTED"]
  /\ sock' = [sock EXCEPT !.state = "DISCONNECTING"]
  /\ Proceed(t)
  /\ UNCHANGED <<queueMutex, stopped, handling, failing, starting, rounds>>

ExchangeState(t) ==
  /\ At(t, "sd_cas")
  /\ expected' = [expected EXCEPT ![t] = "DISCONNECTED"]
  /\ IF sock.state = expected[t]
     THEN sock' = [sock EXCEPT !.state = "DISCONNECTING"] /\ Proceed(t)
     ELSE UNCHANGED sock /\ Go(t, "sd_again")
  /\ UNCHANGED <<queueMutex, stopped, handling, failing, starting, rounds>>

\* Faulty: gives up.
TryAgain_GivesUp(t) ==
  /\ At(t, "sd_again")
  /\ Go(t, Back(t)) /\ failing' = (failing /\ t # "io")
  /\ UNCHANGED <<sock, queueMutex, stopped, handling, expected, starting,
                 rounds>>

\* Faulty: a loop around the exchange, which does not load the state again.
TryAgain_NoReload(t) ==
  /\ At(t, "sd_again")
  /\ IF sock.state \in {"CONNECTED", "CONNECTING"}
     THEN Go(t, "sd_cas") /\ expected' = [expected EXCEPT ![t] = "CONNECTING"]
                          /\ UNCHANGED failing
     ELSE Go(t, Back(t)) /\ failing' = (failing /\ t # "io")
                         /\ UNCHANGED expected
  /\ UNCHANGED <<sock, queueMutex, stopped, handling, starting, rounds>>

TryAgain(t) ==
  /\ At(t, "sd_again")
  /\ IF sock.state \in {"CONNECTED", "CONNECTING"}
     THEN Go(t, "sd_load") /\ UNCHANGED failing
     ELSE Go(t, Back(t)) /\ failing' = (failing /\ t # "io")
  /\ UNCHANGED <<sock, queueMutex, stopped, handling, expected, starting,
                 rounds>>

PutError(t) ==
  /\ At(t, "put_error")
  /\ sock' = put(sock, "IN_ERROR", {})
  /\ failing' = FALSE
  /\ Go(t, "dc_gen")
  /\ UNCHANGED <<queueMutex, stopped, handling, expected, starting, rounds>>

\* One assignment of doClose, which turns the socket into s.
CloseStep(t, label, s, next) ==
  /\ At(t, label)
  /\ sock' = s
  /\ Go(t, next)
  /\ UNCHANGED <<queueMutex, stopped, locals>>

DoClose(t) ==
  \/ CloseStep(t, "dc_gen", [sock EXCEPT !.generation = @ + 1], "dc_close")
  \/ CloseStep(t, "dc_close", closeSocket(sock), "dc_clear")
  \/ queueMutex = "free"
     /\ CloseStep(t, "dc_clear", clearQueue(sock), "dc_state")
  \/ CloseStep(t, "dc_state", [sock EXCEPT !.state = "DISCONNECTED",
                                           !.established = FALSE],
               "dc_writing")
  \/ CloseStep(t, "dc_writing", [sock EXCEPT !.writing = FALSE], "dc_put")
  \/ CloseStep(t, "dc_put", put(sock, "IN_DISCONNECTED", {}), Back(t))

CloseConnection(t) == \/ LoadState(t) \/ ExchangeState(t) \/ TryAgain(t)
                      \/ PutError(t) \/ DoClose(t)

----------------------------------------------------------------------------
(* runIOThread and the handlers.                                           *)

\* An operation completes: with success only on an open connection of its
\* own stream (as in module GWSocket).
RunOne ==
  /\ At("io", "idle") /\ ~stopped
  /\ \E op \in sock.pending, ec \in Outcomes :
       /\ ec = "ok" /\ op.kind # "resolve" =>
            op.stream = sock.stream /\ sock.tcpOpen
       /\ ec = "ok" /\ op.kind = "read" => Len(sock.messageQueue) < MaxInbox
       /\ sock' = Completed(sock, op)
       /\ handling' = [op |-> op, ec |-> ec]
  /\ Go("io", "guard")
  /\ UNCHANGED <<queueMutex, stopped, failing, expected, starting, rounds>>

\* run() returns when there is no work left, or after stop().
RunEnds ==
  /\ At("io", "idle")
  /\ stopped \/ sock.pending = {}
  /\ stopped' = TRUE
  /\ Go("io", "end")
  /\ UNCHANGED <<sock, queueMutex, locals>>

\* Where the handler of an operation begins if there was no error.
Handler == [resolve       |-> "reset",   connect   |-> "connected",
            ssl_handshake |-> "secured", handshake |-> "hs_cas",
            read          |-> "rd_put",  write     |-> "wr_reset"]

Guard ==
  /\ At("io", "guard")
  /\ LET op == handling.op
         ec == handling.ec
     IN  IF sock.generation # op.gen
         THEN Go("io", "idle") /\ UNCHANGED failing
         ELSE IF ec = "ok"
              THEN Go("io", Handler[op.kind]) /\ UNCHANGED failing
              ELSE /\ Go("io", "sd_load")
                   /\ failing' = ~(ec = "closed" /\ op.kind \in {"read", "write"})
  /\ handling' = NotHandled
  /\ UNCHANGED <<sock, queueMutex, stopped, expected, starting, rounds>>

\* The verification callback, from inside the TLS handshake.
VerifyFails ==
  /\ At("io", "idle") /\ ~stopped
  /\ "error" \in Outcomes
  /\ \E op \in sock.pending : op.kind = "ssl_handshake"
                              /\ op.stream = sock.stream
  /\ failing' = TRUE
  /\ Go("io", "sd_load")
  /\ UNCHANGED <<sock, queueMutex, stopped, handling, expected, starting,
                 rounds>>

\* asyncConnect: a new stream, whose TLS parameters are accepted or not.
HostResolved ==
  /\ At("io", "reset")
  /\ sock' = resetWS(sock)
  /\ \/ Starts("io", "connect", "idle") /\ UNCHANGED failing
     \/ /\ "error" \in Outcomes
        /\ Go("io", "sd_load") /\ failing' = TRUE /\ UNCHANGED starting
  /\ UNCHANGED <<queueMutex, stopped, handling, expected, rounds>>

Continue(label, kind) ==
  /\ At("io", label)
  /\ Starts("io", kind, "idle")
  /\ UNCHANGED <<sock, queueMutex, stopped, handling, failing, expected,
                 rounds>>

SocketConnected      == Continue("connected", "ssl_handshake")
SSLHandshakeComplete == Continue("secured", "handshake")

HandshakeCompleted ==
  /\ At("io", "hs_cas")
  /\ IF sock.state = "CONNECTING"
     THEN /\ sock' = [sock EXCEPT !.state = "CONNECTED", !.established = TRUE]
          /\ Go("io", "hs_put")
     ELSE UNCHANGED sock /\ Go("io", "sd_load")
  /\ UNCHANGED <<queueMutex, stopped, locals>>

PutConnected ==
  /\ At("io", "hs_put")
  /\ sock' = put(sock, "IN_CONNECTED", {})
  /\ Starts("io", "read", "cw_lock")
  /\ UNCHANGED <<queueMutex, stopped, handling, failing, expected, rounds>>

OnRead ==
  /\ At("io", "rd_put")
  /\ sock' = put(sock, "IN_MESSAGE", {sock.generation})
  /\ Starts("io", "read", "idle")
  /\ UNCHANGED <<queueMutex, stopped, handling, failing, expected, rounds>>

\* Faulty: leaves the queue to the next write().
OnWrite_Stops ==
  /\ At("io", "wr_reset")
  /\ sock' = [sock EXCEPT !.writing = FALSE,
                          !.sent = Append(@, sock.messageToWrite)]
  /\ Go("io", "idle")
  /\ UNCHANGED <<queueMutex, stopped, locals>>

OnWrite ==
  /\ At("io", "wr_reset")
  /\ sock' = [sock EXCEPT !.writing = FALSE,
                          !.sent = Append(@, sock.messageToWrite)]
  /\ Go("io", "cw_lock")
  /\ UNCHANGED <<queueMutex, stopped, locals>>

----------------------------------------------------------------------------
(* sendMessages and main.                                                  *)

SenderLoop ==
  /\ At("sender", "idle")
  /\ IF stopped THEN Go("sender", "end")
                ELSE sock.written < MaxWrites /\ Go("sender", "push")
  /\ UNCHANGED <<sock, queueMutex, stopped, locals>>

PushMessage ==
  /\ At("sender", "push")
  /\ queueMutex = "free"
  /\ LET id == sock.written + 1
     IN  sock' = [sock EXCEPT
                    !.written    = id,
                    !.writeQueue = Append(@, [type |-> "OUT_MESSAGE",
                                              id |-> id])]
  /\ Go("sender", "cw_lock")
  /\ UNCHANGED <<queueMutex, stopped, locals>>

MainLoop ==
  /\ At("main", "loop")
  /\ IF rounds < Rounds
     THEN /\ rounds' = rounds + 1
          /\ sock' = [sock EXCEPT !.messageQueue = << >>]
          /\ UNCHANGED pc
     ELSE Go("main", "sd_load") /\ UNCHANGED <<sock, rounds>>
  /\ UNCHANGED <<queueMutex, stopped, handling, failing, expected, starting>>

MainStops ==
  /\ At("main", "stop")
  /\ stopped' = TRUE
  /\ Go("main", "join")
  /\ UNCHANGED <<sock, queueMutex, locals>>

MainJoins ==
  /\ At("main", "join")
  /\ At("io", "end") /\ At("sender", "end")
  /\ Go("main", "end")
  /\ UNCHANGED <<sock, queueMutex, stopped, locals>>

----------------------------------------------------------------------------

IO == \/ RunEnds \/ Guard \/ HostResolved \/ SocketConnected
      \/ SSLHandshakeComplete \/ HandshakeCompleted \/ PutConnected
      \/ OnRead \/ OnWrite
      \/ Capture("io") \/ StartOperation("io")
      \/ CheckWriting("io") \/ CloseConnection("io")

Sender == \/ SenderLoop \/ PushMessage
          \/ Capture("sender") \/ StartOperation("sender")
          \/ CheckWriting("sender")

Main == MainLoop \/ MainStops \/ MainJoins \/ CloseConnection("main")

Next == RunOne \/ VerifyFails \/ IO \/ Sender \/ Main

Spec == Init /\ [][Next]_vars

\* Fairness, for liveness only: a thread that can go on does.  Nothing is
\* assumed of the network and the server.
FairSpec == /\ Spec
            /\ WF_vars(IO) /\ WF_vars(Sender) /\ WF_vars(Main)

----------------------------------------------------------------------------
(* Properties.                                                             *)

\* However closeNow() of main and a failing handler of io meet, one of them
\* closes the connection and the other leaves it alone: doClose runs once,
\* and one IN_DISCONNECTED is put.
OneDisconnect == sock.generation <= 2

\* When the program is over the connection was closed, also if the handshake
\* completed while closeNow() was looking at the state, and no thread left
\* the mark of a write behind.
EndsDisconnected ==
  (\A t \in Thread : At(t, "end")) =>
    /\ sock.state = "DISCONNECTED"
    /\ sock.generation = 2
    /\ ~sock.writing

\* write() of the sender and the end of a write on io never hand a second
\* message to the stream while one is under way, although onWrite() resets
\* `writing` without the lock.
OneWriteAtATime ==
  /\ ~sock.overlap
  /\ \A op1, op2 \in sock.pending :
       /\ op1.kind = "write" /\ op2.kind = "write"
       /\ op1.stream = op2.stream
       => op1 = op2

\* No wake-up is lost: when neither thread is inside a function of the
\* socket, a message that waits on a connected socket waits for a write that
\* is under way.
QueueAttended ==
  /\ At("io", "idle") /\ At("sender", "idle")
  /\ sock.state = "CONNECTED" /\ sock.writeQueue # << >>
  => \E op \in Current(sock) : op.kind = "write"

\* Messages go out in the order of the write() calls and at most once, and
\* none is lost before the connection is closed: those acknowledged, the one
\* that is being written and those queued are all that were ever written,
\* whichever of the two threads takes a message off the queue.
SentInOrder ==
  LET queue == sock.writeQueue
  IN  /\ \A i \in DOMAIN sock.sent : sock.sent[i] = i
      /\ sock.state \in {"CONNECTING", "CONNECTED"} =>
           /\ sock.written = Len(sock.sent) + (IF sock.writing THEN 1 ELSE 0)
                               + Len(queue)
           /\ \A i \in DOMAIN queue :
                queue[i].id = sock.written - Len(queue) + i

\* Whatever the network does, every thread comes to its end: none waits for a
\* lock for ever, or retries the exchange of the state for ever.
ThreadsEnd == <>(\A t \in Thread : At(t, "end"))

\* GWSocket.cpp: doClose() "closes the connection immediately", and
\* handshakeCompleted() makes sure that a socket closed elsewhere is
\* "definitely closed".  A disconnected socket on which nothing is going on
\* has no open connection, given that no operation fails.
DefinitelyClosed ==
  /\ At("io", "idle") /\ sock.pending = {}
  /\ sock.state = "DISCONNECTED"
  => ~sock.tcpOpen
=============================================================================
