------------------------ MODULE SocketThreadsProofs ------------------------
(***************************************************************************)
(* Proofs about module SocketThreads, for any number of rounds, writes and *)
(* received messages.  The inductive invariant TInv says who may be where  *)
(* while the connection is in which state.                                 *)
(***************************************************************************)
EXTENDS SocketThreads, TLAPS

----------------------------------------------------------------------------
(* The labels at which each thread can be.                                 *)

CasLabel   == {"sd_load", "sd_cas", "sd_again"}
CloseLabel == {"dc_gen", "dc_close", "dc_clear", "dc_state", "dc_writing",
               "dc_put"}
QueueLabel == {"cw_lock", "cw_state", "cw_flag", "cw_set"}
OpLabel    == {"capture", "start"}

IOLabel     == CasLabel \cup CloseLabel \cup QueueLabel \cup OpLabel \cup
               {"idle", "guard", "reset", "connected", "secured", "hs_cas",
                "hs_put", "rd_put", "wr_reset", "put_error", "end"}
SenderLabel == QueueLabel \cup OpLabel \cup {"idle", "push", "end"}
MainLabel   == CasLabel \cup CloseLabel \cup {"loop", "stop", "join", "end"}
Label       == IOLabel \cup SenderLabel \cup MainLabel

Started == Incoming \cup {"write"}
Task    == [kind : Started, gen : Nat, then : {"none", "idle", "cw_lock"}]

Types ==
  /\ sock \in Socket
  /\ queueMutex \in Thread \cup {"free"}
  /\ pc \in [Thread -> Label]
  /\ pc["io"] \in IOLabel /\ pc["sender"] \in SenderLabel
  /\ pc["main"] \in MainLabel
  /\ handling \in [op : Op, ec : ErrorCode]
  /\ handling.op.kind \in Started
  /\ starting \in [Thread -> Task]
  /\ expected \in [Thread -> SocketState]
  /\ \A op \in sock.pending : op.kind \in Started

----------------------------------------------------------------------------
(* The inductive invariant.                                                *)

\* From the exchange of the state to its last store.
Closer(t) == pc[t] \in {"put_error", "dc_gen", "dc_close", "dc_clear",
                        "dc_state"}

\* One thread at a time closes, and the generation tells how far it is; a
\* thread that has left closeNow() leaves a connection that somebody closes.
Closing ==
  /\ sock.state # "DISCONNECT_REQUESTED"
  /\ sock.state = "DISCONNECTING" => \E t \in Thread : Closer(t)
  /\ \A t \in Thread : Closer(t) => sock.state = "DISCONNECTING"
  /\ \A t, u \in Thread : Closer(t) /\ Closer(u) => t = u
  /\ sock.state \in {"CONNECTING", "CONNECTED"} => sock.generation = 1
  /\ sock.state = "DISCONNECTED" => sock.generation = 2
  /\ \A t \in Thread : Closer(t) =>
       sock.generation = IF pc[t] \in {"put_error", "dc_gen"} THEN 1 ELSE 2
  /\ \A t \in Thread : pc[t] = "sd_cas" =>
       expected[t] \in {"CONNECTING", "CONNECTED"}
  /\ \A t \in Thread : pc[t] \in {"dc_writing", "dc_put"} =>
       sock.state = "DISCONNECTED"
  /\ pc["main"] \in {"stop", "join", "end"} =>
       sock.state \in {"DISCONNECTING", "DISCONNECTED"}

Starting(t, kinds) == pc[t] \in OpLabel /\ starting[t].kind \in kinds

\* Between the test of the state and the release of the lock.
Writer(t) == pc[t] \in {"cw_flag", "cw_set"} \/ Starting(t, {"write"})

\* The lock protects the queue and the decision to write: doClose() cannot
\* pass dc_clear while a writer has it.
Locking ==
  /\ \A t \in Thread : Writer(t) \/ pc[t] = "cw_state" => queueMutex = t
  /\ \A t \in Thread : Writer(t) =>
       sock.state \in {"CONNECTED", "DISCONNECTING"}
  /\ \A t, u \in Thread : pc[t] = "dc_state" => ~Writer(u)
  /\ \A t \in Thread : pc[t] = "cw_set" =>
       ~sock.writing /\ sock.writeQueue # << >>
  /\ pc["sender"] \in OpLabel =>
       starting["sender"].kind = "write" /\ starting["sender"].then = "idle"
  /\ pc["io"] \in OpLabel =>
       starting["io"].then \in {"idle", "cw_lock"}

Pending(kinds) == {op \in sock.pending : op.kind \in kinds}

\* io owns the incoming half of the stream.
Receiver ==
  \/ pc["io"] = "guard" /\ handling.op.kind \in Incoming
  \/ pc["io"] \in {"reset", "connected", "secured", "hs_cas", "hs_put",
                   "rd_put"}
  \/ Starting("io", Incoming)

\* One incoming operation: pending, or on its way through a handler of io.
OneIncoming ==
  /\ \A op1, op2 \in Pending(Incoming) : op1 = op2
  /\ Receiver => Pending(Incoming) = {}

\* io has the end of a write in its hands.
WriteEnds == \/ pc["io"] = "guard" /\ handling.op.kind = "write"
             \/ pc["io"] = "wr_reset"

WriteStarts(t) == Starting(t, {"write"})

\* One write: being started, pending, or at its end.
OneWrite ==
  /\ \A op1, op2 \in Pending({"write"}) : op1 = op2
  /\ WriteEnds => Pending({"write"}) = {} /\ \A t \in Thread : ~WriteStarts(t)
  /\ \A t \in Thread : WriteStarts(t) => Pending({"write"}) = {}
  /\ ~sock.overlap

UnderWay == \/ Pending({"write"}) # {} \/ WriteEnds
            \/ \E t \in Thread : WriteStarts(t)

\* `writing` and the write that is under way agree, except while a failed
\* write closes the connection and after it is closed.
Marking ==
  /\ UnderWay => sock.writing \/ sock.state = "DISCONNECTED"
  /\ sock.writing => sock.state # "CONNECTING"
  /\ sock.writing /\ sock.state = "CONNECTED" =>
       UnderWay \/ pc["io"] \in CasLabel
  /\ sock.writing /\ sock.state = "DISCONNECTED" =>
       \E t \in Thread : pc[t] = "dc_writing"

\* Captured generations are those of connections that were opened.
Generations ==
  /\ \A op \in sock.pending : op.gen \in 1 .. sock.generation
  /\ pc["io"] = "guard" => handling.op.gen \in 1 .. sock.generation
  /\ \A t \in Thread : pc[t] = "start" =>
       starting[t].gen \in 1 .. sock.generation

\* Somebody will look at the queue.
Attendant == \/ UnderWay
             \/ pc["io"] \in CasLabel \cup {"hs_put"}
             \/ Starting("io", {"read"}) /\ starting["io"].then = "cw_lock"
             \/ \E t \in Thread : pc[t] \in QueueLabel

\* The part that QueueAttended rests on.
Attended ==
  sock.state = "CONNECTED" /\ sock.writeQueue # << >> => Attendant

\* The connection is being made.
Connecting == \/ Pending(ConnectPhase) # {}
              \/ pc["io"] = "guard" /\ handling.op.kind \in ConnectPhase
              \/ pc["io"] \in {"reset", "connected", "secured", "hs_cas"}
              \/ Starting("io", ConnectPhase)

\* Nothing is taken off the queue before the handshake has completed, so
\* that resetWS() meets a stream to which nothing was written.
Untouched ==
  Connecting => /\ sock.state # "CONNECTED" /\ ~UnderWay
                /\ \A t \in Thread : ~Writer(t)
                /\ sock.messageToWrite = 0 /\ sock.sent = << >>

\* doClose() has not cleared the queue.
Kept == sock.state # "DISCONNECTED" /\ \A t \in Thread : pc[t] # "dc_state"

\* The messages acknowledged, the one being written and those queued have
\* the numbers from 1 to `written`, in this order.
Counted ==
  /\ \A i \in DOMAIN sock.sent : sock.sent[i] = i
  /\ UnderWay => sock.messageToWrite = Len(sock.sent) + 1
  /\ Kept =>
       /\ sock.messageToWrite = Len(sock.sent) + IF sock.writing THEN 1 ELSE 0
       /\ sock.written = sock.messageToWrite + Len(sock.writeQueue)
       /\ \A i \in DOMAIN sock.writeQueue :
            sock.writeQueue[i].id = sock.messageToWrite + i

TInv == /\ Types /\ Closing /\ Locking /\ OneIncoming /\ OneWrite
        /\ Marking /\ Generations /\ Attended /\ Untouched /\ Counted

USE DEF Thread, Label, IOLabel, SenderLabel, MainLabel, CasLabel, CloseLabel,
        QueueLabel, OpLabel, Closer, Starting, Writer, Pending, Receiver,
        WriteEnds, WriteStarts, UnderWay, Attendant

----------------------------------------------------------------------------
(* What the assignments of the actions do.                                 *)

\* What the socket becomes, in the fields that the invariant reads.
Becomes(state, generation, writing, queue, pending, overlap) ==
  /\ sock' \in Socket
  /\ sock'.state = state /\ sock'.generation = generation
  /\ sock'.writing = writing /\ sock'.writeQueue = queue
  /\ sock'.pending = pending /\ sock'.overlap = overlap

\* No message is written, taken off the queue or acknowledged.
SameMail == /\ sock'.sent = sock.sent /\ sock'.written = sock.written
            /\ sock'.messageToWrite = sock.messageToWrite

\* A thread goes to a label, the others stay.
LEMMA GoEffect ==
  ASSUME Types, NEW t \in Thread, NEW l \in Label, Go(t, l)
  PROVE  /\ pc' \in [Thread -> Label] /\ pc'[t] = l
         /\ \A u \in Thread : u # t => pc'[u] = pc[u]
BY DEF Types, Go

\* A thread is about to start an operation.
LEMMA StartsEffect ==
  ASSUME Types, NEW t \in Thread, NEW kind \in Started,
         NEW then \in {"none", "idle", "cw_lock"}, Starts(t, kind, then)
  PROVE  /\ pc' \in [Thread -> Label] /\ pc'[t] = "capture"
         /\ \A u \in Thread : u # t => pc'[u] = pc[u]
         /\ starting' \in [Thread -> Task]
         /\ starting'[t].kind = kind /\ starting'[t].then = then
         /\ \A u \in Thread : u # t => starting'[u] = starting[u]
<1>1. starting' = [starting EXCEPT ![t] = [kind |-> kind, gen |-> 0,
                                           then |-> then]]
  BY DEF Starts
<1>2. [kind |-> kind, gen |-> 0, then |-> then] \in Task
  BY DEF Task
<1>3. Go(t, "capture") /\ "capture" \in Label
  BY DEF Starts
<1> QED
  BY <1>1, <1>2, <1>3, GoEffect DEF Types

LEMMA StateEffect ==
  ASSUME sock \in Socket, NEW state \in SocketState,
         sock' = [sock EXCEPT !.state = state]
  PROVE  /\ Becomes(state, sock.generation, sock.writing,
                    sock.writeQueue, sock.pending, sock.overlap)
         /\ SameMail
BY DEF Becomes, SameMail, Socket

LEMMA EstablishedEffect ==
  ASSUME sock \in Socket, NEW state \in SocketState, NEW b \in BOOLEAN,
         sock' = [sock EXCEPT !.state = state, !.established = b]
  PROVE  /\ Becomes(state, sock.generation, sock.writing,
                    sock.writeQueue, sock.pending, sock.overlap)
         /\ SameMail
BY DEF Becomes, SameMail, Socket

LEMMA GenEffect ==
  ASSUME sock \in Socket,
         sock' = [sock EXCEPT !.generation = @ + 1]
  PROVE  /\ Becomes(sock.state, sock.generation + 1, sock.writing,
                    sock.writeQueue, sock.pending, sock.overlap)
         /\ SameMail
<1> DEFINE g == sock.generation + 1
<1>1. g \in Nat
  BY DEF Socket
<1>2. sock' = [sock EXCEPT !.generation = g]
  BY DEF Socket
<1> HIDE DEF g
<1>3. /\ Becomes(sock.state, g, sock.writing,
                    sock.writeQueue, sock.pending, sock.overlap)
      /\ SameMail
  BY <1>1, <1>2 DEF Becomes, SameMail, Socket
<1> QED
  BY <1>3 DEF g

LEMMA WritingEffect ==
  ASSUME sock \in Socket, sock' = [sock EXCEPT !.writing = FALSE]
  PROVE  /\ Becomes(sock.state, sock.generation, FALSE,
                    sock.writeQueue, sock.pending, sock.overlap)
         /\ SameMail
BY DEF Becomes, SameMail, Socket

LEMMA ClearEffect ==
  ASSUME sock \in Socket,
         sock' = clearQueue(sock)
  PROVE  /\ Becomes(sock.state, sock.generation, sock.writing,
                    << >>, sock.pending, sock.overlap)
         /\ SameMail
<1> DEFINE q == << >>
<1>1. q \in Seq(OutMessage)
  BY DEF Socket
<1>2. sock' = [sock EXCEPT !.writeQueue = q]
  BY DEF clearQueue
<1> HIDE DEF q
<1>3. /\ Becomes(sock.state, sock.generation, sock.writing,
                    q, sock.pending, sock.overlap)
      /\ SameMail
  BY <1>1, <1>2 DEF Becomes, SameMail, Socket
<1> QED
  BY <1>3 DEF q

LEMMA CloseSocketEffect ==
  ASSUME sock \in Socket, sock' = closeSocket(sock)
  PROVE  /\ Becomes(sock.state, sock.generation, sock.writing, sock.writeQueue,
                    sock.pending, sock.overlap)
         /\ SameMail
<1>1. CASE sock' = sock
  BY <1>1 DEF Becomes, SameMail
<1>2. CASE sock' = [sock EXCEPT !.tcpOpen = FALSE]
  BY <1>2 DEF Becomes, SameMail, Socket
<1> QED
  BY <1>1, <1>2 DEF closeSocket

LEMMA InboxEffect ==
  ASSUME sock \in Socket,
         sock' = [sock EXCEPT !.messageQueue = << >>]
  PROVE  /\ Becomes(sock.state, sock.generation, sock.writing, sock.writeQueue,
                    sock.pending, sock.overlap)
         /\ SameMail
<1> DEFINE q == << >>
<1>1. q \in Seq(InMessage)
  BY DEF Socket
<1>2. sock' = [sock EXCEPT !.messageQueue = q]
  BY DEF Socket
<1> HIDE DEF q
<1>3. /\ Becomes(sock.state, sock.generation, sock.writing, sock.writeQueue,
                    sock.pending, sock.overlap)
      /\ SameMail
  BY <1>1, <1>2 DEF Becomes, SameMail, Socket
<1> QED
  BY <1>3 DEF q

LEMMA ResetEffect ==
  ASSUME sock \in Socket,
         sock' = resetWS(sock)
  PROVE  /\ Becomes(sock.state, sock.generation, sock.writing, sock.writeQueue,
                    sock.pending, sock.overlap)
         /\ sock'.sent = << >> /\ sock'.written = sock.written
         /\ sock'.messageToWrite = sock.messageToWrite
<1> DEFINE g == sock.generation
           q == << >>
<1>1. g \in Nat /\ q \in Seq(Nat)
  BY DEF Socket
<1>2. sock' = [sock EXCEPT !.stream = g, !.tcpOpen = FALSE, !.sent = q]
  BY DEF resetWS
<1> HIDE DEF g, q
<1>3. /\ Becomes(sock.state, sock.generation, sock.writing, sock.writeQueue,
                 sock.pending, sock.overlap)
      /\ sock'.sent = q /\ sock'.written = sock.written
      /\ sock'.messageToWrite = sock.messageToWrite
  BY <1>1, <1>2 DEF Becomes, Socket
<1> QED
  BY <1>3 DEF g, q

LEMMA PutSame ==
  ASSUME sock \in Socket, NEW gens \in SUBSET Nat,
         NEW type \in {"IN_CONNECTED", "IN_MESSAGE", "IN_ERROR",
                       "IN_DISCONNECTED"},
         sock' = put(sock, type, gens)
  PROVE  /\ Becomes(sock.state, sock.generation, sock.writing, sock.writeQueue,
                    sock.pending, sock.overlap)
         /\ SameMail
<1> DEFINE m == [type |-> type, gens |-> gens]
           q == Append(sock.messageQueue, m)
<1>1. m \in InMessage /\ sock.messageQueue \in Seq(InMessage)
  BY DEF InMessage, Socket
<1>2. q \in Seq(InMessage)
  BY <1>1
<1>3. sock' = [sock EXCEPT !.messageQueue = q]
  BY DEF put
<1> HIDE DEF q
<1> QED
  BY <1>2, <1>3 DEF Becomes, SameMail, Socket

LEMMA SentEffect ==
  ASSUME sock \in Socket,
         sock' = [sock EXCEPT !.writing = FALSE,
                               !.sent = Append(@, sock.messageToWrite)]
  PROVE  /\ Becomes(sock.state, sock.generation, FALSE,
                    sock.writeQueue, sock.pending, sock.overlap)
         /\ sock'.sent = Append(sock.sent, sock.messageToWrite)
         /\ sock'.written = sock.written
         /\ sock'.messageToWrite = sock.messageToWrite
<1> DEFINE q == Append(sock.sent, sock.messageToWrite)
<1>1. q \in Seq(Nat)
  BY DEF Socket
<1>2. sock' = [sock EXCEPT !.writing = FALSE, !.sent = q]
  BY DEF Socket
<1> HIDE DEF q
<1>3. /\ Becomes(sock.state, sock.generation, FALSE,
                 sock.writeQueue, sock.pending, sock.overlap)
      /\ sock'.sent = q /\ sock'.written = sock.written
      /\ sock'.messageToWrite = sock.messageToWrite
  BY <1>1, <1>2 DEF Becomes, Socket
<1> QED
  BY <1>3 DEF q

LEMMA PushEffect ==
  ASSUME sock \in Socket, NEW id, id = sock.written + 1,
         sock' = [sock EXCEPT
                    !.written    = id,
                    !.writeQueue = Append(@, [type |-> "OUT_MESSAGE",
                                              id |-> id])]
  PROVE  /\ sock'.writeQueue # << >>
         /\ sock'.writeQueue = Append(sock.writeQueue,
                                       [type |-> "OUT_MESSAGE", id |-> id])
         /\ sock'.written = id /\ sock'.sent = sock.sent
         /\ sock'.messageToWrite = sock.messageToWrite
         /\ Becomes(sock.state, sock.generation, sock.writing,
                    sock'.writeQueue, sock.pending, sock.overlap)
<1> DEFINE q == Append(sock.writeQueue, [type |-> "OUT_MESSAGE", id |-> id])
<1>1. id \in Nat /\ sock.writeQueue \in Seq(OutMessage)
  BY DEF Socket
<1>2. [type |-> "OUT_MESSAGE", id |-> id] \in OutMessage
  BY <1>1 DEF OutMessage
<1>3. q \in Seq(OutMessage) /\ q # << >>
  BY <1>1, <1>2
<1>4. sock' = [sock EXCEPT !.written = id, !.writeQueue = q]
  OBVIOUS
<1> HIDE DEF q
<1>5. /\ Becomes(sock.state, sock.generation, sock.writing, q, sock.pending,
                 sock.overlap)
      /\ sock'.writeQueue = q /\ sock'.written = id
      /\ sock'.sent = sock.sent
      /\ sock'.messageToWrite = sock.messageToWrite
  BY <1>1, <1>3, <1>4 DEF Becomes, Socket
<1> QED
  BY <1>3, <1>5 DEF q

LEMMA TakeEffect ==
  ASSUME sock \in Socket, sock.writeQueue # << >>,
         sock' = [sock EXCEPT !.writing = TRUE,
                              !.writeQueue = Tail(@),
                              !.messageToWrite = Head(sock.writeQueue).id]
  PROVE  /\ Becomes(sock.state, sock.generation, TRUE,
                    Tail(sock.writeQueue), sock.pending, sock.overlap)
         /\ sock'.sent = sock.sent /\ sock'.written = sock.written
         /\ sock'.messageToWrite = Head(sock.writeQueue).id
<1> DEFINE q == Tail(sock.writeQueue)
           m == Head(sock.writeQueue)
<1>1. sock.writeQueue \in Seq(OutMessage)
  BY DEF Socket
<1>2. q \in Seq(OutMessage) /\ m \in OutMessage
  BY <1>1
<1>3. m.id \in Nat
  BY <1>2 DEF OutMessage
<1>4. sock' = [sock EXCEPT !.writing = TRUE, !.writeQueue = q,
                           !.messageToWrite = m.id]
  OBVIOUS
<1> HIDE DEF q, m
<1>5. /\ Becomes(sock.state, sock.generation, TRUE, q, sock.pending,
                 sock.overlap)
      /\ sock'.sent = sock.sent /\ sock'.written = sock.written
      /\ sock'.messageToWrite = m.id
  BY <1>2, <1>3, <1>4 DEF Becomes, Socket
<1> QED
  BY <1>5 DEF q, m

LEMMA CompletedEffects ==
  ASSUME sock \in Socket, NEW op, sock' = Completed(sock, op)
  PROVE  /\ Becomes(sock.state, sock.generation, sock.writing, sock.writeQueue,
                    sock.pending \ {op}, sock.overlap)
         /\ SameMail
BY DEF Becomes, SameMail, Socket, Completed

LEMMA StartEffects ==
  ASSUME Types, NEW t \in Thread, StartOperation(t)
  PROVE  LET op == [kind |-> starting[t].kind, gen |-> starting[t].gen,
                    stream |-> sock.stream]
         IN  /\ op \in Op
             /\ Becomes(sock.state, sock.generation, sock.writing,
                        sock.writeQueue, sock.pending \cup {op},
                        sock.overlap \/
                          \E o \in sock.pending :
                            o.gen = op.gen /\ Conflicts(o.kind, op.kind))
             /\ SameMail
<1> DEFINE k  == starting[t].kind
           g  == starting[t].gen
           s  == [sock EXCEPT !.generation = g,
                              !.tcpOpen = @ \/ k = "connect"]
           op == [kind |-> k, gen |-> g, stream |-> sock.stream]
           o1 == sock.overlap \/ \E o \in sock.pending :
                                    o.gen = g /\ Conflicts(o.kind, k)
           c1 == sock.crashed \/ (k # "resolve" /\ sock.stream = 0)
           p1 == sock.pending \cup {op}
<1>1. k \in OpKind /\ g \in Nat /\ sock.stream \in Nat
  BY DEF Types, Task, Started, Incoming, OpKind, Socket
<1>2. op \in Op
  BY <1>1 DEF Op
<1>3. p1 \subseteq Op /\ o1 \in BOOLEAN /\ c1 \in BOOLEAN
  BY <1>2 DEF Types, Socket
<1>4. sock' = [Start(s, k) EXCEPT !.generation = sock.generation]
  BY DEF StartOperation
<1>5. s.pending = sock.pending /\ s.generation = g /\ s.stream = sock.stream
      /\ s.overlap = sock.overlap /\ s.crashed = sock.crashed
      /\ s \in Socket
  BY <1>1 DEF Types, Socket
<1>6. s.state = sock.state /\ s.writing = sock.writing
      /\ s.writeQueue = sock.writeQueue /\ s.sent = sock.sent
      /\ s.written = sock.written /\ s.messageToWrite = sock.messageToWrite
  BY <1>1 DEF Types, Socket
<1> HIDE DEF s
<1>7. Start(s, k) = [s EXCEPT !.pending = p1, !.overlap = o1, !.crashed = c1]
  BY <1>5 DEF Start, Current
<1> HIDE DEF p1, o1, c1, k, g
<1>8. /\ Becomes(sock.state, sock.generation, sock.writing, sock.writeQueue,
                 p1, o1)
      /\ SameMail
  <2> DEFINE b == [s EXCEPT !.pending = p1, !.overlap = o1, !.crashed = c1]
  <2>1. /\ b \in Socket /\ b.pending = p1 /\ b.overlap = o1
        /\ b.state = s.state /\ b.writing = s.writing
        /\ b.writeQueue = s.writeQueue /\ b.sent = s.sent
        /\ b.written = s.written /\ b.messageToWrite = s.messageToWrite
    BY <1>3, <1>5 DEF Socket
  <2>2. sock' = [b EXCEPT !.generation = sock.generation]
    BY <1>4, <1>7
  <2> HIDE DEF b
  <2>3. sock.generation \in Nat
    BY DEF Types, Socket
  <2>4. /\ sock' \in Socket /\ sock'.generation = sock.generation
        /\ sock'.pending = p1 /\ sock'.overlap = o1
        /\ sock'.state = s.state /\ sock'.writing = s.writing
        /\ sock'.writeQueue = s.writeQueue /\ sock'.sent = s.sent
        /\ sock'.written = s.written /\ sock'.messageToWrite = s.messageToWrite
    BY <2>1, <2>2, <2>3 DEF Socket
  <2> QED
    BY <1>6, <2>4, Zenon DEF Becomes, SameMail
<1> QED
  BY <1>2, <1>8 DEF p1, o1, k, g

LEMMA HandlerLabel ==
  ASSUME NEW kind \in Started
  PROVE  /\ Handler[kind] \in {"reset", "connected", "secured", "hs_cas",
                              "rd_put", "wr_reset"}
         /\ Handler[kind] = "wr_reset" <=> kind = "write"
         /\ Handler[kind] = "rd_put" <=> kind = "read"
BY DEF Started, Incoming, ConnectPhase, Handler

\* The generation is 1 or 2, which is OneDisconnect and more.
LEMMA GenerationBound ==
  ASSUME TInv
  PROVE  sock.generation \in {1, 2}
<1>1. sock.state \in SocketState
  BY DEF TInv, Types, Socket
<1> QED
  BY <1>1 DEF TInv, Closing, SocketState

\* A step that leaves the messages where they are, starts no write and does
\* not turn a connection that is being made into one that is written to.
Quiet ==
  /\ SameMail
  /\ sock'.writing = sock.writing /\ sock'.writeQueue = sock.writeQueue
  /\ UnderWay' => UnderWay
  /\ Kept' => Kept
  /\ Connecting' => /\ Connecting /\ sock'.state # "CONNECTED"
                    /\ \A t \in Thread : ~Writer(t)'

LEMMA QuietKeeps ==
  ASSUME Untouched, Counted, Quiet
  PROVE  Untouched' /\ Counted'
<1>1. Untouched'
  <2> HIDE DEF Writer, UnderWay
  <2> QED
    BY DEF Untouched, Quiet, SameMail
<1>2. Counted'
  <2> HIDE DEF Writer, UnderWay
  <2> QED
    BY DEF Counted, Quiet, SameMail
<1> QED
  BY <1>1, <1>2

----------------------------------------------------------------------------
(* Capture and StartOperation.                                             *)

LEMMA CaptureKeeps ==
  ASSUME TInv, NEW t \in {"io", "sender"}, Capture(t)
  PROVE  TInv'
<1>1. /\ pc[t] = "capture"
      /\ pc' \in [Thread -> Label] /\ pc'[t] = "start"
      /\ \A u \in Thread : u # t => pc'[u] = pc[u]
      /\ starting' \in [Thread -> Task]
      /\ starting'[t].kind = starting[t].kind
      /\ starting'[t].then = starting[t].then
      /\ starting'[t].gen = sock.generation
      /\ \A u \in Thread : u # t => starting'[u] = starting[u]
      /\ UNCHANGED <<sock, queueMutex, handling, expected>>
  <2>1. starting \in [Thread -> Task] /\ sock.generation \in Nat
    BY DEF TInv, Types, Socket
  <2>2. starting[t] \in Task
    BY <2>1
  <2> DEFINE task == [starting[t] EXCEPT !.gen = sock.generation]
  <2>3. /\ task \in Task /\ task.kind = starting[t].kind
        /\ task.then = starting[t].then /\ task.gen = sock.generation
    BY <2>1, <2>2 DEF Task
  <2>4. starting' = [starting EXCEPT ![t] = task]
    BY DEF Capture
  <2>5. Go(t, "start") /\ At(t, "capture")
    BY DEF Capture
  <2> HIDE DEF task
  <2> QED
    BY <2>1, <2>3, <2>4, <2>5, GoEffect DEF TInv, Capture, At
<1>2. Types' /\ Closing'
  BY <1>1, GenerationBound DEF TInv, Types, Closing
<1>3. Locking'
  BY <1>1, GenerationBound DEF TInv, Types, Closing, Locking
<1>4. OneIncoming' /\ OneWrite'
  BY <1>1, GenerationBound DEF TInv, Types, Locking, OneIncoming, OneWrite
<1>5. Marking' /\ Generations'
  BY <1>1, GenerationBound DEF TInv, Types, Closing, Locking, OneWrite,
     Marking, Generations
<1>6. Attended'
  BY <1>1, GenerationBound DEF TInv, Types, Closing, Locking, Marking,
     Generations, Attended
<1>7. Untouched' /\ Counted'
  <2>1. Quiet
    BY <1>1 DEF TInv, Types, Closing, Locking, OneIncoming, Untouched,
       Quiet, SameMail, Connecting, Kept
  <2> QED
    BY <2>1, QuietKeeps DEF TInv
<1> QED
  BY <1>2, <1>3, <1>4, <1>5, <1>6, <1>7 DEF TInv

LEMMA StartOperationKeeps ==
  ASSUME TInv, NEW t \in {"io", "sender"}, StartOperation(t)
  PROVE  TInv'
<1> USE DEF Becomes
<1>1. /\ pc[t] = "start"
      /\ pc' \in [Thread -> Label] /\ pc'[t] = starting[t].then
      /\ \A u \in Thread : u # t => pc'[u] = pc[u]
      /\ pc'[t] \in {"idle", "cw_lock"}
      /\ starting' \in [Thread -> Task] /\ starting'[t] = Idle
      /\ \A u \in Thread : u # t => starting'[u] = starting[u]
      /\ queueMutex' = IF starting[t].kind = "write" THEN "free"
                                                 ELSE queueMutex
      /\ UNCHANGED <<handling, expected>>
  <2>1. Idle \in Task
    BY DEF Idle, Task, Started, Incoming, ConnectPhase
  <2>2. /\ starting' = [starting EXCEPT ![t] = Idle]
        /\ queueMutex' = IF starting[t].kind = "write" THEN "free"
                                                       ELSE queueMutex
        /\ UNCHANGED <<handling, expected>>
    BY DEF StartOperation
  <2>3. Go(t, starting[t].then) /\ At(t, "start")
    BY DEF StartOperation
  <2>4. starting[t].then \in {"idle", "cw_lock"}
    BY <2>3 DEF TInv, Locking, At
  <2>5. /\ pc' \in [Thread -> Label] /\ pc'[t] = starting[t].then
        /\ \A u \in Thread : u # t => pc'[u] = pc[u]
    BY <2>3, <2>4, GoEffect DEF TInv
  <2> QED
    BY <2>1, <2>2, <2>3, <2>4, <2>5 DEF TInv, Types, At
<1>2. PICK op \in Op :
        /\ op.kind = starting[t].kind /\ op.gen = starting[t].gen
        /\ op.kind \in Started /\ (op.kind \in Incoming => t = "io")
        /\ \A o \in sock.pending : ~Conflicts(o.kind, op.kind)
        /\ Becomes(sock.state, sock.generation, sock.writing, sock.writeQueue,
                   sock.pending \cup {op}, FALSE) /\ SameMail
  <2> DEFINE op == [kind |-> starting[t].kind, gen |-> starting[t].gen,
                    stream |-> sock.stream]
             o1 == sock.overlap \/
                     \E o \in sock.pending :
                       o.gen = op.gen /\ Conflicts(o.kind, op.kind)
  <2>1. /\ op \in Op
        /\ Becomes(sock.state, sock.generation, sock.writing, sock.writeQueue,
                   sock.pending \cup {op}, o1) /\ SameMail
    BY StartEffects DEF TInv
  <2>2. op.kind = starting[t].kind /\ op.gen = starting[t].gen
    OBVIOUS
  <2>3. \A o \in sock.pending : ~Conflicts(o.kind, starting[t].kind)
    <3>1. CASE starting[t].kind = "write"
      BY <1>1, <3>1 DEF TInv, Types, OneWrite, Started, Conflicts, Incoming,
         ConnectPhase
    <3>2. CASE starting[t].kind \in Incoming
      <4>1. t = "io"
        BY <1>1, <3>2 DEF TInv, Locking, Incoming, ConnectPhase
      <4>2. Receiver
        BY <1>1, <3>2, <4>1
      <4>3. \A o \in sock.pending : o.kind \notin Incoming
        BY <4>2 DEF TInv, OneIncoming
      <4> QED
        BY <3>2, <4>3 DEF Conflicts
    <3> QED
      BY <3>1, <3>2 DEF TInv, Types, Task, Started
  <2>4. o1 = FALSE
    BY <2>2, <2>3 DEF TInv, OneWrite
  <2>5. /\ starting[t].kind \in Started
        /\ starting[t].kind \in Incoming => t = "io"
    BY <1>1 DEF TInv, Types, Task, Locking, Incoming, ConnectPhase
  <2> HIDE DEF op, o1
  <2> QED
    BY <2>1, <2>2, <2>3, <2>4, <2>5
<1>3. Types'
  BY <1>1, <1>2 DEF TInv, Types, Started, Incoming, ConnectPhase,
     Conflicts
<1>4. Closing'
  BY <1>1, <1>2 DEF TInv, Types, Closing, Started, Incoming, ConnectPhase,
     Conflicts
<1>5. Locking'
  BY <1>1, <1>2 DEF TInv, Types, Closing, Locking, Started, Incoming,
     ConnectPhase, Conflicts
<1>6. OneIncoming'
  BY <1>1, <1>2 DEF TInv, Types, OneIncoming, Started, Incoming,
     ConnectPhase, Conflicts
<1>7. OneWrite'
  BY <1>1, <1>2 DEF TInv, Types, Locking, OneIncoming, OneWrite, Started,
     Incoming, ConnectPhase, Conflicts
<1>8. Marking'
  BY <1>1, <1>2 DEF TInv, Types, Closing, Locking, OneWrite, Marking,
     Generations, Started, Incoming, ConnectPhase, Conflicts
<1>9. Generations'
  BY <1>1, <1>2 DEF TInv, Types, Closing, Generations, Started, Incoming,
     ConnectPhase, Conflicts
<1>10. Attended'
  BY <1>1, <1>2 DEF TInv, Types, Closing, Locking, Marking, Generations,
     Attended, Started, Incoming, ConnectPhase, Conflicts
<1>11. Untouched' /\ Counted'
  <2>1. Quiet
    BY <1>1, <1>2 DEF TInv, Types, Closing, Locking, OneIncoming, Untouched,
       Quiet, SameMail, Connecting, Kept,
       Started, Incoming, ConnectPhase
  <2> QED
    BY <2>1, QuietKeeps DEF TInv
<1> QED
  BY <1>3, <1>4, <1>5, <1>6, <1>7, <1>8, <1>9, <1>10, <1>11 DEF TInv

----------------------------------------------------------------------------
(* CheckWriting.                                                           *)

LEMMA LockQueueKeeps ==
  ASSUME TInv, NEW t \in {"io", "sender"}, LockQueue(t)
  PROVE  TInv'
<1>1. /\ pc[t] = "cw_lock"
      /\ pc' \in [Thread -> Label] /\ pc'[t] = "cw_state"
      /\ \A u \in Thread : u # t => pc'[u] = pc[u]
      /\ queueMutex = "free" /\ queueMutex' = t
      /\ UNCHANGED <<sock, handling, expected, starting>>
  BY GoEffect DEF TInv, LockQueue, At, locals
<1>2. Types' /\ Closing'
  BY <1>1 DEF TInv, Types, Closing
<1>3. Locking'
  BY <1>1 DEF TInv, Types, Closing, Locking
<1>4. OneIncoming' /\ OneWrite'
  BY <1>1 DEF TInv, Types, Locking, OneIncoming, OneWrite
<1>5. Marking' /\ Generations'
  BY <1>1 DEF TInv, Types, Closing, Locking, OneWrite, Marking,
     Generations
<1>6. Attended'
  BY <1>1 DEF TInv, Types, Closing, Locking, Marking, Generations,
     Attended
<1>7. Untouched' /\ Counted'
  <2>1. Quiet
    BY <1>1 DEF TInv, Types, Closing, Locking, OneIncoming, Untouched,
       Quiet, SameMail, Connecting, Kept
  <2> QED
    BY <2>1, QuietKeeps DEF TInv
<1> QED
  BY <1>2, <1>3, <1>4, <1>5, <1>6, <1>7 DEF TInv

LEMMA TestStateKeeps ==
  ASSUME TInv, NEW t \in {"io", "sender"}, TestState(t)
  PROVE  TInv'
<1>1. /\ pc[t] = "cw_state" /\ pc' \in [Thread -> Label]
      /\ \A u \in Thread : u # t => pc'[u] = pc[u]
      /\ IF sock.state = "CONNECTED"
         THEN pc'[t] = "cw_flag" /\ queueMutex' = queueMutex
         ELSE pc'[t] = "idle" /\ queueMutex' = "free"
      /\ UNCHANGED <<sock, handling, expected, starting>>
  BY GoEffect DEF TInv, TestState, At, Back, Closing, locals
<1>2. Types' /\ Closing'
  BY <1>1 DEF TInv, Types, Closing
<1>3. Locking'
  BY <1>1 DEF TInv, Types, Closing, Locking
<1>4. OneIncoming' /\ OneWrite'
  BY <1>1 DEF TInv, Types, Locking, OneIncoming, OneWrite
<1>5. Marking' /\ Generations'
  BY <1>1 DEF TInv, Types, Closing, Locking, OneWrite, Marking,
     Generations
<1>6. Attended'
  BY <1>1 DEF TInv, Types, Closing, Locking, Marking, Generations,
     Attended
<1>7. Untouched' /\ Counted'
  <2>1. Quiet
    BY <1>1 DEF TInv, Types, Closing, Locking, OneIncoming, Untouched,
       Quiet, SameMail, Connecting, Kept
  <2> QED
    BY <2>1, QuietKeeps DEF TInv
<1> QED
  BY <1>2, <1>3, <1>4, <1>5, <1>6, <1>7 DEF TInv

LEMMA TestWritingKeeps ==
  ASSUME TInv, NEW t \in {"io", "sender"}, TestWriting(t)
  PROVE  TInv'
<1>1. /\ pc[t] = "cw_flag" /\ pc' \in [Thread -> Label]
      /\ \A u \in Thread : u # t => pc'[u] = pc[u]
      /\ IF ~sock.writing /\ sock.writeQueue # << >>
         THEN pc'[t] = "cw_set" /\ queueMutex' = queueMutex
         ELSE pc'[t] = "idle" /\ queueMutex' = "free"
      /\ UNCHANGED <<sock, handling, expected, starting>>
  BY GoEffect DEF TInv, TestWriting, At, Back, locals
<1>2. Types' /\ Closing'
  BY <1>1 DEF TInv, Types, Closing
<1>3. Locking'
  BY <1>1 DEF TInv, Types, Closing, Locking
<1>4. OneIncoming' /\ OneWrite'
  BY <1>1 DEF TInv, Types, Locking, OneIncoming, OneWrite
<1>5. Marking' /\ Generations'
  BY <1>1 DEF TInv, Types, Closing, Locking, OneWrite, Marking,
     Generations
<1>6. Attended'
  BY <1>1 DEF TInv, Types, Closing, Locking, Marking, Generations,
     Attended
<1>7. Untouched' /\ Counted'
  <2>1. Quiet
    BY <1>1 DEF TInv, Types, Closing, Locking, OneIncoming, Untouched,
       Quiet, SameMail, Connecting, Kept
  <2> QED
    BY <2>1, QuietKeeps DEF TInv
<1> QED
  BY <1>2, <1>3, <1>4, <1>5, <1>6, <1>7 DEF TInv

LEMMA TakeMessageKeeps ==
  ASSUME TInv, NEW t \in {"io", "sender"}, TakeMessage(t)
  PROVE  TInv'
<1> USE DEF Becomes
<1>1. /\ pc[t] = "cw_set"
      /\ pc' \in [Thread -> Label] /\ pc'[t] = "capture"
      /\ \A u \in Thread : u # t => pc'[u] = pc[u]
      /\ Becomes(sock.state, sock.generation, TRUE,
                 Tail(sock.writeQueue), sock.pending, sock.overlap)
      /\ sock'.sent = sock.sent /\ sock'.written = sock.written
      /\ sock'.messageToWrite = Head(sock.writeQueue).id
      /\ starting' \in [Thread -> Task]
      /\ starting'[t].kind = "write" /\ starting'[t].then = "idle"
      /\ \A u \in Thread : u # t => starting'[u] = starting[u]
      /\ UNCHANGED <<queueMutex, handling, expected>>
  <2>1. Starts(t, "write", "idle") /\ At(t, "cw_set")
    BY DEF TakeMessage, Back
  <2>2. sock.writeQueue # << >> /\ sock \in Socket
    BY <2>1 DEF TInv, Types, Locking, At
  <2>3. /\ Becomes(sock.state, sock.generation, TRUE, Tail(sock.writeQueue),
                   sock.pending, sock.overlap)
        /\ sock'.sent = sock.sent /\ sock'.written = sock.written
        /\ sock'.messageToWrite = Head(sock.writeQueue).id
    BY <2>2, TakeEffect DEF TakeMessage
  <2> QED
    BY <2>1, <2>3, StartsEffect DEF TInv, TakeMessage, At, Started
<1>2. Types' /\ Closing'
  BY <1>1 DEF TInv, Types, Closing
<1>3. Locking'
  BY <1>1 DEF TInv, Types, Closing, Locking
<1>4. OneIncoming' /\ OneWrite'
  <2>1. ~UnderWay
    BY <1>1 DEF TInv, Locking, Marking
  <2>2. ~WriteEnds'
    BY <1>1, <2>1
  <2>3. Pending({"write"})' = {}
    BY <1>1, <2>1
  <2>4. OneWrite'
    BY <1>1, <2>2, <2>3 DEF TInv, OneWrite
  <2>5. OneIncoming'
    BY <1>1 DEF TInv, OneIncoming, Incoming, ConnectPhase
  <2> QED
    BY <2>4, <2>5
<1>5. Marking'
  <2>1. sock.state \in {"CONNECTED", "DISCONNECTING"}
    BY <1>1 DEF TInv, Locking
  <2>2. sock'.writing /\ sock'.state = sock.state
    BY <1>1
  <2>3. UnderWay'
    BY <1>1
  <2> QED
    BY <2>1, <2>2, <2>3 DEF Marking
<1>6. Generations'
  BY <1>1 DEF TInv, Types, Closing, Generations
<1>7. Attended'
  BY <1>1 DEF TInv, Types, Closing, Locking, Marking, Generations,
     Attended
<1>8. Untouched' /\ Counted'
  <2>1. Writer(t) /\ ~sock.writing /\ sock.writeQueue # << >> /\ Kept
    BY <1>1 DEF TInv, Types, Locking, Kept
  <2>2. ~Connecting'
    <3>1. ~Connecting
      BY <2>1 DEF TInv, Untouched
    <3> QED
      BY <1>1, <3>1 DEF Connecting, ConnectPhase
  <2> DEFINE queue == sock.writeQueue
             n     == sock.messageToWrite
  <2>3. /\ queue \in Seq(OutMessage) /\ queue # << >>
        /\ n \in Nat /\ n = Len(sock.sent)
        /\ sock.written = n + Len(queue)
        /\ \A i \in DOMAIN queue : queue[i].id = n + i
        /\ \A i \in DOMAIN sock.sent : sock.sent[i] = i
    BY <2>1 DEF TInv, Types, Socket, Counted
  <2> HIDE DEF queue, n
  <2>4. Head(queue).id = n + 1
    BY <2>3
  <2>5. Len(Tail(queue)) = Len(queue) - 1 /\ Len(queue) \in Nat
    BY <2>3
  <2>6. \A i \in DOMAIN Tail(queue) : Tail(queue)[i].id = n + 1 + i
    <3> SUFFICES ASSUME NEW i \in DOMAIN Tail(queue)
                 PROVE  Tail(queue)[i].id = n + 1 + i
      OBVIOUS
    <3>1. i \in 1 .. Len(queue) - 1 /\ Tail(queue)[i] = queue[i + 1]
      BY <2>3
    <3>2. i + 1 \in DOMAIN queue
      BY <2>3, <3>1
    <3>3. queue[i + 1].id = n + (i + 1)
      BY <2>3, <3>2
    <3>4. i \in Nat
      BY <2>5, <3>1
    <3>5. n \in Nat
      BY <2>3
    <3>6. n + (i + 1) = n + 1 + i
      BY <3>4, <3>5
    <3> QED
      BY <3>1, <3>3, <3>6
  <2>7. /\ sock'.messageToWrite = n + 1 /\ sock'.writeQueue = Tail(queue)
        /\ sock'.written = sock.written /\ sock'.sent = sock.sent
        /\ sock'.writing
    BY <1>1, <2>4 DEF queue
  <2>8. Counted'
    <3> HIDE DEF UnderWay
    <3> QED
      BY <2>3, <2>5, <2>6, <2>7 DEF Counted
  <2> QED
    BY <2>2, <2>8 DEF Untouched
<1> QED
  BY <1>2, <1>3, <1>4, <1>5, <1>6, <1>7, <1>8 DEF TInv

----------------------------------------------------------------------------
(* CloseConnection.                                                        *)

LEMMA LoadStateKeeps ==
  ASSUME TInv, NEW t \in {"io", "main"}, LoadState(t)
  PROVE  TInv'
<1>1. /\ pc[t] = "sd_load" /\ pc' \in [Thread -> Label]
      /\ \A u \in Thread : u # t => pc'[u] = pc[u]
      /\ IF sock.state \in {"DISCONNECTED", "DISCONNECTING"}
         THEN pc'[t] = Back(t) /\ expected' = expected
         ELSE /\ pc'[t] = "sd_cas" /\ expected'[t] = sock.state
              /\ expected' \in [Thread -> SocketState]
      /\ \A u \in Thread : u # t => expected'[u] = expected[u]
      /\ sock.state \in SocketState
      /\ UNCHANGED <<sock, queueMutex, handling, starting>>
  BY GoEffect DEF TInv, LoadState, At, Back, Types, Socket
<1>2. Types'
  BY <1>1 DEF TInv, Types, Back, SocketState
<1>3. Closing'
  BY <1>1 DEF TInv, Types, Closing, Back, SocketState
<1>4. Locking'
  BY <1>1 DEF TInv, Types, Closing, Locking, Back, SocketState
<1>5. OneIncoming' /\ OneWrite'
  BY <1>1 DEF TInv, Types, Locking, OneIncoming, OneWrite, Back,
     SocketState
<1>6. Marking' /\ Generations'
  BY <1>1 DEF TInv, Types, Closing, Locking, OneWrite, Marking,
     Generations, Back, SocketState
<1>7. Attended'
  BY <1>1 DEF TInv, Types, Closing, Locking, Marking, Generations,
     Attended, Back, SocketState
<1>8. Untouched' /\ Counted'
  <2>1. Quiet
    BY <1>1 DEF TInv, Types, Closing, Locking, OneIncoming, Untouched,
       Quiet, SameMail, Connecting, Kept,
       Back, SocketState
  <2> QED
    BY <2>1, QuietKeeps DEF TInv
<1> QED
  BY <1>2, <1>3, <1>4, <1>5, <1>6, <1>7, <1>8 DEF TInv

LEMMA ExchangeStateKeeps ==
  ASSUME TInv, NEW t \in {"io", "main"}, ExchangeState(t)
  PROVE  TInv'
<1> USE DEF Becomes
<1>1. /\ pc[t] = "sd_cas" /\ pc' \in [Thread -> Label]
      /\ \A u \in Thread : u # t => pc'[u] = pc[u]
      /\ expected' \in [Thread -> SocketState]
      /\ \A u \in Thread : u # t => expected'[u] = expected[u]
      /\ IF sock.state = expected[t]
         THEN /\ pc'[t] \in {"put_error", "dc_gen"}
              /\ t = "main" => pc'[t] = "dc_gen"
              /\ Becomes("DISCONNECTING", sock.generation, sock.writing,
                         sock.writeQueue, sock.pending, sock.overlap) /\ SameMail
         ELSE pc'[t] = "sd_again" /\ sock' = sock
      /\ UNCHANGED <<queueMutex, handling, starting>>
  <2>1. /\ expected' = [expected EXCEPT ![t] = "DISCONNECTED"]
        /\ pc[t] = "sd_cas"
        /\ UNCHANGED <<queueMutex, handling, starting>>
    BY DEF ExchangeState, At
  <2>2. expected \in [Thread -> SocketState] /\ "DISCONNECTED" \in SocketState
    BY DEF TInv, Types, SocketState
  <2>3. CASE sock.state = expected[t]
    <3>1. Becomes("DISCONNECTING", sock.generation, sock.writing,
                  sock.writeQueue, sock.pending, sock.overlap) /\ SameMail
      BY <2>3, StateEffect DEF TInv, Types, ExchangeState, SocketState
    <3>2. PICK l \in {"put_error", "dc_gen"} :
            Go(t, l) /\ (t = "main" => l = "dc_gen")
      BY <2>3 DEF ExchangeState, Proceed
    <3> QED
      BY <2>1, <2>2, <2>3, <3>1, <3>2, GoEffect DEF TInv
  <2>4. CASE sock.state # expected[t]
    <3>1. Go(t, "sd_again") /\ sock' = sock
      BY <2>4 DEF ExchangeState
    <3> QED
      BY <2>1, <2>2, <2>4, <3>1, GoEffect DEF TInv
  <2> QED
    BY <2>3, <2>4
<1>2. Types'
  BY <1>1 DEF TInv, Types
<1>3. Closing'
  BY <1>1 DEF TInv, Types, Closing
<1>4. Locking'
  BY <1>1 DEF TInv, Types, Closing, Locking
<1>5. OneIncoming' /\ OneWrite'
  BY <1>1 DEF TInv, Types, Locking, OneIncoming, OneWrite
<1>6. Marking' /\ Generations'
  BY <1>1 DEF TInv, Types, Closing, Locking, OneWrite, Marking,
     Generations
<1>7. Attended'
  BY <1>1 DEF TInv, Types, Closing, Locking, Marking, Generations,
     Attended
<1>8. Untouched' /\ Counted'
  <2>1. Quiet
    BY <1>1 DEF TInv, Types, Closing, Locking, OneIncoming, Untouched,
       Quiet, SameMail, Connecting, Kept
  <2> QED
    BY <2>1, QuietKeeps DEF TInv
<1> QED
  BY <1>2, <1>3, <1>4, <1>5, <1>6, <1>7, <1>8 DEF TInv

LEMMA TryAgainKeeps ==
  ASSUME TInv, NEW t \in {"io", "main"}, TryAgain(t)
  PROVE  TInv'
<1>1. /\ pc[t] = "sd_again" /\ pc' \in [Thread -> Label]
      /\ \A u \in Thread : u # t => pc'[u] = pc[u]
      /\ IF sock.state \in {"CONNECTED", "CONNECTING"}
         THEN pc'[t] = "sd_load" ELSE pc'[t] = Back(t)
      /\ sock.state \in SocketState
      /\ UNCHANGED <<sock, queueMutex, handling, expected, starting>>
  BY GoEffect DEF TInv, TryAgain, At, Back, Types, Socket
<1>2. Types'
  BY <1>1 DEF TInv, Types, Back, SocketState
<1>3. Closing'
  BY <1>1 DEF TInv, Types, Closing, Back, SocketState
<1>4. Locking'
  BY <1>1 DEF TInv, Types, Closing, Locking, Back, SocketState
<1>5. OneIncoming' /\ OneWrite'
  BY <1>1 DEF TInv, Types, Locking, OneIncoming, OneWrite, Back,
     SocketState
<1>6. Marking' /\ Generations'
  BY <1>1 DEF TInv, Types, Closing, Locking, OneWrite, Marking,
     Generations, Back, SocketState
<1>7. Attended'
  BY <1>1 DEF TInv, Types, Closing, Locking, Marking, Generations,
     Attended, Back, SocketState
<1>8. Untouched' /\ Counted'
  <2>1. Quiet
    BY <1>1 DEF TInv, Types, Closing, Locking, OneIncoming, Untouched,
       Quiet, SameMail, Connecting, Kept,
       Back, SocketState
  <2> QED
    BY <2>1, QuietKeeps DEF TInv
<1> QED
  BY <1>2, <1>3, <1>4, <1>5, <1>6, <1>7, <1>8 DEF TInv

LEMMA PutErrorKeeps ==
  ASSUME TInv, PutError("io")
  PROVE  TInv'
<1> USE DEF Becomes
<1>1. /\ pc["io"] = "put_error"
      /\ pc' \in [Thread -> Label] /\ pc'["io"] = "dc_gen"
      /\ \A u \in Thread : u # "io" => pc'[u] = pc[u]
      /\ Becomes(sock.state, sock.generation, sock.writing, sock.writeQueue,
                 sock.pending, sock.overlap) /\ SameMail
      /\ UNCHANGED <<queueMutex, handling, expected, starting>>
  BY GoEffect, PutSame DEF TInv, Types, PutError, At
<1>2. Types' /\ Closing'
  BY <1>1 DEF TInv, Types, Closing
<1>3. Locking'
  BY <1>1 DEF TInv, Types, Closing, Locking
<1>4. OneIncoming' /\ OneWrite'
  BY <1>1 DEF TInv, Types, Locking, OneIncoming, OneWrite
<1>5. Marking' /\ Generations'
  BY <1>1 DEF TInv, Types, Closing, Locking, OneWrite, Marking,
     Generations
<1>6. Attended'
  BY <1>1 DEF TInv, Types, Closing, Locking, Marking, Generations,
     Attended
<1>7. Untouched' /\ Counted'
  <2>1. Quiet
    BY <1>1 DEF TInv, Types, Closing, Locking, OneIncoming, Untouched,
       Quiet, SameMail, Connecting, Kept
  <2> QED
    BY <2>1, QuietKeeps DEF TInv
<1> QED
  BY <1>2, <1>3, <1>4, <1>5, <1>6, <1>7 DEF TInv

LEMMA CloseGenKeeps ==
  ASSUME TInv, NEW t \in {"io", "main"},
         CloseStep(t, "dc_gen", [sock EXCEPT !.generation = @ + 1],
                   "dc_close")
  PROVE  TInv'
<1> USE DEF Becomes
<1>1. /\ pc[t] = "dc_gen"
      /\ pc' \in [Thread -> Label] /\ pc'[t] = "dc_close"
      /\ \A u \in Thread : u # t => pc'[u] = pc[u]
      /\ Becomes(sock.state, sock.generation + 1, sock.writing,
                 sock.writeQueue, sock.pending, sock.overlap) /\ SameMail
      /\ UNCHANGED <<queueMutex, handling, expected, starting>>
  BY GoEffect, GenEffect DEF TInv, Types, CloseStep, At, locals
<1>2. Types' /\ Closing'
  BY <1>1 DEF TInv, Types, Closing
<1>3. Locking'
  BY <1>1 DEF TInv, Types, Closing, Locking
<1>4. OneIncoming' /\ OneWrite'
  BY <1>1 DEF TInv, Types, Locking, OneIncoming, OneWrite
<1>5. Marking' /\ Generations'
  BY <1>1 DEF TInv, Types, Closing, Locking, OneWrite, Marking,
     Generations
<1>6. Attended'
  BY <1>1 DEF TInv, Types, Closing, Locking, Marking, Generations,
     Attended
<1>7. Untouched' /\ Counted'
  <2>1. Quiet
    BY <1>1 DEF TInv, Types, Closing, Locking, OneIncoming, Untouched,
       Quiet, SameMail, Connecting, Kept
  <2> QED
    BY <2>1, QuietKeeps DEF TInv
<1> QED
  BY <1>2, <1>3, <1>4, <1>5, <1>6, <1>7 DEF TInv

LEMMA CloseSocketKeeps ==
  ASSUME TInv, NEW t \in {"io", "main"},
         CloseStep(t, "dc_close", closeSocket(sock), "dc_clear")
  PROVE  TInv'
<1> USE DEF Becomes
<1>1. /\ pc[t] = "dc_close"
      /\ pc' \in [Thread -> Label] /\ pc'[t] = "dc_clear"
      /\ \A u \in Thread : u # t => pc'[u] = pc[u]
      /\ Becomes(sock.state, sock.generation, sock.writing, sock.writeQueue,
                 sock.pending, sock.overlap) /\ SameMail
      /\ UNCHANGED <<queueMutex, handling, expected, starting>>
  BY GoEffect, CloseSocketEffect DEF TInv, Types, CloseStep, At, locals
<1>2. Types' /\ Closing'
  BY <1>1 DEF TInv, Types, Closing
<1>3. Locking'
  BY <1>1 DEF TInv, Types, Closing, Locking
<1>4. OneIncoming' /\ OneWrite'
  BY <1>1 DEF TInv, Types, Locking, OneIncoming, OneWrite
<1>5. Marking' /\ Generations'
  BY <1>1 DEF TInv, Types, Closing, Locking, OneWrite, Marking,
     Generations
<1>6. Attended'
  BY <1>1 DEF TInv, Types, Closing, Locking, Marking, Generations,
     Attended
<1>7. Untouched' /\ Counted'
  <2>1. Quiet
    BY <1>1 DEF TInv, Types, Closing, Locking, OneIncoming, Untouched,
       Quiet, SameMail, Connecting, Kept
  <2> QED
    BY <2>1, QuietKeeps DEF TInv
<1> QED
  BY <1>2, <1>3, <1>4, <1>5, <1>6, <1>7 DEF TInv

LEMMA CloseQueueKeeps ==
  ASSUME TInv, NEW t \in {"io", "main"},
         CloseStep(t, "dc_clear", clearQueue(sock), "dc_state"),
         queueMutex = "free"
  PROVE  TInv'
<1> USE DEF Becomes
<1>1. /\ pc[t] = "dc_clear"
      /\ pc' \in [Thread -> Label] /\ pc'[t] = "dc_state"
      /\ \A u \in Thread : u # t => pc'[u] = pc[u]
      /\ Becomes(sock.state, sock.generation, sock.writing,
                 << >>, sock.pending, sock.overlap) /\ SameMail
      /\ UNCHANGED <<queueMutex, handling, expected, starting>>
  BY GoEffect, ClearEffect DEF TInv, Types, CloseStep, At, locals
<1>2. Types' /\ Closing'
  BY <1>1 DEF TInv, Types, Closing
<1>3. Locking'
  BY <1>1 DEF TInv, Types, Closing, Locking
<1>4. OneIncoming' /\ OneWrite'
  BY <1>1 DEF TInv, Types, Locking, OneIncoming, OneWrite
<1>5. Marking' /\ Generations'
  BY <1>1 DEF TInv, Types, Closing, Locking, OneWrite, Marking,
     Generations
<1>6. Attended'
  BY <1>1 DEF TInv, Types, Closing, Locking, Marking, Generations,
     Attended
<1>7. Untouched' /\ Counted'
  <2>1. ~Kept'
    BY <1>1 DEF TInv, Closing, Kept
  <2>2. UnderWay' => UnderWay
    BY <1>1
  <2>3. Connecting' => Connecting
    BY <1>1 DEF Connecting
  <2>4. /\ sock'.state = sock.state
        /\ \A u \in Thread : Writer(u)' => Writer(u)
    BY <1>1
  <2> HIDE DEF UnderWay, Writer, Becomes
  <2> QED
    BY <1>1, <2>1, <2>2, <2>3, <2>4 DEF TInv, Untouched, Counted, SameMail
<1> QED
  BY <1>2, <1>3, <1>4, <1>5, <1>6, <1>7 DEF TInv

LEMMA CloseStateKeeps ==
  ASSUME TInv, NEW t \in {"io", "main"},
         CloseStep(t, "dc_state", [sock EXCEPT !.state = "DISCONNECTED",
                                            !.established = FALSE],
                   "dc_writing")
  PROVE  TInv'
<1> USE DEF Becomes
<1>1. /\ pc[t] = "dc_state"
      /\ pc' \in [Thread -> Label] /\ pc'[t] = "dc_writing"
      /\ \A u \in Thread : u # t => pc'[u] = pc[u]
      /\ Becomes("DISCONNECTED", sock.generation, sock.writing,
                 sock.writeQueue, sock.pending, sock.overlap) /\ SameMail
      /\ UNCHANGED <<queueMutex, handling, expected, starting>>
  <2>1. /\ sock' = [sock EXCEPT !.state = "DISCONNECTED",
                              !.established = FALSE]
        /\ pc[t] = "dc_state" /\ Go(t, "dc_writing")
        /\ UNCHANGED <<queueMutex, handling, expected, starting>>
    BY DEF CloseStep, At, locals
  <2>2. Becomes("DISCONNECTED", sock.generation, sock.writing,
                sock.writeQueue, sock.pending, sock.overlap) /\ SameMail
    <3> HIDE DEF Becomes
    <3>1. "DISCONNECTED" \in SocketState /\ FALSE \in BOOLEAN
      BY DEF SocketState
    <3> QED
      BY <2>1, <3>1, EstablishedEffect DEF TInv, Types
  <2> QED
    BY <2>1, <2>2, GoEffect DEF TInv
<1>2. Types' /\ Closing'
  BY <1>1 DEF TInv, Types, Closing
<1>3. Locking'
  BY <1>1 DEF TInv, Types, Closing, Locking
<1>4. OneIncoming' /\ OneWrite'
  BY <1>1 DEF TInv, Types, Locking, OneIncoming, OneWrite
<1>5. Marking' /\ Generations'
  BY <1>1 DEF TInv, Types, Closing, Locking, OneWrite, Marking,
     Generations
<1>6. Attended'
  BY <1>1 DEF TInv, Types, Closing, Locking, Marking, Generations,
     Attended
<1>7. Untouched' /\ Counted'
  <2>1. Quiet
    BY <1>1 DEF TInv, Types, Closing, Locking, OneIncoming, Untouched,
       Quiet, SameMail, Connecting, Kept
  <2> QED
    BY <2>1, QuietKeeps DEF TInv
<1> QED
  BY <1>2, <1>3, <1>4, <1>5, <1>6, <1>7 DEF TInv

LEMMA CloseWritingKeeps ==
  ASSUME TInv, NEW t \in {"io", "main"},
         CloseStep(t, "dc_writing", [sock EXCEPT !.writing = FALSE],
                   "dc_put")
  PROVE  TInv'
<1> USE DEF Becomes
<1>1. /\ pc[t] = "dc_writing"
      /\ pc' \in [Thread -> Label] /\ pc'[t] = "dc_put"
      /\ \A u \in Thread : u # t => pc'[u] = pc[u]
      /\ Becomes(sock.state, sock.generation, FALSE,
                 sock.writeQueue, sock.pending, sock.overlap) /\ SameMail
      /\ UNCHANGED <<queueMutex, handling, expected, starting>>
  BY GoEffect, WritingEffect DEF TInv, Types, CloseStep, At, locals
<1>2. Types' /\ Closing'
  BY <1>1 DEF TInv, Types, Closing
<1>3. Locking'
  BY <1>1 DEF TInv, Types, Closing, Locking
<1>4. OneIncoming' /\ OneWrite'
  BY <1>1 DEF TInv, Types, Locking, OneIncoming, OneWrite
<1>5. Marking' /\ Generations'
  BY <1>1 DEF TInv, Types, Closing, Locking, OneWrite, Marking,
     Generations
<1>6. Attended'
  BY <1>1 DEF TInv, Types, Closing, Locking, Marking, Generations,
     Attended
<1>7. Untouched' /\ Counted'
  <2>1. ~Kept'
    BY <1>1 DEF TInv, Closing, Kept
  <2>2. UnderWay' => UnderWay
    BY <1>1
  <2>3. Connecting' => Connecting
    BY <1>1 DEF Connecting
  <2>4. /\ sock'.state = sock.state
        /\ \A u \in Thread : Writer(u)' => Writer(u)
    BY <1>1
  <2> HIDE DEF UnderWay, Writer, Becomes
  <2> QED
    BY <1>1, <2>1, <2>2, <2>3, <2>4 DEF TInv, Untouched, Counted, SameMail
<1> QED
  BY <1>2, <1>3, <1>4, <1>5, <1>6, <1>7 DEF TInv

LEMMA ClosePutKeeps ==
  ASSUME TInv, NEW t \in {"io", "main"},
         CloseStep(t, "dc_put", put(sock, "IN_DISCONNECTED", {}),
                   Back(t))
  PROVE  TInv'
<1> USE DEF Becomes
<1>1. /\ pc[t] = "dc_put"
      /\ pc' \in [Thread -> Label] /\ pc'[t] = Back(t)
      /\ \A u \in Thread : u # t => pc'[u] = pc[u]
      /\ Becomes(sock.state, sock.generation, sock.writing, sock.writeQueue,
                 sock.pending, sock.overlap) /\ SameMail
      /\ UNCHANGED <<queueMutex, handling, expected, starting>>
  BY GoEffect, PutSame DEF TInv, Types, CloseStep, At, locals, Back
<1>2. Types' /\ Closing'
  BY <1>1 DEF TInv, Types, Closing, Back
<1>3. Locking'
  BY <1>1 DEF TInv, Types, Closing, Locking, Back
<1>4. OneIncoming' /\ OneWrite'
  BY <1>1 DEF TInv, Types, Locking, OneIncoming, OneWrite, Back
<1>5. Marking' /\ Generations'
  BY <1>1 DEF TInv, Types, Closing, Locking, OneWrite, Marking,
     Generations, Back
<1>6. Attended'
  BY <1>1 DEF TInv, Types, Closing, Locking, Marking, Generations,
     Attended, Back
<1>7. Untouched' /\ Counted'
  <2>1. Quiet
    BY <1>1 DEF TInv, Types, Closing, Locking, OneIncoming, Untouched,
       Quiet, SameMail, Connecting, Kept,
       Back, SocketState
  <2> QED
    BY <2>1, QuietKeeps DEF TInv
<1> QED
  BY <1>2, <1>3, <1>4, <1>5, <1>6, <1>7 DEF TInv

----------------------------------------------------------------------------
(* runIOThread and the handlers.                                           *)

LEMMA RunOneKeeps ==
  ASSUME TInv, RunOne
  PROVE  TInv'
<1> USE DEF Becomes
<1>1. /\ pc["io"] = "idle"
      /\ pc' \in [Thread -> Label] /\ pc'["io"] = "guard"
      /\ \A u \in Thread : u # "io" => pc'[u] = pc[u]
      /\ UNCHANGED <<queueMutex, expected, starting>>
  BY GoEffect DEF TInv, RunOne, At
<1>2. PICK op \in sock.pending :
        /\ handling' \in [op : Op, ec : ErrorCode] /\ handling'.op = op
        /\ Becomes(sock.state, sock.generation, sock.writing, sock.writeQueue,
                   sock.pending \ {op}, sock.overlap) /\ SameMail
  <2>1. PICK op \in sock.pending, ec \in Outcomes :
          sock' = Completed(sock, op) /\ handling' = [op |-> op, ec |-> ec]
    BY DEF RunOne
  <2>2. op \in Op /\ ec \in ErrorCode
    BY ThreadsAssumption DEF TInv, Types, Socket
  <2> QED
    BY <2>1, <2>2, CompletedEffects DEF TInv, Types
<1>3. Types'
  BY <1>1, <1>2 DEF TInv, Types, Started
<1>4. Closing'
  BY <1>1, <1>2 DEF TInv, Types, Closing, Started
<1>5. Locking'
  BY <1>1, <1>2 DEF TInv, Types, Closing, Locking, Started
<1>6. OneIncoming'
  BY <1>1, <1>2 DEF TInv, Types, OneIncoming, Started
<1>7. OneWrite'
  BY <1>1, <1>2 DEF TInv, Types, Locking, OneIncoming, OneWrite, Started
<1>8. Marking'
  BY <1>1, <1>2 DEF TInv, Types, Closing, Locking, OneWrite, Marking,
     Generations, Started
<1>9. Generations'
  BY <1>1, <1>2 DEF TInv, Types, Closing, Generations, Started
<1>10. Attended'
  BY <1>1, <1>2 DEF TInv, Types, Closing, Locking, Marking, Generations,
     Attended, Started
<1>11. Untouched' /\ Counted'
  <2>1. Quiet
    BY <1>1, <1>2 DEF TInv, Types, Closing, Locking, OneIncoming, Untouched,
       Quiet, SameMail, Connecting, Kept
  <2> QED
    BY <2>1, QuietKeeps DEF TInv
<1> QED
  BY <1>3, <1>4, <1>5, <1>6, <1>7, <1>8, <1>9, <1>10, <1>11 DEF TInv

LEMMA GuardKeeps ==
  ASSUME TInv, Guard
  PROVE  TInv'
<1>1. /\ pc["io"] = "guard" /\ pc' \in [Thread -> Label]
      /\ \A u \in Thread : u # "io" => pc'[u] = pc[u]
      /\ \/ pc'["io"] = "idle" /\ sock.generation # handling.op.gen
         \/ pc'["io"] = "sd_load"
         \/ pc'["io"] = "wr_reset" /\ handling.op.kind = "write"
         \/ pc'["io"] = "rd_put" /\ handling.op.kind = "read"
         \/ /\ pc'["io"] \in {"reset", "connected", "secured", "hs_cas"}
            /\ handling.op.kind \in ConnectPhase
      /\ handling' \in [op : Op, ec : ErrorCode]
      /\ handling'.op.kind \in Started
      /\ UNCHANGED <<sock, queueMutex, expected, starting>>
  <2>1. /\ pc["io"] = "guard" /\ handling' = NotHandled
        /\ UNCHANGED <<sock, queueMutex, expected, starting>>
    BY DEF Guard, At
  <2>2. /\ NotHandled \in [op : Op, ec : ErrorCode]
        /\ NotHandled.op.kind \in Started
    BY DEF NotHandled, Op, OpKind, ConnectPhase, ErrorCode, Started, Incoming
  <2>3. handling.op.kind \in Started
    BY DEF TInv, Types
  <2>4. PICK l \in {"idle", "sd_load", Handler[handling.op.kind]} :
          Go("io", l) /\ (l = "idle" => sock.generation # handling.op.gen)
    BY <2>3, HandlerLabel DEF Guard
  <2>5. l \in Label
    BY <2>3, <2>4, HandlerLabel
  <2>6. /\ pc' \in [Thread -> Label] /\ pc'["io"] = l
        /\ \A u \in Thread : u # "io" => pc'[u] = pc[u]
    BY <2>4, <2>5, GoEffect DEF TInv
  <2> QED
    BY <2>1, <2>2, <2>3, <2>4, <2>6, HandlerLabel DEF Started,
       Incoming
<1>2. Types'
  BY <1>1, GenerationBound DEF TInv, Types, Started, Incoming,
     ConnectPhase
<1>3. Closing'
  BY <1>1, GenerationBound DEF TInv, Types, Closing, Started, Incoming,
     ConnectPhase
<1>4. Locking'
  BY <1>1, GenerationBound DEF TInv, Types, Closing, Locking, Started,
     Incoming, ConnectPhase
<1>5. OneIncoming'
  BY <1>1, GenerationBound DEF TInv, Types, OneIncoming, Started,
     Incoming, ConnectPhase
<1>6. OneWrite'
  BY <1>1, GenerationBound DEF TInv, Types, Locking, OneIncoming,
     OneWrite, Started, Incoming, ConnectPhase
<1>7. Marking'
  BY <1>1, GenerationBound DEF TInv, Types, Closing, Locking, OneWrite,
     Marking, Generations, Started, Incoming, ConnectPhase
<1>8. Generations'
  BY <1>1, GenerationBound DEF TInv, Types, Closing, Generations, Started,
     Incoming, ConnectPhase
<1>9. Attended'
  BY <1>1, GenerationBound DEF TInv, Types, Closing, Locking, Marking,
     Generations, Attended, Started, Incoming, ConnectPhase
<1>10. Untouched' /\ Counted'
  <2>1. Quiet
    BY <1>1 DEF TInv, Types, Closing, Locking, OneIncoming, Untouched,
       Quiet, SameMail, Connecting, Kept,
       Incoming, ConnectPhase
  <2> QED
    BY <2>1, QuietKeeps DEF TInv
<1> QED
  BY <1>2, <1>3, <1>4, <1>5, <1>6, <1>7, <1>8, <1>9, <1>10 DEF TInv

LEMMA VerifyFailsKeeps ==
  ASSUME TInv, VerifyFails
  PROVE  TInv'
<1>1. /\ pc["io"] = "idle"
      /\ pc' \in [Thread -> Label] /\ pc'["io"] = "sd_load"
      /\ \A u \in Thread : u # "io" => pc'[u] = pc[u]
      /\ UNCHANGED <<sock, queueMutex, handling, expected, starting>>
  BY GoEffect DEF TInv, VerifyFails, At
<1>2. Types' /\ Closing'
  BY <1>1 DEF TInv, Types, Closing
<1>3. Locking'
  BY <1>1 DEF TInv, Types, Closing, Locking
<1>4. OneIncoming' /\ OneWrite'
  BY <1>1 DEF TInv, Types, Locking, OneIncoming, OneWrite
<1>5. Marking' /\ Generations'
  BY <1>1 DEF TInv, Types, Closing, Locking, OneWrite, Marking,
     Generations
<1>6. Attended'
  BY <1>1 DEF TInv, Types, Closing, Locking, Marking, Generations,
     Attended
<1>7. Untouched' /\ Counted'
  <2>1. Quiet
    BY <1>1 DEF TInv, Types, Closing, Locking, OneIncoming, Untouched,
       Quiet, SameMail, Connecting, Kept
  <2> QED
    BY <2>1, QuietKeeps DEF TInv
<1> QED
  BY <1>2, <1>3, <1>4, <1>5, <1>6, <1>7 DEF TInv

LEMMA HostResolvedKeeps ==
  ASSUME TInv, HostResolved
  PROVE  TInv'
<1> USE DEF Becomes
<1>1. /\ pc["io"] = "reset" /\ pc' \in [Thread -> Label]
      /\ \A u \in Thread : u # "io" => pc'[u] = pc[u]
      /\ Becomes(sock.state, sock.generation, sock.writing, sock.writeQueue,
                 sock.pending, sock.overlap)
      /\ SameMail
      /\ \/ /\ pc'["io"] = "capture" /\ starting' \in [Thread -> Task]
            /\ starting'["io"].kind = "connect" /\ starting'["io"].then = "idle"
            /\ \A u \in Thread : u # "io" => starting'[u] = starting[u]
         \/ pc'["io"] = "sd_load" /\ starting' = starting
      /\ UNCHANGED <<queueMutex, handling, expected>>
  <2>1. /\ Becomes(sock.state, sock.generation, sock.writing, sock.writeQueue,
                   sock.pending, sock.overlap)
        /\ SameMail
    <3>1. sock.sent = << >>
      BY DEF TInv, Untouched, Connecting, HostResolved, At
    <3> QED
      BY <3>1, ResetEffect DEF TInv, Types, HostResolved, SameMail
  <2>2. CASE Starts("io", "connect", "idle")
    BY <2>1, <2>2, StartsEffect
       DEF TInv, HostResolved, At, Started, Incoming, ConnectPhase
  <2>3. CASE Go("io", "sd_load") /\ UNCHANGED starting
    BY <2>1, <2>3, GoEffect DEF TInv, HostResolved, At
  <2> QED
    BY <2>2, <2>3 DEF HostResolved
<1>2. Types' /\ Closing'
  BY <1>1 DEF TInv, Types, Closing, Incoming, ConnectPhase
<1>3. Locking'
  BY <1>1 DEF TInv, Types, Closing, Locking, Incoming, ConnectPhase
<1>4. OneIncoming' /\ OneWrite'
  BY <1>1 DEF TInv, Types, Locking, OneIncoming, OneWrite, Incoming,
     ConnectPhase
<1>5. Marking' /\ Generations'
  BY <1>1 DEF TInv, Types, Closing, Locking, OneWrite, Marking,
     Generations, Incoming, ConnectPhase
<1>6. Attended'
  BY <1>1 DEF TInv, Types, Closing, Locking, Marking, Generations,
     Attended, Incoming, ConnectPhase
<1>7. Untouched' /\ Counted'
  <2>1. Quiet
    BY <1>1 DEF TInv, Types, Closing, Locking, OneIncoming, Untouched,
       Quiet, SameMail, Connecting, Kept,
       Incoming, ConnectPhase
  <2> QED
    BY <2>1, QuietKeeps DEF TInv
<1> QED
  BY <1>2, <1>3, <1>4, <1>5, <1>6, <1>7 DEF TInv

LEMMA ContinueKeeps ==
  ASSUME TInv, NEW label \in {"connected", "secured"},
         NEW kind \in {"ssl_handshake", "handshake"}, Continue(label, kind)
  PROVE  TInv'
<1>1. /\ pc["io"] = label
      /\ pc' \in [Thread -> Label] /\ pc'["io"] = "capture"
      /\ \A u \in Thread : u # "io" => pc'[u] = pc[u]
      /\ starting' \in [Thread -> Task]
      /\ starting'["io"].kind \in Incoming
      /\ starting'["io"].then = "idle"
      /\ \A u \in Thread : u # "io" => starting'[u] = starting[u]
      /\ UNCHANGED <<sock, queueMutex, handling, expected>>
  BY StartsEffect DEF TInv, Continue, At, Started, Incoming, ConnectPhase
<1>2. Types' /\ Closing'
  BY <1>1 DEF TInv, Types, Closing, Incoming, ConnectPhase
<1>3. Locking'
  BY <1>1 DEF TInv, Types, Closing, Locking, Incoming, ConnectPhase
<1>4. OneIncoming' /\ OneWrite'
  BY <1>1 DEF TInv, Types, Locking, OneIncoming, OneWrite, Incoming,
     ConnectPhase
<1>5. Marking' /\ Generations'
  BY <1>1 DEF TInv, Types, Closing, Locking, OneWrite, Marking,
     Generations, Incoming, ConnectPhase
<1>6. Attended'
  BY <1>1 DEF TInv, Types, Closing, Locking, Marking, Generations,
     Attended, Incoming, ConnectPhase
<1>7. Untouched' /\ Counted'
  <2>1. Quiet
    BY <1>1 DEF TInv, Types, Closing, Locking, OneIncoming, Untouched,
       Quiet, SameMail, Connecting, Kept,
       Incoming, ConnectPhase
  <2> QED
    BY <2>1, QuietKeeps DEF TInv
<1> QED
  BY <1>2, <1>3, <1>4, <1>5, <1>6, <1>7 DEF TInv

LEMMA HandshakeCompletedKeeps ==
  ASSUME TInv, HandshakeCompleted
  PROVE  TInv'
<1> USE DEF Becomes
<1>1. /\ pc["io"] = "hs_cas" /\ pc' \in [Thread -> Label]
      /\ \A u \in Thread : u # "io" => pc'[u] = pc[u]
      /\ IF sock.state = "CONNECTING"
         THEN /\ Becomes("CONNECTED", sock.generation, sock.writing,
                         sock.writeQueue, sock.pending, sock.overlap) /\ SameMail
              /\ pc'["io"] = "hs_put"
         ELSE sock' = sock /\ pc'["io"] = "sd_load"
      /\ UNCHANGED <<queueMutex, handling, expected, starting>>
  BY GoEffect, EstablishedEffect DEF TInv, Types, HandshakeCompleted, At,
     SocketState, locals
<1>2. Types' /\ Closing'
  BY <1>1 DEF TInv, Types, Closing
<1>3. Locking'
  BY <1>1 DEF TInv, Types, Closing, Locking
<1>4. OneIncoming' /\ OneWrite'
  BY <1>1 DEF TInv, Types, Locking, OneIncoming, OneWrite
<1>5. Marking' /\ Generations'
  BY <1>1 DEF TInv, Types, Closing, Locking, OneWrite, Marking,
     Generations
<1>6. Attended'
  BY <1>1 DEF TInv, Types, Closing, Locking, Marking, Generations,
     Attended
<1>7. Untouched' /\ Counted'
  <2>1. Quiet
    BY <1>1 DEF TInv, Types, Closing, Locking, OneIncoming, Untouched,
       Quiet, SameMail, Connecting, Kept,
       Incoming, ConnectPhase
  <2> QED
    BY <2>1, QuietKeeps DEF TInv
<1> QED
  BY <1>2, <1>3, <1>4, <1>5, <1>6, <1>7 DEF TInv

LEMMA PutConnectedKeeps ==
  ASSUME TInv, PutConnected
  PROVE  TInv'
<1> USE DEF Becomes
<1>1. /\ pc["io"] = "hs_put"
      /\ pc' \in [Thread -> Label] /\ pc'["io"] = "capture"
      /\ \A u \in Thread : u # "io" => pc'[u] = pc[u]
      /\ Becomes(sock.state, sock.generation, sock.writing, sock.writeQueue,
                 sock.pending, sock.overlap) /\ SameMail
      /\ starting' \in [Thread -> Task]
      /\ starting'["io"].kind = "read"
      /\ starting'["io"].then = "cw_lock"
      /\ \A u \in Thread : u # "io" => starting'[u] = starting[u]
      /\ UNCHANGED <<queueMutex, handling, expected>>
  BY StartsEffect, PutSame DEF TInv, Types, PutConnected, At, Started,
     Incoming
<1>2. Types' /\ Closing'
  BY <1>1 DEF TInv, Types, Closing, Incoming
<1>3. Locking'
  BY <1>1 DEF TInv, Types, Closing, Locking, Incoming
<1>4. OneIncoming' /\ OneWrite'
  BY <1>1 DEF TInv, Types, Locking, OneIncoming, OneWrite, Incoming
<1>5. Marking' /\ Generations'
  BY <1>1 DEF TInv, Types, Closing, Locking, OneWrite, Marking,
     Generations, Incoming
<1>6. Attended'
  BY <1>1 DEF TInv, Types, Closing, Locking, Marking, Generations,
     Attended, Incoming
<1>7. Untouched' /\ Counted'
  <2>1. Quiet
    BY <1>1 DEF TInv, Types, Closing, Locking, OneIncoming, Untouched,
       Quiet, SameMail, Connecting, Kept,
       Incoming, ConnectPhase
  <2> QED
    BY <2>1, QuietKeeps DEF TInv
<1> QED
  BY <1>2, <1>3, <1>4, <1>5, <1>6, <1>7 DEF TInv

LEMMA OnReadKeeps ==
  ASSUME TInv, OnRead
  PROVE  TInv'
<1> USE DEF Becomes
<1>1. /\ pc["io"] = "rd_put"
      /\ pc' \in [Thread -> Label] /\ pc'["io"] = "capture"
      /\ \A u \in Thread : u # "io" => pc'[u] = pc[u]
      /\ Becomes(sock.state, sock.generation, sock.writing, sock.writeQueue,
                 sock.pending, sock.overlap) /\ SameMail
      /\ starting' \in [Thread -> Task]
      /\ starting'["io"].kind = "read"
      /\ starting'["io"].then = "idle"
      /\ \A u \in Thread : u # "io" => starting'[u] = starting[u]
      /\ UNCHANGED <<queueMutex, handling, expected>>
  <2>1. Becomes(sock.state, sock.generation, sock.writing, sock.writeQueue,
                sock.pending, sock.overlap) /\ SameMail
    <3>1. {sock.generation} \in SUBSET Nat
      BY DEF TInv, Types, Socket
    <3> QED
      BY <3>1, PutSame DEF TInv, Types, OnRead
  <2> QED
    BY <2>1, StartsEffect DEF TInv, OnRead, At, Started, Incoming
<1>2. Types' /\ Closing'
  BY <1>1 DEF TInv, Types, Closing, Incoming
<1>3. Locking'
  BY <1>1 DEF TInv, Types, Closing, Locking, Incoming
<1>4. OneIncoming' /\ OneWrite'
  BY <1>1 DEF TInv, Types, Locking, OneIncoming, OneWrite, Incoming
<1>5. Marking' /\ Generations'
  BY <1>1 DEF TInv, Types, Closing, Locking, OneWrite, Marking,
     Generations, Incoming
<1>6. Attended'
  BY <1>1 DEF TInv, Types, Closing, Locking, Marking, Generations,
     Attended, Incoming
<1>7. Untouched' /\ Counted'
  <2>1. Quiet
    BY <1>1 DEF TInv, Types, Closing, Locking, OneIncoming, Untouched,
       Quiet, SameMail, Connecting, Kept,
       Incoming, ConnectPhase
  <2> QED
    BY <2>1, QuietKeeps DEF TInv
<1> QED
  BY <1>2, <1>3, <1>4, <1>5, <1>6, <1>7 DEF TInv

LEMMA OnWriteKeeps ==
  ASSUME TInv, OnWrite
  PROVE  TInv'
<1> USE DEF Becomes
<1>1. /\ pc["io"] = "wr_reset"
      /\ pc' \in [Thread -> Label] /\ pc'["io"] = "cw_lock"
      /\ \A u \in Thread : u # "io" => pc'[u] = pc[u]
      /\ Becomes(sock.state, sock.generation, FALSE,
                 sock.writeQueue, sock.pending, sock.overlap)
      /\ sock'.sent = Append(sock.sent, sock.messageToWrite)
      /\ sock'.written = sock.written
      /\ sock'.messageToWrite = sock.messageToWrite
      /\ UNCHANGED <<queueMutex, handling, expected, starting>>
  BY GoEffect, SentEffect DEF TInv, Types, OnWrite, At, locals
<1>2. Types' /\ Closing'
  BY <1>1 DEF TInv, Types, Closing
<1>3. Locking'
  BY <1>1 DEF TInv, Types, Closing, Locking
<1>4. OneIncoming' /\ OneWrite'
  BY <1>1 DEF TInv, Types, Locking, OneIncoming, OneWrite
<1>5. Marking' /\ Generations'
  BY <1>1 DEF TInv, Types, Closing, Locking, OneWrite, Marking,
     Generations
<1>6. Attended'
  BY <1>1 DEF TInv, Types, Closing, Locking, Marking, Generations,
     Attended
<1>7. Untouched' /\ Counted'
  <2>1. UnderWay /\ ~UnderWay'
    BY <1>1 DEF TInv, OneWrite
  <2>2. ~Connecting'
    <3>1. ~Connecting
      BY <2>1 DEF TInv, Untouched
    <3> QED
      BY <1>1, <3>1 DEF Connecting
  <2>3. Kept' => Kept
    BY <1>1 DEF Kept
  <2> DEFINE n == sock.messageToWrite
  <2>4. /\ sock.sent \in Seq(Nat) /\ n \in Nat /\ n = Len(sock.sent) + 1
        /\ \A i \in DOMAIN sock.sent : sock.sent[i] = i
    BY <2>1 DEF TInv, Types, Socket, Counted
  <2>5. /\ Len(Append(sock.sent, n)) = n
        /\ \A i \in DOMAIN Append(sock.sent, n) : Append(sock.sent, n)[i] = i
    BY <2>4
  <2>6. /\ sock'.sent = Append(sock.sent, n) /\ sock'.messageToWrite = n
        /\ sock'.writing = FALSE /\ sock'.written = sock.written
        /\ sock'.writeQueue = sock.writeQueue
    BY <1>1
  <2>7. Kept => /\ sock.written = n + Len(sock.writeQueue)
                /\ \A i \in DOMAIN sock.writeQueue :
                     sock.writeQueue[i].id = n + i
    BY DEF TInv, Counted
  <2> HIDE DEF UnderWay, n
  <2>8. Counted'
    <3>1. \A i \in DOMAIN sock'.sent : sock'.sent[i] = i
      BY <2>5, <2>6
    <3>2. Len(sock'.sent) = n /\ n \in Nat
      BY <2>4, <2>5, <2>6
    <3>3. Kept' => /\ sock'.written = n + Len(sock'.writeQueue)
                   /\ \A i \in DOMAIN sock'.writeQueue :
                        sock'.writeQueue[i].id = n + i
      BY <2>3, <2>6, <2>7
    <3> QED
      BY <2>1, <2>6, <3>1, <3>2, <3>3 DEF Counted
  <2> QED
    BY <2>2, <2>8 DEF Untouched
<1> QED
  BY <1>2, <1>3, <1>4, <1>5, <1>6, <1>7 DEF TInv

----------------------------------------------------------------------------
(* sendMessages, main, and the end of run().                               *)

LEMMA PushMessageKeeps ==
  ASSUME TInv, PushMessage
  PROVE  TInv'
<1> USE DEF Becomes
<1>1. /\ pc["sender"] = "push"
      /\ pc' \in [Thread -> Label] /\ pc'["sender"] = "cw_lock"
      /\ \A u \in Thread : u # "sender" => pc'[u] = pc[u]
      /\ sock'.writeQueue # << >>
      /\ sock'.writeQueue = Append(sock.writeQueue,
                                    [type |-> "OUT_MESSAGE",
                                     id |-> sock.written + 1])
      /\ sock'.written = sock.written + 1 /\ sock'.sent = sock.sent
      /\ sock'.messageToWrite = sock.messageToWrite
      /\ Becomes(sock.state, sock.generation, sock.writing,
                 sock'.writeQueue, sock.pending, sock.overlap)
      /\ UNCHANGED <<queueMutex, handling, expected, starting>>
  BY GoEffect, PushEffect DEF TInv, Types, PushMessage, At, locals
<1>2. Types' /\ Closing'
  BY <1>1 DEF TInv, Types, Closing
<1>3. Locking'
  BY <1>1 DEF TInv, Types, Closing, Locking
<1>4. OneIncoming' /\ OneWrite'
  BY <1>1 DEF TInv, Types, Locking, OneIncoming, OneWrite
<1>5. Marking' /\ Generations'
  BY <1>1 DEF TInv, Types, Closing, Locking, OneWrite, Marking,
     Generations
<1>6. Attended'
  BY <1>1 DEF TInv, Types, Closing, Locking, Marking, Generations,
     Attended
<1>7. Untouched' /\ Counted'
  <2>1. (UnderWay' => UnderWay) /\ (Kept' => Kept)
    BY <1>1 DEF Kept
  <2>2. /\ Connecting' => Connecting
        /\ sock'.state = sock.state
        /\ \A u \in Thread : Writer(u)' => Writer(u)
    BY <1>1 DEF Connecting
  <2> DEFINE queue == sock.writeQueue
             n     == sock.messageToWrite
             m     == [type |-> "OUT_MESSAGE", id |-> sock.written + 1]
  <2>3. /\ queue \in Seq(OutMessage) /\ n \in Nat /\ sock.written \in Nat
    BY DEF TInv, Types, Socket
  <2>4. m \in OutMessage /\ m.id = sock.written + 1
    BY <2>3 DEF OutMessage
  <2>5. /\ sock'.writeQueue = Append(queue, m) /\ sock'.messageToWrite = n
        /\ sock'.writing = sock.writing /\ sock'.written = sock.written + 1
        /\ sock'.sent = sock.sent
    BY <1>1
  <2>6. Kept => /\ n = Len(sock.sent) + IF sock.writing THEN 1 ELSE 0
                /\ sock.written = n + Len(queue)
                /\ \A i \in DOMAIN queue : queue[i].id = n + i
    BY DEF TInv, Counted
  <2> HIDE DEF queue, n, m
  <2>7. /\ Len(Append(queue, m)) = Len(queue) + 1 /\ Len(queue) \in Nat
        /\ \A i \in DOMAIN Append(queue, m) :
             Append(queue, m)[i] = IF i = Len(queue) + 1 THEN m ELSE queue[i]
        /\ DOMAIN Append(queue, m) = DOMAIN queue \cup {Len(queue) + 1}
    BY <2>3, <2>4
  <2>8. Kept => \A i \in DOMAIN Append(queue, m) :
                  Append(queue, m)[i].id = n + i
    <3> SUFFICES ASSUME Kept, NEW i \in DOMAIN queue \cup {Len(queue) + 1}
                 PROVE  Append(queue, m)[i].id = n + i
      BY <2>7
    <3>1. CASE i = Len(queue) + 1
      <4>1. Append(queue, m)[i] = m
        BY <2>7, <3>1
      <4>2. m.id = n + Len(queue) + 1
        BY <2>4, <2>6
      <4> QED
        BY <2>3, <2>7, <3>1, <4>1, <4>2
    <3>2. CASE i # Len(queue) + 1
      <4>1. i \in DOMAIN queue /\ Append(queue, m)[i] = queue[i]
        BY <2>7, <3>2
      <4> QED
        BY <2>6, <4>1
    <3> QED
      BY <3>1, <3>2
  <2> HIDE DEF UnderWay, Writer, Becomes
  <2>9. Counted'
    <3>1. /\ \A i \in DOMAIN sock'.sent : sock'.sent[i] = i
          /\ UnderWay' => sock'.messageToWrite = Len(sock'.sent) + 1
      BY <2>1, <2>5 DEF TInv, Counted, n
    <3>2. Kept' => /\ n = Len(sock'.sent) + IF sock'.writing THEN 1 ELSE 0
                   /\ sock'.written = n + Len(sock'.writeQueue)
      <4>1. Len(sock'.writeQueue) = Len(queue) + 1 /\ Len(queue) \in Nat
        BY <2>5, <2>7
      <4>2. n \in Nat /\ sock'.written = sock.written + 1
        BY <2>3, <2>5
      <4>3. Kept' => sock.written = n + Len(queue)
        BY <2>1, <2>6
      <4>4. Kept' => n = Len(sock'.sent) + IF sock'.writing THEN 1 ELSE 0
        BY <2>1, <2>5, <2>6
      <4>5. Kept' => sock'.written = n + Len(sock'.writeQueue)
        BY <4>1, <4>2, <4>3
      <4> QED
        BY <4>4, <4>5
    <3>3. Kept' => \A i \in DOMAIN sock'.writeQueue :
                     sock'.writeQueue[i].id = n + i
      BY <2>1, <2>5, <2>8
    <3> QED
      BY <2>5, <3>1, <3>2, <3>3 DEF Counted
  <2> QED
    BY <2>1, <2>2, <2>5, <2>9 DEF TInv, Untouched, n
<1> QED
  BY <1>2, <1>3, <1>4, <1>5, <1>6, <1>7 DEF TInv

LEMMA MainLoopKeeps ==
  ASSUME TInv, MainLoop
  PROVE  TInv'
<1> USE DEF Becomes
<1>1. /\ pc["main"] = "loop" /\ pc' \in [Thread -> Label]
      /\ \A u \in Thread : u # "main" => pc'[u] = pc[u]
      /\ pc'["main"] \in {"loop", "sd_load"}
      /\ Becomes(sock.state, sock.generation, sock.writing, sock.writeQueue,
                 sock.pending, sock.overlap) /\ SameMail
      /\ UNCHANGED <<queueMutex, handling, expected, starting>>
  <2>1. CASE rounds < Rounds
    BY <2>1, InboxEffect DEF TInv, Types, MainLoop, At
  <2>2. CASE ~(rounds < Rounds)
    BY <2>2, GoEffect DEF TInv, Types, MainLoop, At, SameMail
  <2> QED
    BY <2>1, <2>2
<1>2. Types' /\ Closing'
  BY <1>1 DEF TInv, Types, Closing
<1>3. Locking'
  BY <1>1 DEF TInv, Types, Closing, Locking
<1>4. OneIncoming' /\ OneWrite'
  BY <1>1 DEF TInv, Types, Locking, OneIncoming, OneWrite
<1>5. Marking' /\ Generations'
  BY <1>1 DEF TInv, Types, Closing, Locking, OneWrite, Marking,
     Generations
<1>6. Attended'
  BY <1>1 DEF TInv, Types, Closing, Locking, Marking, Generations,
     Attended
<1>7. Untouched' /\ Counted'
  <2>1. Quiet
    BY <1>1 DEF TInv, Types, Closing, Locking, OneIncoming, Untouched,
       Quiet, SameMail, Connecting, Kept
  <2> QED
    BY <2>1, QuietKeeps DEF TInv
<1> QED
  BY <1>2, <1>3, <1>4, <1>5, <1>6, <1>7 DEF TInv

LEMMA WaitKeeps ==
  ASSUME TInv, NEW t \in Thread, NEW l \in {"push", "end", "join"}, Go(t, l),
         l = "push" => t = "sender", l = "join" => t = "main",
         pc[t] \in {"idle", "stop", "join"},
         UNCHANGED <<sock, queueMutex, handling, expected, starting>>
  PROVE  TInv'
<1>1. /\ pc' \in [Thread -> Label] /\ pc'[t] = l
      /\ \A u \in Thread : u # t => pc'[u] = pc[u]
  BY GoEffect DEF TInv
<1>2. Types' /\ Closing'
  BY <1>1 DEF TInv, Types, Closing
<1>3. Locking'
  BY <1>1 DEF TInv, Types, Closing, Locking
<1>4. OneIncoming' /\ OneWrite'
  BY <1>1 DEF TInv, Types, Locking, OneIncoming, OneWrite
<1>5. Marking' /\ Generations'
  BY <1>1 DEF TInv, Types, Closing, Locking, OneWrite, Marking,
     Generations
<1>6. Attended'
  BY <1>1 DEF TInv, Types, Closing, Locking, Marking, Generations,
     Attended
<1>7. Untouched' /\ Counted'
  <2>1. Quiet
    BY <1>1 DEF TInv, Types, Closing, Locking, OneIncoming, Untouched,
       Quiet, SameMail, Connecting, Kept
  <2> QED
    BY <2>1, QuietKeeps DEF TInv
<1> QED
  BY <1>2, <1>3, <1>4, <1>5, <1>6, <1>7 DEF TInv

----------------------------------------------------------------------------
(* TInv is an invariant.                                                   *)

LEMMA InitTInv == Init => TInv
<1> SUFFICES ASSUME Init PROVE TInv
  OBVIOUS
<1> DEFINE new == NewSocket("wss")
           op  == [kind |-> "resolve", gen |-> 1, stream |-> 0]
<1>1. new \in Socket
  <2>1. /\ "wss" \in Kind /\ "DISCONNECTED" \in SocketState
        /\ << >> \in Seq(OutMessage) /\ << >> \in Seq(InMessage)
        /\ << >> \in Seq(Nat)
    BY DEF Kind, SocketState
  <2> QED
    BY <2>1 DEF NewSocket, Socket
<1>2. /\ new.state = "DISCONNECTED" /\ new.generation = 0 /\ new.stream = 0
      /\ new.pending = {} /\ ~new.overlap /\ ~new.writing
      /\ ~new.crashed /\ new.writeQueue = << >> /\ new.sent = << >>
      /\ new.messageToWrite = 0 /\ new.written = 0
  BY DEF NewSocket
<1> HIDE DEF new
<1>3. op \in Op
  BY DEF Op, OpKind, ConnectPhase
<1>4. /\ sock \in Socket /\ sock.state = "CONNECTING" /\ sock.generation = 1
      /\ sock.pending = {op} /\ ~sock.overlap /\ ~sock.writing
      /\ sock.writeQueue = << >> /\ sock.sent = << >>
      /\ sock.messageToWrite = 0 /\ sock.written = 0
  <2> DEFINE q == << >>
             v == [[new EXCEPT !.state = "CONNECTING"] EXCEPT
                     !.writeQueue = q]
             u == [v EXCEPT !.generation = 1]
  <2>1. q \in Seq(OutMessage) /\ "CONNECTING" \in SocketState
    BY DEF SocketState
  <2>2. sock = Start(u, "resolve")
    <3>1. v.generation + 1 = 1
      BY <1>1, <1>2 DEF Socket
    <3>2. sock = open(new, TRUE)
      BY DEF Init, new
    <3>3. sock = Start([v EXCEPT !.generation = v.generation + 1], "resolve")
      BY <1>2, <3>2 DEF open, clearQueue
    <3> HIDE DEF v
    <3> QED
      BY <3>1, <3>3
  <2> HIDE DEF q
  <2>3. /\ u \in Socket /\ u.state = "CONNECTING" /\ u.generation = 1
        /\ u.writeQueue = q /\ u.stream = 0 /\ u.pending = {}
    BY <1>1, <1>2, <2>1 DEF Socket
  <2>4. /\ ~u.overlap /\ ~u.writing /\ ~u.crashed /\ u.sent = << >>
        /\ u.messageToWrite = 0 /\ u.written = 0
    BY <1>1, <1>2, <2>1 DEF Socket
  <2> HIDE DEF u
  <2>5. sock = [u EXCEPT !.pending = {op}, !.overlap = FALSE,
                         !.crashed = FALSE]
    BY <2>2, <2>3, <2>4 DEF Start, Current
  <2>6. {op} \subseteq Op
    BY <1>3
  <2> HIDE DEF op
  <2> QED
    BY <2>3, <2>4, <2>5, <2>6 DEF Socket, q
<1>5. /\ pc \in [Thread -> Label] /\ pc["main"] = "loop"
      /\ pc["io"] = "idle" /\ pc["sender"] = "idle"
      /\ queueMutex = "free"
  BY DEF Init
<1>6. /\ handling \in [op : Op, ec : ErrorCode]
      /\ handling.op.kind \in Started
      /\ starting \in [Thread -> Task]
      /\ expected \in [Thread -> SocketState]
  BY DEF Init, NotHandled, Idle, Op, OpKind, Incoming, ConnectPhase, Started,
     ErrorCode, Task, SocketState
<1>7. op.kind = "resolve" /\ op.gen = 1
  OBVIOUS
<1> HIDE DEF op
<1>8. Types
  BY <1>4, <1>5, <1>6, <1>7 DEF Types, Started, Incoming, ConnectPhase
<1>9. Closing /\ Locking
  BY <1>4, <1>5 DEF Closing, Locking
<1>10. OneIncoming /\ OneWrite
  BY <1>4, <1>5, <1>7 DEF OneIncoming, OneWrite
<1>11. Marking /\ Generations /\ Attended
  BY <1>4, <1>5, <1>7 DEF Marking, Generations, Attended
<1>12. Untouched
  BY <1>4, <1>5, <1>7 DEF Untouched
<1>13. Counted
  <2>1. ~UnderWay
    BY <1>4, <1>5, <1>7
  <2> HIDE DEF UnderWay
  <2> QED
    BY <1>4, <2>1 DEF Counted
<1> QED
  BY <1>8, <1>9, <1>10, <1>11, <1>12, <1>13 DEF TInv

LEMMA CloseConnectionKeeps ==
  ASSUME TInv, NEW t \in {"io", "main"}, CloseConnection(t)
  PROVE  TInv'
<1>1. CASE PutError(t)
  <2>1. t = "io"
    BY <1>1 DEF TInv, Types, PutError, At
  <2> QED
    BY <1>1, <2>1, PutErrorKeeps
<1>2. CASE DoClose(t)
  BY <1>2, CloseGenKeeps, CloseSocketKeeps, CloseQueueKeeps, CloseStateKeeps,
     CloseWritingKeeps, ClosePutKeeps DEF DoClose
<1> QED
  BY <1>1, <1>2, LoadStateKeeps, ExchangeStateKeeps, TryAgainKeeps
     DEF CloseConnection

LEMMA CheckWritingKeeps ==
  ASSUME TInv, NEW t \in {"io", "sender"}, CheckWriting(t)
  PROVE  TInv'
BY LockQueueKeeps, TestStateKeeps, TestWritingKeeps, TakeMessageKeeps
   DEF CheckWriting

LEMMA NextTInv ==
  ASSUME TInv, [Next]_vars
  PROVE  TInv'
<1>1. CASE RunOne \/ VerifyFails
  BY <1>1, RunOneKeeps, VerifyFailsKeeps
<1>2. CASE IO
  <2>1. CASE RunEnds
    BY <2>1, WaitKeeps DEF RunEnds, At, locals
  <2>2. CASE SocketConnected \/ SSLHandshakeComplete
    BY <2>2, ContinueKeeps DEF SocketConnected, SSLHandshakeComplete
  <2> QED
    BY <1>2, <2>1, <2>2, GuardKeeps, HostResolvedKeeps, PutConnectedKeeps,
       HandshakeCompletedKeeps, OnReadKeeps, OnWriteKeeps, CaptureKeeps,
       StartOperationKeeps, CheckWritingKeeps, CloseConnectionKeeps DEF IO
<1>3. CASE Sender
  <2>1. CASE SenderLoop
    BY <2>1, WaitKeeps DEF SenderLoop, At, locals
  <2> QED
    BY <1>3, <2>1, PushMessageKeeps, CaptureKeeps, StartOperationKeeps,
       CheckWritingKeeps DEF Sender
<1>4. CASE Main
  <2>1. CASE MainStops \/ MainJoins
    BY <2>1, WaitKeeps DEF MainStops, MainJoins, At, locals
  <2> QED
    BY <1>4, <2>1, MainLoopKeeps, CloseConnectionKeeps DEF Main
<1>5. CASE UNCHANGED vars
  <2>1. UNCHANGED <<sock, queueMutex, pc, handling, expected, starting>>
    BY <1>5 DEF vars, locals
  <2>2. Untouched' /\ Counted'
    BY <2>1 DEF TInv, Untouched, Counted, Connecting, Kept
  <2> QED
    BY <2>1, <2>2 DEF TInv, Types, Closing, Locking, OneIncoming, OneWrite,
       Marking, Generations, Attended
<1> QED
  BY <1>1, <1>2, <1>3, <1>4, <1>5 DEF Next

\* The inductive invariant of the threaded program: who may be at which
\* label, who holds the lock and which operations are under way, in each
\* state of the connection.
THEOREM ThreadsInvariant == Spec => []TInv
<1>1. Init => TInv
  BY InitTInv
<1>2. TInv /\ [Next]_vars => TInv'
  BY NextTInv
<1> QED
  BY <1>1, <1>2, PTL DEF Spec

\* closeNow() of main and a failing handler of io never both run doClose():
\* setDisconnectingCAS lets one of them through.
THEOREM ClosedOnce == Spec => []OneDisconnect
<1>1. TInv => OneDisconnect
  BY GenerationBound DEF OneDisconnect
<1> QED
  BY <1>1, ThreadsInvariant, PTL

\* When every thread has ended, doClose() has run to its end and no mark of
\* a write is left, however closeNow() met the end of the handshake.
THEOREM ProgramEndsClosed == Spec => []EndsDisconnected
<1>1. TInv => EndsDisconnected
  BY DEF TInv, Closing, Marking, EndsDisconnected, At
<1> QED
  BY <1>1, ThreadsInvariant, PTL

\* checkWriting() on two threads hands one message at a time to the stream,
\* although onWrite() resets `writing` without the lock.
THEOREM SingleWrite == Spec => []OneWriteAtATime
<1>1. TInv => OneWriteAtATime
  BY DEF TInv, OneWrite, OneWriteAtATime
<1> QED
  BY <1>1, ThreadsInvariant, PTL

\* No wake-up of the queue is lost between write() of the sender and
\* onWrite() on io.
THEOREM QueueIsAttended == Spec => []QueueAttended
<1>1. TInv => QueueAttended
  <2> SUFFICES ASSUME TInv, At("io", "idle"), At("sender", "idle"),
                      sock.state = "CONNECTED", sock.writeQueue # << >>
               PROVE  \E op \in Current(sock) : op.kind = "write"
    BY DEF QueueAttended
  <2>1. pc["main"] \notin QueueLabel \cup OpLabel
    BY DEF TInv, Types
  <2>2. Pending({"write"}) # {}
    BY <2>1 DEF TInv, Attended, At
  <2>3. sock.generation = 1 /\ \A op \in sock.pending : op.gen = 1
    BY DEF TInv, Closing, Generations
  <2> QED
    BY <2>2, <2>3 DEF Current
<1> QED
  BY <1>1, ThreadsInvariant, PTL

\* Whichever thread takes a message off the queue, messages go out in the
\* order of the write() calls, none twice, and none is lost before the queue
\* is cleared by doClose().
THEOREM MessagesInOrder == Spec => []SentInOrder
<1>1. TInv => SentInOrder
  <2> SUFFICES ASSUME TInv PROVE SentInOrder
    OBVIOUS
  <2>1. /\ sock.sent \in Seq(Nat) /\ sock.writeQueue \in Seq(OutMessage)
        /\ sock.messageToWrite \in Nat
    BY DEF TInv, Types, Socket
  <2>2. sock.state \in {"CONNECTING", "CONNECTED"} => Kept
    BY DEF TInv, Closing, Kept
  <2> HIDE DEF UnderWay
  <2>3. \A i \in DOMAIN sock.sent : sock.sent[i] = i
    BY DEF TInv, Counted
  <2>4. ASSUME sock.state \in {"CONNECTING", "CONNECTED"}
        PROVE  /\ sock.written = Len(sock.sent)
                     + (IF sock.writing THEN 1 ELSE 0) + Len(sock.writeQueue)
               /\ \A i \in DOMAIN sock.writeQueue :
                    sock.writeQueue[i].id
                      = sock.written - Len(sock.writeQueue) + i
    <3> DEFINE n == sock.messageToWrite
               k == Len(sock.writeQueue)
    <3>1. /\ n = Len(sock.sent) + IF sock.writing THEN 1 ELSE 0
          /\ sock.written = n + k
          /\ \A i \in DOMAIN sock.writeQueue : sock.writeQueue[i].id = n + i
      BY <2>2, <2>4 DEF TInv, Counted
    <3>2. n \in Nat /\ k \in Nat
      BY <2>1
    <3> HIDE DEF n, k
    <3>3. sock.written - k = n
      BY <3>1, <3>2
    <3> QED
      BY <3>1, <3>3 DEF k
  <2> QED
    BY <2>3, <2>4 DEF SentInOrder
<1> QED
  BY <1>1, ThreadsInvariant, PTL
=============================================================================
