----------------------------- MODULE GLuaProofs -----------------------------
(***************************************************************************)
(* Proofs about the tables and lifetimes of module GLua, for every number  *)
(* of sockets and every bound.  What happens inside one socket is taken    *)
(* from the lemmas about GWSocketOps.                                      *)
(***************************************************************************)
EXTENDS GLua, GWSocketStepProofs

----------------------------------------------------------------------------
(* One socket of this module: of kind "ws" and never written to.           *)

PlainKind == {"resolve", "connect", "handshake", "read", "close"}

Plain(s) ==
  /\ s.kind = "ws"
  /\ \A op \in s.pending : op.kind \in PlainKind
  /\ \A i \in DOMAIN s.writeQueue : s.writeQueue[i].type = "OUT_DISCONNECT"

Sound(s) == Core(s) /\ Plain(s)

LEMMA NewOpKind ==
  ASSUME NEW s, NEW kind
  PROVE  NewOp(s, kind).kind = kind
BY DEF NewOp

LEMMA PlainPump ==
  ASSUME NEW s, Sound(s), NEW t, MayPump(s, t)
  PROVE  Plain(t)
<1>1. CASE t = s
  BY <1>1 DEF Sound
<1>2. CASE PumpStep(s, t)
  <2>1. s.writeQueue \in Seq(OutMessage) /\ s.writeQueue # << >>
    BY <1>2, FieldTypes DEF Sound, Core, Closable, PumpStep
  <2>2. /\ Head(s.writeQueue) = s.writeQueue[1] /\ 1 \in DOMAIN s.writeQueue
        /\ \A i \in DOMAIN Tail(s.writeQueue) :
             /\ i + 1 \in DOMAIN s.writeQueue
             /\ Tail(s.writeQueue)[i] = s.writeQueue[i + 1]
    BY <2>1, TailFacts
  <2>3. /\ t.kind = s.kind /\ t.writeQueue = Tail(s.writeQueue)
        /\ t.pending = s.pending \cup {NewOp(s, "close")}
    BY <1>2, <2>2 DEF PumpStep, SameConnection, Sound, Plain
  <2> QED
    BY <2>2, <2>3, NewOpKind DEF Sound, Plain, PlainKind
<1> QED
  BY <1>1, <1>2 DEF MayPump

LEMMA PlainOther ==
  ASSUME NEW s, Sound(s), NEW t, OtherStep(s, t)
  PROVE  Plain(t)
<1> USE NewOpKind DEF Plain, PlainKind, Sound
<1>1. CASE OpenStep(s, t)
  BY <1>1 DEF OpenStep
<1>2. CASE EndStep(s, t)
  BY <1>2 DEF EndStep
<1>3. CASE StaleStep(s, t)
  BY <1>3 DEF StaleStep, SameConnection, SameData
<1>4. CASE DeliverStep(s, t)
  BY <1>4 DEF DeliverStep, SameConnection, SameData
<1>5. CASE ConnectStep(s, t)
  BY <1>5 DEF ConnectStep, ConnectPhase
<1>6. CASE ReceiveStep(s, t)
  BY <1>6 DEF ReceiveStep, SameConnection, SameData
<1>7. CASE GiveUpStep(s, t)
  BY <1>7 DEF GiveUpStep
<1>8. CASE AskCloseStep(s, t)
  <2>1. PICK u : Core(u) /\ RequestStep(s, u) /\ MayPump(u, t)
    BY <1>8 DEF AskCloseStep, MayPump
  <2>2. s.writeQueue \in Seq(OutMessage) /\ CloseMessage \in OutMessage
    BY FieldTypes DEF Core, Closable, CloseMessage, OutMessage
  <2>3. \A i \in DOMAIN u.writeQueue :
          \/ i \in DOMAIN s.writeQueue /\ u.writeQueue[i] = s.writeQueue[i]
          \/ u.writeQueue[i] = CloseMessage
    BY <2>1, <2>2, AppendFacts DEF RequestStep
  <2>4. CloseMessage.type = "OUT_DISCONNECT"
    BY DEF CloseMessage
  <2>5. Plain(u)
    BY <2>1, <2>3, <2>4 DEF RequestStep, SameConnection
  <2> QED
    BY <2>1, <2>5, PlainPump
<1>9. CASE ResumeStep(s, t)
  <2>1. PICK u : /\ EstablishStep(s, u) \/ AcknowledgeStep(s, u)
                 /\ Core(u) /\ MayPump(u, t)
    BY <1>9 DEF ResumeStep
  <2>2. EstablishStep(s, u)
    BY <2>1 DEF AcknowledgeStep, Current
  <2>3. Plain(u)
    BY <2>2 DEF EstablishStep, SameData
  <2> QED
    BY <2>1, <2>3, PlainPump
<1> QED
  BY <1>1, <1>2, <1>3, <1>4, <1>5, <1>6, <1>7, <1>8, <1>9 DEF OtherStep

\* A completion leaves a sound socket, and a disconnected one as it is.
LEMMA HandleSound ==
  ASSUME NEW s, Sound(s), NEW op \in s.pending, NEW ec \in ErrorCode
  PROVE  LET t == Handle(s, op, ec)
         IN  /\ Sound(t) /\ OtherStep(s, t)
             /\ s.state = "DISCONNECTED" =>
                  t.state = "DISCONNECTED" /\ t.messageQueue = s.messageQueue
<1> DEFINE c == Completed(s, op)
           t == Handle(s, op, ec)
<1>1. Core(s) /\ s \in Socket /\ op.kind \in PlainKind
  BY DEF Sound, Core, Closable, Plain
<1>2. CASE op \notin Current(s)
  <2>1. op.gen # s.generation
    BY <1>2 DEF Current
  <2>2. c.generation = s.generation
    BY <1>1, CompletedEffect
  <2>3. t = c
    BY <2>1, <2>2 DEF Handle, guardGeneration
  <2>4. Core(c)
    BY <1>1, <2>1, StaleCompletion
  <2>5. /\ c.pending = s.pending \ {op} /\ c.state = s.state
        /\ c.messageQueue = s.messageQueue /\ c.kind = s.kind
        /\ SameData(s, c)
    BY <1>1, CompletedEffect
  <2>6. Plain(c)
    BY <2>5 DEF Plain, Sound, SameData
  <2>7. OtherStep(s, guardGeneration(c, op, c))
    BY <1>1, <1>2, GuardedStep
  <2>8. OtherStep(s, t)
    BY <2>3, <2>7 DEF guardGeneration
  <2> QED
    BY <2>3, <2>4, <2>5, <2>6, <2>8 DEF Sound
<1>3. CASE op \in Current(s)
  <2>1. op.gen = s.generation /\ c.generation = s.generation
    BY <1>1, <1>3, CompletedEffect DEF Current
  <2>2. s.state # "DISCONNECTED"
    BY <1>1, <1>3 DEF Core, Alive
  <2>3. op.kind = "close" \/ op.kind \in Incoming
    BY <1>1 DEF PlainKind, Incoming, ConnectPhase
  <2>4. op.kind \in Incoming => Resumed(c)
    BY <1>1, <1>3, IncomingCompleted
  <2>5. op.kind \in ConnectPhase => ~c.established
    BY <1>1, <1>3, CompletedEffect DEF Core, Lanes
  <2>6. op.kind = "read" => c.established
    BY <1>1, <1>3, CompletedEffect DEF Core, Lanes
  <2>7. CASE op.kind = "resolve"
    <3>1. t = hostResolvedStep(c, ec, "ok")
      BY <2>1, <2>7 DEF Handle, guardGeneration
    <3>2. Core(t) /\ OtherStep(s, t)
      BY <1>1, <1>3, <2>4, <2>5, <2>7, <3>1, HostResolvedStepCore,
         HostResolvedStepStep DEF Incoming, ConnectPhase
    <3> QED
      BY <2>2, <3>2, PlainOther DEF Sound
  <2>8. CASE op.kind = "connect"
    <3>1. t = socketConnected(c, ec)
      BY <2>1, <2>8 DEF Handle, guardGeneration
    <3>2. Core(t) /\ OtherStep(s, t)
      BY <1>1, <1>3, <2>4, <2>5, <2>8, <3>1, SocketConnectedCore,
         SocketConnectedStep DEF Incoming, ConnectPhase
    <3> QED
      BY <2>2, <3>2, PlainOther DEF Sound
  <2>9. CASE op.kind = "handshake"
    <3>1. t = handshakeCompleted(c, ec)
      BY <2>1, <2>9 DEF Handle, guardGeneration
    <3>2. Core(t) /\ OtherStep(s, t)
      BY <1>1, <1>3, <2>4, <2>5, <2>9, <3>1, HandshakeCompletedCore,
         HandshakeCompletedStep DEF Incoming, ConnectPhase
    <3> QED
      BY <2>2, <3>2, PlainOther DEF Sound
  <2>10. CASE op.kind = "read"
    <3>1. t = onRead(c, ec)
      BY <2>1, <2>10 DEF Handle, guardGeneration
    <3>2. Core(t) /\ OtherStep(s, t)
      BY <1>1, <1>3, <2>4, <2>6, <2>10, <3>1, OnReadCore, OnReadStep
      DEF Incoming
    <3> QED
      BY <2>2, <3>2, PlainOther DEF Sound
  <2>11. CASE op.kind = "close"
    <3>1. t = onDisconnected(c)
      BY <2>1, <2>11 DEF Handle, guardGeneration
    <3>2. Core(t)
      BY <1>1, <3>1, CompletedClosable, DoCloseCore DEF Core, onDisconnected
    <3>3. OtherStep(s, t)
      BY <1>1, <1>3, <3>1, OnDisconnectedStep
    <3> QED
      BY <2>2, <3>2, <3>3, PlainOther DEF Sound
  <2> QED
    BY <1>1, <2>7, <2>8, <2>9, <2>10, <2>11 DEF PlainKind
<1> QED
  BY <1>2, <1>3

\* The methods: a disconnected socket ignores close() and closeNow().
LEMMA CallsSound ==
  ASSUME NEW s, Sound(s)
  PROVE  /\ Sound(open(s, TRUE)) /\ Sound(close(s)) /\ Sound(closeNow(s))
         /\ Sound([s EXCEPT !.messageQueue = << >>])
         /\ s.state = "DISCONNECTED" => close(s) = s /\ closeNow(s) = s
         /\ OtherStep(s, open(s, TRUE)) /\ OtherStep(s, close(s))
         /\ OtherStep(s, closeNow(s))
         /\ OtherStep(s, [s EXCEPT !.messageQueue = << >>])
<1>1. Core(s)
  BY DEF Sound
<1>2. Sound(open(s, TRUE))
  BY <1>1, OpenCore, OpenCallStep, PlainOther DEF Sound
<1>3. Sound(close(s))
  BY <1>1, CloseCore, CloseCallStep, PlainOther DEF Sound
<1>4. Sound(closeNow(s))
  BY <1>1, CloseNowCore, CloseNowCallStep, PlainOther DEF Sound, Core
<1>5. s.state = "DISCONNECTED" => close(s) = s /\ closeNow(s) = s
  BY DEF close, closeNow, setDisconnectingCAS
<1>6. Sound([s EXCEPT !.messageQueue = << >>])
  <2> DEFINE q == << >>
             t == [s EXCEPT !.messageQueue = q]
  <2>1. s \in Socket /\ q \in Seq(InMessage)
    BY <1>1 DEF Core, Closable
  <2>2. DeliverStep(s, t)
    BY <1>1, DeliverCallStep
  <2> HIDE DEF q
  <2>3. t \in Socket /\ SameControl(s, t) /\ SameData(s, t)
    BY <2>1 DEF Socket, SameControl, SameData
  <2>4. Core(t)
    BY <1>1, <2>3, FrameControl DEF Core, SameData
  <2>5. OtherStep(s, t)
    BY <2>2 DEF OtherStep
  <2>6. Plain(t)
    BY <2>5, PlainOther
  <2> QED
    BY <2>4, <2>6 DEF Sound, q
<1>7. OtherStep(s, open(s, TRUE)) /\ OtherStep(s, close(s))
  BY <1>1, OpenCallStep, CloseCallStep
<1>8. OtherStep(s, closeNow(s))
  BY <1>1, CloseNowCallStep
<1>9. OtherStep(s, [s EXCEPT !.messageQueue = << >>])
  BY <1>1, DeliverCallStep DEF OtherStep
<1> QED
  BY <1>2, <1>3, <1>4, <1>5, <1>6, <1>7, <1>8, <1>9

----------------------------------------------------------------------------
(* The inductive invariant.                                                *)

\* Every socket is sound; one that was deleted may also be the remains that
\* the closing of the module has left.
Remains(s) == s \in Socket /\ s.pending = {}

SocketsSound ==
  \A s \in Sockets :
    Sound(socks[s]) \/ (s \in deleted /\ Remains(socks[s]))

\* A socket that was never created is new.
NewIsFresh ==
  \A s \in Sockets \ (allSockets \cup deleted) : socks[s] = NewSocket("ws")

\* What the tables and the Lua state refer to exists.
TablesAgree ==
  /\ allSockets \cap deleted = {}
  /\ pc # "closed" =>
       socketTableReferences \cup rooted \cup userdata \subseteq allSockets
  /\ pc = "closed" => /\ allSockets = {} /\ gcedSockets = {}
                      /\ socketTableReferences = {} /\ userdata \subseteq deleted
  /\ moduleOpen <=> pc \notin {"closing", "closed"}

\* The delivery loop and its callbacks.
LoopAgrees ==
  /\ pc \notin {"deliver", "callback"} => entries = {}
  /\ pc = "callback" => current \in socketTableReferences /\ messages > 0

LInv == /\ TypeOK /\ SocketsSound /\ NewIsFresh /\ TablesAgree /\ LoopAgrees
        /\ EventsKeepTable /\ CollectedIsIdle /\ EntriesStayValid

\* What a step of one existing socket must keep.
LEMMA UpdateSocket ==
  ASSUME LInv, NEW s \in Sockets, NEW x, Sound(x),
         socks' = [socks EXCEPT ![s] = x]
  PROVE  /\ socks' \in [Sockets -> Socket]
         /\ socks'[s] = x
         /\ \A r \in Sockets : r # s => socks'[r] = socks[r]
         /\ \A r \in Sockets :
              Sound(socks'[r]) \/ (r \in deleted /\ Remains(socks'[r]))
<1>1. x \in Socket
  BY DEF Sound, Core, Closable
<1>2. socks \in [Sockets -> Socket]
  BY DEF LInv, TypeOK
<1> QED
  BY <1>1, <1>2 DEF LInv, SocketsSound

\* The sockets the script, the loop and the collector see are not deleted.
LEMMA ReachedExists ==
  ASSUME LInv, NEW s \in Sockets, Reaches(s)
  PROVE  s \in allSockets /\ s \notin gcedSockets /\ Sound(socks[s])
<1>1. pc # "closed" /\ (s \in rooted \/ s \in socketTableReferences)
  BY DEF Reaches, LuaRuns, LInv, LoopAgrees
<1>2. s \in allSockets
  BY <1>1 DEF LInv, TablesAgree
<1>3. s \notin gcedSockets
  BY <1>1 DEF LInv, CollectedIsIdle
<1>4. s \notin deleted
  BY <1>2 DEF LInv, TablesAgree
<1> QED
  BY <1>2, <1>3, <1>4 DEF LInv, SocketsSound

LEMMA NewSocketSound == Sound(NewSocket("ws"))
<1>1. Core(NewSocket("ws"))
  BY NewSocketCore DEF Kind
<1>2. Plain(NewSocket("ws"))
  BY DEF Plain, NewSocket
<1> QED
  BY <1>1, <1>2 DEF Sound

LEMMA InitLInv == Init => LInv
<1> SUFFICES ASSUME Init PROVE LInv
  OBVIOUS
<1>1. Sound(NewSocket("ws")) /\ NewSocket("ws") \in Socket
  BY NewSocketSound DEF Sound, Core, Closable
<1>2. socks \in [Sockets -> Socket] /\ \A s \in Sockets : Sound(socks[s])
  BY <1>1 DEF Init
<1>3. \A s \in Sockets : socks[s] = NewSocket("ws")
  BY DEF Init
<1> QED
  BY <1>2, <1>3
  DEF Init, LInv, TypeOK, SocketsSound, NewIsFresh, TablesAgree, LoopAgrees,
      EventsKeepTable, CollectedIsIdle, EntriesStayValid

\* The script: the tables.
LEMMA CreateKeeps ==
  ASSUME LInv, NEW s \in Sockets, createWebSocket(s)
  PROVE  LInv'
<1>1. socks[s] = NewSocket("ws")
  BY DEF createWebSocket, LInv, NewIsFresh
<1>2. socks[s].state = "DISCONNECTED" /\ socks[s].messageQueue = << >>
  BY <1>1 DEF NewSocket
<1>3. pc # "closed"
  BY DEF createWebSocket, LuaRuns
<1> USE DEF createWebSocket, think, LInv
<1>4. TypeOK'
  BY DEF TypeOK
<1>5. SocketsSound' /\ NewIsFresh'
  BY DEF SocketsSound, NewIsFresh
<1>6. TablesAgree' /\ LoopAgrees'
  BY <1>3 DEF TablesAgree, LoopAgrees
<1>7. EventsKeepTable'
  BY <1>2 DEF EventsKeepTable
<1>8. CollectedIsIdle'
  BY DEF CollectedIsIdle
<1>9. EntriesStayValid'
  BY DEF EntriesStayValid
<1> QED
  BY <1>4, <1>5, <1>6, <1>7, <1>8, <1>9

LEMMA OpenKeeps ==
  ASSUME LInv, NEW s \in Sockets, socketOpen(s)
  PROVE  LInv'
<1>1. s \in allSockets /\ s \notin gcedSockets /\ Sound(socks[s])
  BY ReachedExists DEF socketOpen
<1>2. pc # "closed"
  BY DEF socketOpen, Reaches, LuaRuns
<1>3. socks' = [socks EXCEPT ![s] = open(socks[s], TRUE)]
  BY DEF socketOpen
<1>4. Sound(open(socks[s], TRUE))
  BY <1>1, CallsSound
<1>5. /\ socks' \in [Sockets -> Socket]
      /\ \A r \in Sockets : r # s => socks'[r] = socks[r]
      /\ \A r \in Sockets :
           Sound(socks'[r]) \/ (r \in deleted /\ Remains(socks'[r]))
  BY <1>3, <1>4, UpdateSocket
<1> USE DEF socketOpen, think, LInv, Use
<1>6. TypeOK'
  BY <1>5 DEF TypeOK
<1>7. SocketsSound' /\ NewIsFresh'
  BY <1>1, <1>5 DEF SocketsSound, NewIsFresh
<1>8. TablesAgree' /\ LoopAgrees'
  BY <1>1, <1>2 DEF TablesAgree, LoopAgrees
<1>9. EventsKeepTable'
  BY <1>5 DEF EventsKeepTable, TypeOK
<1>10. CollectedIsIdle'
  BY <1>1, <1>5 DEF CollectedIsIdle, TypeOK
<1>11. EntriesStayValid'
  BY DEF EntriesStayValid
<1> QED
  BY <1>6, <1>7, <1>8, <1>9, <1>10, <1>11

\* A step of one socket that touches no table.
LEMMA ChangeKeeps ==
  ASSUME LInv, NEW s \in allSockets \cup deleted, NEW x, Sound(x),
         socks[s].state = "DISCONNECTED" =>
           /\ x.state = "DISCONNECTED"
           /\ x.messageQueue = socks[s].messageQueue,
         socks' = [socks EXCEPT ![s] = x], Use({s}),
         UNCHANGED <<tables, rooted, userdata, think, deleted>>
  PROVE  LInv'
<1>1. s \in Sockets
  BY DEF LInv, TypeOK
<1>2. /\ socks' \in [Sockets -> Socket] /\ socks'[s] = x
      /\ \A r \in Sockets : r # s => socks'[r] = socks[r]
      /\ \A r \in Sockets :
           Sound(socks'[r]) \/ (r \in deleted /\ Remains(socks'[r]))
  BY <1>1, UpdateSocket
<1> USE DEF tables, think, LInv, Use
<1>3. TypeOK'
  BY <1>2 DEF TypeOK
<1>4. SocketsSound' /\ NewIsFresh'
  BY <1>2 DEF SocketsSound, NewIsFresh
<1>5. TablesAgree' /\ LoopAgrees' /\ EntriesStayValid'
  BY DEF TablesAgree, LoopAgrees, EntriesStayValid
<1>6. EventsKeepTable'
  BY <1>2 DEF EventsKeepTable, TypeOK
<1>7. CollectedIsIdle'
  BY <1>2 DEF CollectedIsIdle, TypeOK
<1> QED
  BY <1>3, <1>4, <1>5, <1>6, <1>7

LEMMA CloseKeeps ==
  ASSUME LInv, NEW s \in Sockets, socketClose(s) \/ socketCloseNow(s)
  PROVE  LInv'
<1>1. s \in allSockets /\ Sound(socks[s])
  BY ReachedExists DEF socketClose, socketCloseNow
<1>2. PICK x \in {close(socks[s]), closeNow(socks[s])} :
        socks' = [socks EXCEPT ![s] = x]
  BY DEF socketClose, socketCloseNow
<1>3. Sound(x) /\ (socks[s].state = "DISCONNECTED" => x = socks[s])
  BY <1>1, CallsSound
<1>4. Use({s}) /\ UNCHANGED <<tables, rooted, userdata, think, deleted>>
  BY DEF socketClose, socketCloseNow
<1> QED
  BY <1>1, <1>2, <1>3, <1>4, ChangeKeeps

\* A completion, of a socket that exists or of a deleted one that left a
\* slow lookup behind.
LEMMA PollKeeps ==
  ASSUME LInv, NEW s \in Sockets, PollOne(s)
  PROVE  LInv'
<1>1. PICK op \in socks[s].pending, ec \in Outcomes :
        socks' = [socks EXCEPT ![s] = Handle(socks[s], op, ec)]
  BY DEF PollOne
<1>2. Use({s}) /\ UNCHANGED <<tables, rooted, userdata, think, deleted>>
  BY DEF PollOne
<1>3. s \in allSockets \cup deleted
  BY <1>1 DEF LInv, NewIsFresh, NewSocket
<1>4. Sound(socks[s])
  BY <1>1 DEF LInv, SocketsSound, Remains
<1>5. ec \in ErrorCode
  BY LuaAssumption
<1>6. LET x == Handle(socks[s], op, ec)
      IN  /\ Sound(x)
          /\ socks[s].state = "DISCONNECTED" =>
               /\ x.state = "DISCONNECTED"
               /\ x.messageQueue = socks[s].messageQueue
  BY <1>4, <1>5, HandleSound
<1> QED
  BY <1>1, <1>2, <1>3, <1>6, ChangeKeeps

LEMMA RootsKeep ==
  ASSUME LInv, Remember \/ \E s \in Sockets : Forget(s)
  PROVE  LInv'
<1>1. pc # "closed" /\ rooted' \subseteq rooted \cup socketTableReferences
  BY DEF Remember, Forget, LuaRuns, LInv, LoopAgrees
<1>2. UNCHANGED <<socks, tables, userdata, think, deleted, uaf>>
  BY DEF Remember, Forget
<1> USE <1>1, <1>2 DEF tables, think, LInv
<1>3. TypeOK'
  BY DEF TypeOK
<1>4. SocketsSound' /\ NewIsFresh'
  BY DEF SocketsSound, NewIsFresh
<1>5. TablesAgree' /\ LoopAgrees' /\ EntriesStayValid'
  BY DEF TablesAgree, LoopAgrees, EntriesStayValid
<1>6. EventsKeepTable' /\ CollectedIsIdle'
  BY DEF EventsKeepTable, CollectedIsIdle
<1> QED
  BY <1>3, <1>4, <1>5, <1>6

\* The collector: closeNow() finds the socket disconnected already.
LEMMA CollectKeeps ==
  ASSUME LInv, NEW s \in Sockets, Collect(s)
  PROVE  LInv'
<1>1. pc # "closed" /\ moduleOpen /\ s \in userdata
  BY DEF Collect, LuaRuns, Unreachable, LInv, TablesAgree
<1>2. s \in allSockets /\ s \notin rooted \cup socketTableReferences
  BY <1>1 DEF Collect, Unreachable, LInv, TablesAgree
<1>3. socks[s].state = "DISCONNECTED"
  BY <1>1, <1>2 DEF LInv, EventsKeepTable
<1>4. closeNow(socks[s]) = socks[s]
  BY <1>3 DEF closeNow, setDisconnectingCAS
<1>5. /\ userdata' = userdata \ {s}
      /\ socketTableReferences' = socketTableReferences \ {s}
      /\ gcedSockets' = gcedSockets \cup {s}
      /\ socks' = [socks EXCEPT ![s] = socks[s]]
      /\ Use({s}) /\ UNCHANGED <<allSockets, moduleOpen, rooted, think, deleted>>
  BY <1>1, <1>4 DEF Collect, socketGCFunction
<1>6. socks' = socks
  BY <1>5 DEF LInv, TypeOK
<1>7. socketTableReferences' = socketTableReferences
  BY <1>2, <1>5
<1> USE <1>1, <1>2, <1>5, <1>6, <1>7 DEF think, LInv, Use
<1>8. TypeOK'
  BY DEF TypeOK
<1>9. SocketsSound' /\ NewIsFresh'
  BY DEF SocketsSound, NewIsFresh
<1>10. TablesAgree' /\ LoopAgrees' /\ EntriesStayValid'
  BY DEF TablesAgree, LoopAgrees, EntriesStayValid
<1>11. EventsKeepTable'
  BY DEF EventsKeepTable
<1>12. CollectedIsIdle'
  BY <1>3 DEF CollectedIsIdle
<1> QED
  BY <1>8, <1>9, <1>10, <1>11, <1>12

\* A finalizer that runs after the module was closed touches no socket.
LEMMA FinalizeKeeps ==
  ASSUME LInv, NEW s \in Sockets, Finalize(s)
  PROVE  LInv'
<1>1. pc = "closed" /\ ~moduleOpen
  BY DEF Finalize, LInv, TablesAgree
<1>2. /\ userdata' = userdata \ {s}
      /\ UNCHANGED <<socks, tables, rooted, think, deleted, uaf>>
  BY <1>1 DEF Finalize, socketGCFunction
<1> USE <1>1, <1>2 DEF tables, think, LInv
<1>3. TypeOK'
  BY DEF TypeOK
<1>4. SocketsSound' /\ NewIsFresh'
  BY DEF SocketsSound, NewIsFresh
<1>5. TablesAgree' /\ LoopAgrees' /\ EntriesStayValid'
  BY DEF TablesAgree, LoopAgrees, EntriesStayValid
<1>6. EventsKeepTable' /\ CollectedIsIdle'
  BY DEF EventsKeepTable, CollectedIsIdle
<1> QED
  BY <1>3, <1>4, <1>5, <1>6

\* webSocketThink.
LEMMA SweepKeeps ==
  ASSUME LInv, ThinkSweep
  PROVE  LInv'
<1> DEFINE gone == {s \in gcedSockets : socks[s].state = "DISCONNECTED"}
<1>1. /\ pc = "poll" /\ pc' = "deliver" /\ entries' = socketTableReferences
      /\ allSockets' = allSockets \ gone /\ gcedSockets' = gcedSockets \ gone
      /\ deleted' = deleted \cup gone /\ Use(gone)
      /\ UNCHANGED <<socks, socketTableReferences, moduleOpen, rooted,
                     userdata, current, messages>>
  BY DEF ThinkSweep
<1>2. gone \subseteq gcedSockets
  OBVIOUS
<1> HIDE DEF gone
<1>3. /\ gone \subseteq allSockets
      /\ gone \cap (socketTableReferences \cup rooted \cup userdata) = {}
  BY <1>2 DEF LInv, CollectedIsIdle
<1> USE <1>1, <1>2, <1>3 DEF LInv, Use
<1>4. TypeOK'
  BY DEF TypeOK
<1>5. SocketsSound' /\ NewIsFresh'
  BY DEF SocketsSound, NewIsFresh
<1>6. TablesAgree' /\ LoopAgrees' /\ EntriesStayValid'
  BY DEF TablesAgree, LoopAgrees, EntriesStayValid
<1>7. EventsKeepTable' /\ CollectedIsIdle'
  BY DEF EventsKeepTable, CollectedIsIdle
<1> QED
  BY <1>4, <1>5, <1>6, <1>7

LEMMA EntryKeeps ==
  ASSUME LInv, NEW s \in Sockets, ThinkEntry(s)
  PROVE  LInv'
<1> DEFINE x == [socks[s] EXCEPT !.messageQueue = << >>]
           n == Len(socks[s].messageQueue)
<1>1. /\ pc = "deliver" /\ s \in entries /\ entries' = entries \ {s}
      /\ Use({s}) /\ socks' = [socks EXCEPT ![s] = x]
      /\ \/ /\ n > 0 /\ pc' = "callback" /\ current' = s /\ messages' = n
            /\ UNCHANGED socketTableReferences
         \/ /\ ~(n > 0) /\ UNCHANGED <<pc, current, messages>>
            /\ socketTableReferences' =
                 IF socks[s].state = "DISCONNECTED"
                 THEN socketTableReferences \ {s} ELSE socketTableReferences
      /\ UNCHANGED <<allSockets, gcedSockets, moduleOpen, rooted, userdata,
                     deleted>>
  BY DEF ThinkEntry
<1>2. s \in socketTableReferences /\ s \in allSockets /\ s \notin deleted
  BY <1>1 DEF LInv, EntriesStayValid, TablesAgree
<1>3. Sound(socks[s])
  BY <1>2 DEF LInv, SocketsSound
<1>4. Sound(x)
  BY <1>3, CallsSound
<1>5. socks[s] \in Socket
  BY <1>3 DEF Sound, Core, Closable
<1>6. x.state = socks[s].state /\ x.messageQueue = << >>
  BY <1>5 DEF Socket
<1>7. n \in Nat
  BY <1>5, FieldTypes
<1> HIDE DEF x, n
<1>8. /\ socks' \in [Sockets -> Socket] /\ socks'[s] = x
      /\ \A r \in Sockets : r # s => socks'[r] = socks[r]
      /\ \A r \in Sockets :
           Sound(socks'[r]) \/ (r \in deleted /\ Remains(socks'[r]))
  BY <1>1, <1>4, UpdateSocket
<1> USE DEF LInv, Use
<1>9. TypeOK'
  BY <1>1, <1>7, <1>8 DEF TypeOK
<1>10. SocketsSound' /\ NewIsFresh'
  BY <1>1, <1>2, <1>8 DEF SocketsSound, NewIsFresh
<1>11. TablesAgree'
  BY <1>1 DEF TablesAgree
<1>12. LoopAgrees'
  BY <1>1, <1>2 DEF LoopAgrees
<1>13. EntriesStayValid'
  BY <1>1 DEF EntriesStayValid
<1>14. EventsKeepTable'
  BY <1>1, <1>2, <1>6, <1>8 DEF EventsKeepTable, TypeOK
<1>15. CollectedIsIdle'
  BY <1>1, <1>2, <1>6, <1>8 DEF CollectedIsIdle, TypeOK
<1> QED
  BY <1>9, <1>10, <1>11, <1>12, <1>13, <1>14, <1>15

LEMMA ThinkKeeps ==
  ASSUME LInv, ThinkPoll \/ CallbackReturns \/ ThinkEnds
  PROVE  LInv'
<1>1. UNCHANGED <<socks, tables, rooted, userdata, entries, deleted, uaf>>
  BY DEF ThinkPoll, CallbackReturns, ThinkEnds
<1> USE <1>1 DEF tables, LInv
<1>2. TypeOK'
  BY DEF TypeOK, ThinkPoll, CallbackReturns, ThinkEnds, LoopAgrees
<1>3. SocketsSound' /\ NewIsFresh'
  BY DEF SocketsSound, NewIsFresh
<1>4. TablesAgree' /\ EntriesStayValid'
  BY DEF TablesAgree, EntriesStayValid, ThinkPoll, CallbackReturns, ThinkEnds
<1>5. LoopAgrees'
  BY DEF LoopAgrees, ThinkPoll, CallbackReturns, ThinkEnds, TypeOK
<1>6. EventsKeepTable' /\ CollectedIsIdle'
  BY DEF EventsKeepTable, CollectedIsIdle
<1> QED
  BY <1>2, <1>3, <1>4, <1>5, <1>6

\* The closing and opening of the module.
LEMMA ModuleCloseKeeps ==
  ASSUME LInv, ModuleClose
  PROVE  LInv'
<1>1. /\ pc = "lua" /\ pc' = "closing" /\ moduleOpen' = FALSE
      /\ socks' = [s \in Sockets |-> IF s \in socketTableReferences
                                     THEN close(socks[s]) ELSE socks[s]]
      /\ Use(socketTableReferences)
      /\ UNCHANGED <<allSockets, gcedSockets, socketTableReferences, rooted,
                     userdata, entries, current, messages, deleted>>
  BY DEF ModuleClose
<1>2. \A s \in socketTableReferences : s \in allSockets /\ s \notin deleted
  BY <1>1 DEF LInv, TablesAgree
<1>3. \A s \in Sockets : s \in socketTableReferences => Sound(close(socks[s]))
  BY <1>2, CallsSound DEF LInv, SocketsSound
<1>4. \A s \in Sockets :
        Sound(socks'[s]) \/ (s \in deleted /\ Remains(socks'[s]))
  BY <1>1, <1>3 DEF LInv, SocketsSound
<1>5. socks' \in [Sockets -> Socket]
  <2>1. \A s \in Sockets : socks'[s] \in Socket
    BY <1>4 DEF Sound, Core, Closable, Remains
  <2> QED
    BY <1>1, <2>1
<1>6. \A s \in Sockets : s \notin socketTableReferences => socks'[s] = socks[s]
  BY <1>1
<1> USE DEF LInv, Use
<1>7. TypeOK'
  BY <1>1, <1>5 DEF TypeOK
<1>8. SocketsSound' /\ NewIsFresh'
  BY <1>1, <1>2, <1>4, <1>6 DEF SocketsSound, NewIsFresh
<1>9. TablesAgree' /\ LoopAgrees' /\ EntriesStayValid'
  BY <1>1 DEF TablesAgree, LoopAgrees, EntriesStayValid
<1>10. EventsKeepTable' /\ CollectedIsIdle'
  BY <1>1, <1>6 DEF EventsKeepTable, CollectedIsIdle, TypeOK
<1> QED
  BY <1>7, <1>8, <1>9, <1>10

LEMMA ModuleClosedKeeps ==
  ASSUME LInv, ModuleClosed
  PROVE  LInv'
<1> DEFINE c(s) == IF s \in allSockets THEN closeNow(socks[s]) ELSE socks[s]
<1>1. /\ pc = "closing" /\ pc' = "closed"
      /\ socks' = [s \in Sockets |-> [c(s) EXCEPT !.pending = {}]]
      /\ deleted' = deleted \cup allSockets /\ Use(allSockets)
      /\ allSockets' = {} /\ gcedSockets' = {} /\ socketTableReferences' = {}
      /\ UNCHANGED <<moduleOpen, rooted, userdata, entries, current, messages>>
  BY DEF ModuleClosed
<1>2. \A s \in Sockets : c(s) \in Socket
  <2>1. \A s \in allSockets : Sound(socks[s])
    BY DEF LInv, SocketsSound, TablesAgree, TypeOK
  <2>2. \A s \in allSockets : closeNow(socks[s]) \in Socket
    BY <2>1, CallsSound DEF Sound, Core, Closable
  <2> QED
    BY <2>2 DEF LInv, TypeOK
<1> HIDE DEF c
<1>3. \A s \in Sockets : Remains(socks'[s])
  <2> SUFFICES ASSUME NEW s \in Sockets
               PROVE  Remains(socks'[s])
    OBVIOUS
  <2> DEFINE e == c(s)
             p == {}
             r == [e EXCEPT !.pending = p]
  <2>1. e \in Socket /\ p \in SUBSET Op
    BY <1>2
  <2>2. socks'[s] = r
    BY <1>1
  <2> HIDE DEF e, p
  <2>3. r \in Socket /\ r.pending = p
    BY <2>1 DEF Socket
  <2> QED
    BY <2>2, <2>3 DEF Remains, p
<1>4. \A s \in Sockets \ (allSockets \cup deleted) : socks'[s] = NewSocket("ws")
  <2> SUFFICES ASSUME NEW s \in Sockets, s \notin allSockets \cup deleted
               PROVE  socks'[s] = NewSocket("ws")
    OBVIOUS
  <2>1. socks[s] = NewSocket("ws") /\ c(s) = socks[s]
    BY DEF LInv, NewIsFresh, c
  <2>2. [NewSocket("ws") EXCEPT !.pending = {}] = NewSocket("ws")
    <3> DEFINE n == NewSocket("ws")
    <3>1. n \in Socket /\ n.pending = {}
      BY NewSocketSound DEF NewSocket, Sound, Core, Closable
    <3> HIDE DEF n
    <3>2. [n EXCEPT !.pending = n.pending] = n
      BY <3>1 DEF Socket
    <3> QED
      BY <3>1, <3>2 DEF n
  <2> QED
    BY <1>1, <2>1, <2>2
<1>5. socks' \in [Sockets -> Socket]
  BY <1>1, <1>3 DEF Remains
<1> USE DEF LInv, Use
<1>6. TypeOK'
  BY <1>1, <1>5 DEF TypeOK
<1>7. NewIsFresh'
  BY <1>1, <1>4 DEF NewIsFresh
<1>8. SocketsSound'
  <2>1. \A s \in Sockets \ (allSockets \cup deleted) : Sound(socks'[s])
    BY <1>4, NewSocketSound
  <2> QED
    BY <1>1, <1>3, <2>1 DEF SocketsSound
<1>9. TablesAgree'
  BY <1>1 DEF TablesAgree
<1>10. LoopAgrees' /\ EntriesStayValid'
  BY <1>1 DEF LoopAgrees, EntriesStayValid
<1>11. EventsKeepTable' /\ CollectedIsIdle'
  BY <1>1 DEF EventsKeepTable, CollectedIsIdle
<1> QED
  BY <1>6, <1>7, <1>8, <1>9, <1>10, <1>11

LEMMA ModuleOpenKeeps ==
  ASSUME LInv, ModuleOpen
  PROVE  LInv'
<1> USE DEF ModuleOpen, LInv
<1>1. TypeOK'
  BY DEF TypeOK
<1>2. SocketsSound' /\ NewIsFresh'
  BY DEF SocketsSound, NewIsFresh
<1>3. TablesAgree' /\ LoopAgrees' /\ EntriesStayValid'
  BY DEF TablesAgree, LoopAgrees, EntriesStayValid
<1>4. EventsKeepTable' /\ CollectedIsIdle'
  BY DEF EventsKeepTable, CollectedIsIdle, TablesAgree
<1> QED
  BY <1>1, <1>2, <1>3, <1>4

LEMMA StutterKeeps ==
  ASSUME LInv, UNCHANGED vars
  PROVE  LInv'
BY DEF vars, tables, think, LInv, TypeOK, SocketsSound, NewIsFresh,
       TablesAgree, LoopAgrees, EventsKeepTable, CollectedIsIdle,
       EntriesStayValid

LEMMA LInvStep == LInv /\ [Next]_vars => LInv'
<1> SUFFICES ASSUME LInv, [Next]_vars PROVE LInv'
  OBVIOUS
<1>1. ASSUME NEW s \in Sockets,
             \/ createWebSocket(s) \/ socketOpen(s) \/ socketClose(s)
             \/ socketCloseNow(s) \/ Forget(s) \/ Collect(s) \/ PollOne(s)
             \/ ThinkEntry(s) \/ Finalize(s)
      PROVE  LInv'
  BY <1>1, CreateKeeps, OpenKeeps, CloseKeeps, RootsKeep, CollectKeeps,
     PollKeeps, EntryKeeps, FinalizeKeeps
<1>2. CASE Remember
  BY <1>2, RootsKeep
<1>3. CASE ThinkPoll \/ CallbackReturns \/ ThinkEnds
  BY <1>3, ThinkKeeps
<1>4. CASE ThinkSweep
  BY <1>4, SweepKeeps
<1>5. CASE ModuleClose \/ ModuleClosed \/ ModuleOpen
  BY <1>5, ModuleCloseKeeps, ModuleClosedKeeps, ModuleOpenKeeps
<1>6. CASE UNCHANGED vars
  BY <1>6, StutterKeeps
<1> QED
  BY <1>1, <1>2, <1>3, <1>4, <1>5, <1>6 DEF Next

\* The tables, the Lua state and the sockets agree in every reachable state.
THEOREM LuaInvariant == Spec => []LInv
BY InitLInv, LInvStep, PTL DEF Spec

\* The tables and the Lua state keep their types.
THEOREM LuaTypes == Spec => []TypeOK
<1>1. LInv => TypeOK
  BY DEF LInv
<1> QED
  BY <1>1, LuaInvariant, PTL

\* As long as a socket is not disconnected or has events that were not
\* delivered its table is referenced, so the collector cannot take it.
THEOREM TableIsKept == Spec => []EventsKeepTable
<1>1. LInv => EventsKeepTable
  BY DEF LInv
<1> QED
  BY <1>1, LuaInvariant, PTL

\* A collected socket is disconnected and cannot come back.
THEOREM CollectedStaysIdle == Spec => []CollectedIsIdle
<1>1. LInv => CollectedIsIdle
  BY DEF LInv
<1> QED
  BY <1>1, LuaInvariant, PTL

\* What callbacks do never invalidates the copy of the references that
\* webSocketThink walks over.
THEOREM LoopEntriesValid == Spec => []EntriesStayValid
<1>1. LInv => EntriesStayValid
  BY DEF LInv
<1> QED
  BY <1>1, LuaInvariant, PTL

\* No socket that was opened, or whose userdata still exists, outlives the
\* io_context.
THEOREM ContextOutlivesSockets == Spec => []NoneOutlivesContext
<1>1. LInv => NoneOutlivesContext
  <2> SUFFICES ASSUME LInv, pc = "closed", NEW s \in Sockets,
                      s \in userdata \/ socks[s].generation > 0
               PROVE  s \in deleted
    BY DEF NoneOutlivesContext
  <2>1. NewSocket("ws").generation = 0
    BY DEF NewSocket
  <2>2. allSockets = {} /\ userdata \subseteq deleted
    BY DEF LInv, TablesAgree
  <2> QED
    BY <2>1, <2>2 DEF LInv, NewIsFresh
<1> QED
  BY <1>1, LuaInvariant, PTL

----------------------------------------------------------------------------
(* No use after free, where a lookup does not outlast its cancellation.    *)

NothingRuns == /\ ~uaf
               /\ \A s \in deleted : socks[s].pending = {}

LEMMA NotDeleted ==
  ASSUME LInv, NEW S \in SUBSET allSockets, ~uaf, Use(S)
  PROVE  ~uaf'
BY DEF LInv, TablesAgree, Use

\* A step of an existing socket leaves the deleted ones alone.
LEMMA ExistingStep ==
  ASSUME LInv, NothingRuns, NEW s \in allSockets, NEW x,
         socks' = [socks EXCEPT ![s] = x], Use({s}), deleted' = deleted
  PROVE  NothingRuns'
<1>1. ~uaf'
  BY NotDeleted DEF NothingRuns
<1>2. \A r \in deleted : socks'[r] = socks[r]
  BY DEF LInv, TypeOK, TablesAgree
<1> QED
  BY <1>1, <1>2 DEF NothingRuns

LEMMA NothingRunsStep ==
  ASSUME ~SlowLookups
  PROVE  LInv /\ NothingRuns /\ [Next]_vars => NothingRuns'
<1> SUFFICES ASSUME LInv, NothingRuns, [Next]_vars PROVE NothingRuns'
  OBVIOUS
<1>1. ASSUME NEW s \in Sockets, createWebSocket(s) \/ Forget(s)
      PROVE  NothingRuns'
  BY <1>1 DEF createWebSocket, Forget, NothingRuns
<1>2. ASSUME NEW s \in Sockets,
             socketOpen(s) \/ socketClose(s) \/ socketCloseNow(s)
      PROVE  NothingRuns'
  <2>1. s \in allSockets
    BY <1>2, ReachedExists DEF socketOpen, socketClose, socketCloseNow
  <2> QED
    BY <1>2, <2>1, ExistingStep DEF socketOpen, socketClose, socketCloseNow
<1>3. ASSUME NEW s \in Sockets, Collect(s)
      PROVE  NothingRuns'
  <2>1. moduleOpen /\ s \in allSockets
    BY <1>3 DEF Collect, LuaRuns, Unreachable, LInv, TablesAgree
  <2> QED
    BY <1>3, <2>1, ExistingStep DEF Collect, socketGCFunction
<1>4. ASSUME NEW s \in Sockets, PollOne(s)
      PROVE  NothingRuns'
  <2>1. socks[s].pending # {}
    BY <1>4 DEF PollOne
  <2>2. s \in allSockets
    BY <2>1 DEF NothingRuns, LInv, NewIsFresh, NewSocket
  <2> QED
    BY <1>4, <2>2, ExistingStep DEF PollOne
<1>5. ASSUME NEW s \in Sockets, ThinkEntry(s)
      PROVE  NothingRuns'
  <2>1. s \in allSockets
    BY <1>5 DEF ThinkEntry, LInv, EntriesStayValid
  <2> QED
    BY <1>5, <2>1, ExistingStep DEF ThinkEntry
<1>6. ASSUME NEW s \in Sockets, Finalize(s)
      PROVE  NothingRuns'
  <2>1. ~moduleOpen
    BY <1>6 DEF Finalize, LInv, TablesAgree
  <2> QED
    BY <1>6, <2>1 DEF Finalize, socketGCFunction, NothingRuns
<1>7. CASE \/ Remember \/ ThinkPoll \/ CallbackReturns \/ ThinkEnds
           \/ ModuleOpen \/ UNCHANGED vars
  BY <1>7 DEF Remember, ThinkPoll, CallbackReturns, ThinkEnds, ModuleOpen,
              vars, NothingRuns
<1>8. CASE ThinkSweep
  <2> DEFINE gone == {s \in gcedSockets : socks[s].state = "DISCONNECTED"}
  <2>1. /\ deleted' = deleted \cup gone /\ Use(gone) /\ socks' = socks
        /\ \A s \in Sockets : Ready(s) = {}
    BY <1>8 DEF ThinkSweep
  <2>2. gone \in SUBSET allSockets
    BY DEF LInv, CollectedIsIdle
  <2>3. ~uaf'
    BY <2>1, <2>2, NotDeleted DEF NothingRuns
  <2>4. ASSUME NEW s \in gone
        PROVE  socks[s].pending = {}
    <3>1. s \in Sockets /\ s \notin deleted /\ socks[s].state = "DISCONNECTED"
      BY <2>2, <2>4 DEF LInv, TablesAgree, TypeOK
    <3>2. Sound(socks[s])
      BY <3>1 DEF LInv, SocketsSound
    <3>3. Current(socks[s]) = {}
      BY <3>1, <3>2 DEF Sound, Core, Alive
    <3>4. Ready(s) = {}
      BY <2>1, <3>1
    <3>5. \A op \in socks[s].pending : op \in Ready(s)
      BY <3>3 DEF Ready, Current
    <3> QED
      BY <3>4, <3>5
  <2> QED
    BY <2>1, <2>3, <2>4 DEF NothingRuns
<1>9. CASE ModuleClose
  <2>1. /\ socks' = [s \in Sockets |-> IF s \in socketTableReferences
                                       THEN close(socks[s]) ELSE socks[s]]
        /\ Use(socketTableReferences) /\ deleted' = deleted
    BY <1>9 DEF ModuleClose
  <2>2. socketTableReferences \in SUBSET allSockets
    BY <1>9 DEF ModuleClose, LInv, TablesAgree
  <2>3. \A s \in deleted : socks'[s] = socks[s]
    BY <2>1, <2>2 DEF LInv, TablesAgree, TypeOK
  <2>4. ~uaf'
    BY <2>1, <2>2, NotDeleted DEF NothingRuns
  <2> QED
    BY <2>1, <2>3, <2>4 DEF NothingRuns
<1>10. CASE ModuleClosed
  <2>1. ~uaf'
    BY <1>10, NotDeleted DEF ModuleClosed, NothingRuns
  <2>2. pc' = "closed" /\ LInv'
    BY <1>10, ModuleClosedKeeps DEF ModuleClosed
  <2>3. \A s \in Sockets : socks'[s].pending = {}
    <3> DEFINE c(s) == IF s \in allSockets THEN closeNow(socks[s]) ELSE socks[s]
    <3>1. socks' = [s \in Sockets |-> [c(s) EXCEPT !.pending = {}]]
      BY <1>10 DEF ModuleClosed
    <3>2. \A s \in Sockets : c(s) \in Socket
      <4>1. \A s \in allSockets : Sound(socks[s])
        BY DEF LInv, SocketsSound, TablesAgree, TypeOK
      <4>2. \A s \in allSockets : closeNow(socks[s]) \in Socket
        BY <4>1, CallsSound DEF Sound, Core, Closable
      <4> QED
        BY <4>2 DEF LInv, TypeOK
    <3> HIDE DEF c
    <3> QED
      BY <3>1, <3>2 DEF Socket
  <2>4. deleted' \subseteq Sockets
    BY <2>2 DEF LInv, TypeOK
  <2> QED
    BY <2>1, <2>3, <2>4 DEF NothingRuns
<1> QED
  BY <1>1, <1>2, <1>3, <1>4, <1>5, <1>6, <1>7, <1>8, <1>9, <1>10 DEF Next

\* A socket that is deleted is not used again and not deleted twice: not by a
\* method, a finalizer, the delivery loop, the closing of the module or a late
\* handler.  It needs lookups that end soon after they are cancelled; the run
\* early_delete shows the use after free that a slow one causes.
THEOREM NoDanglingSocket ==
  ASSUME ~SlowLookups
  PROVE  Spec => []NoUseAfterFree
<1>1. Init => NothingRuns
  BY DEF Init, NothingRuns
<1>2. NothingRuns => NoUseAfterFree
  BY DEF NothingRuns, NoUseAfterFree
<1> QED
  BY <1>1, <1>2, NothingRunsStep, LuaInvariant, PTL DEF Spec

----------------------------------------------------------------------------
(* The promise to the owner of each socket.                                *)

LEMMA OwnerRests ==
  ASSUME NEW s, NEW t, t.state = s.state, t.established = s.established,
         t.messageQueue = s.messageQueue
  PROVE  OwnerStep(s, t)
BY DEF OwnerStep, PhaseOf

\* A step of one socket is a step its owner was promised, and the owners of
\* the others see nothing.
LEMMA OwnersOfOne ==
  ASSUME LInv, NEW s \in Sockets, NEW x, Sound(socks[s]),
         OtherStep(socks[s], x), socks' = [socks EXCEPT ![s] = x]
  PROVE  \A r \in Sockets : OwnerStep(socks[r], socks'[r])
<1>1. OwnerStep(socks[s], x)
  BY OwnerOther DEF Sound
<1>2. /\ socks'[s] = x
      /\ \A r \in Sockets : r # s => socks'[r] = socks[r]
  BY DEF LInv, TypeOK
<1> QED
  BY <1>1, <1>2, OwnerRests

\* After the sockets are closed their operations are destroyed.
LEMMA OwnersAtEnd ==
  ASSUME LInv, ModuleClosed
  PROVE  \A s \in Sockets : OwnerStep(socks[s], socks'[s])
<1> DEFINE c(s) == IF s \in allSockets THEN closeNow(socks[s]) ELSE socks[s]
<1>1. socks' = [s \in Sockets |-> [c(s) EXCEPT !.pending = {}]]
  BY DEF ModuleClosed
<1> SUFFICES ASSUME NEW s \in Sockets
             PROVE  OwnerStep(socks[s], socks'[s])
  OBVIOUS
<1>2. OwnerStep(socks[s], c(s)) /\ c(s) \in Socket
  <2>1. CASE s \in allSockets
    <3>1. Sound(socks[s])
      BY <2>1 DEF LInv, SocketsSound, TablesAgree
    <3> QED
      BY <2>1, <3>1, CallsSound, OwnerOther DEF Sound, Core, Closable
  <2>2. CASE s \notin allSockets
    BY <2>2, OwnerRests DEF LInv, TypeOK
  <2> QED
    BY <2>1, <2>2
<1> HIDE DEF c
<1>3. /\ socks'[s].state = c(s).state
      /\ socks'[s].established = c(s).established
      /\ socks'[s].messageQueue = c(s).messageQueue
  BY <1>1, <1>2 DEF Socket
<1> QED
  BY <1>2, <1>3 DEF OwnerStep, PhaseOf

LEMMA OwnersStep ==
  LInv /\ [Next]_vars => \A s \in Sockets : OwnerStep(socks[s], socks'[s])
<1> SUFFICES ASSUME LInv, [Next]_vars
             PROVE  \A s \in Sockets : OwnerStep(socks[s], socks'[s])
  OBVIOUS
<1>1. CASE socks' = socks
  BY <1>1, OwnerRests
<1>2. ASSUME NEW s \in Sockets,
             socketOpen(s) \/ socketClose(s) \/ socketCloseNow(s)
      PROVE  \A r \in Sockets : OwnerStep(socks[r], socks'[r])
  <2>1. Sound(socks[s])
    BY <1>2, ReachedExists DEF socketOpen, socketClose, socketCloseNow
  <2> QED
    BY <1>2, <2>1, CallsSound, OwnersOfOne
    DEF socketOpen, socketClose, socketCloseNow
<1>3. ASSUME NEW s \in Sockets, Collect(s) \/ Finalize(s), socks' # socks
      PROVE  \A r \in Sockets : OwnerStep(socks[r], socks'[r])
  <2>1. moduleOpen /\ socks' = [socks EXCEPT ![s] = closeNow(@)]
        /\ s \in userdata
    BY <1>3 DEF Collect, Finalize, Unreachable, socketGCFunction
  <2>2. Sound(socks[s])
    BY <2>1 DEF LInv, TablesAgree, SocketsSound
  <2> QED
    BY <2>1, <2>2, CallsSound, OwnersOfOne
<1>4. ASSUME NEW s \in Sockets, PollOne(s)
      PROVE  \A r \in Sockets : OwnerStep(socks[r], socks'[r])
  <2>1. PICK op \in socks[s].pending, ec \in Outcomes :
          socks' = [socks EXCEPT ![s] = Handle(@, op, ec)]
    BY <1>4 DEF PollOne
  <2>2. Sound(socks[s])
    BY <2>1 DEF LInv, SocketsSound, Remains
  <2>3. OtherStep(socks[s], Handle(socks[s], op, ec))
    BY <2>2, HandleSound, LuaAssumption
  <2> QED
    BY <2>1, <2>2, <2>3, OwnersOfOne
<1>5. ASSUME NEW s \in Sockets, ThinkEntry(s)
      PROVE  \A r \in Sockets : OwnerStep(socks[r], socks'[r])
  <2>1. socks' = [socks EXCEPT ![s] = [@ EXCEPT !.messageQueue = << >>]]
    BY <1>5 DEF ThinkEntry
  <2>2. Sound(socks[s])
    BY <1>5 DEF ThinkEntry, LInv, EntriesStayValid, TablesAgree, SocketsSound
  <2> QED
    BY <2>1, <2>2, CallsSound, OwnersOfOne
<1>6. CASE ModuleClose
  <2> SUFFICES ASSUME NEW s \in Sockets
               PROVE  OwnerStep(socks[s], socks'[s])
    OBVIOUS
  <2>1. socks'[s] = IF s \in socketTableReferences THEN close(socks[s])
                                                   ELSE socks[s]
    BY <1>6 DEF ModuleClose
  <2>2. CASE s \in socketTableReferences
    <3>1. Sound(socks[s])
      BY <1>6, <2>2 DEF ModuleClose, LInv, TablesAgree, SocketsSound
    <3> QED
      BY <2>1, <2>2, <3>1, CallsSound, OwnerOther DEF Sound
  <2> QED
    BY <2>1, <2>2, OwnerRests
<1>7. CASE ModuleClosed
  BY <1>7, OwnersAtEnd
<1>8. \/ socks' = socks
      \/ \E s \in Sockets : \/ socketOpen(s) \/ socketClose(s)
                            \/ socketCloseNow(s) \/ Collect(s) \/ PollOne(s)
                            \/ ThinkEntry(s) \/ Finalize(s)
      \/ ModuleClose \/ ModuleClosed
  BY DEF Next, vars, createWebSocket, Forget, Remember, ThinkPoll, ThinkSweep,
         CallbackReturns, ThinkEnds, ModuleOpen
<1> QED
  BY <1>1, <1>2, <1>3, <1>4, <1>5, <1>6, <1>7, <1>8

\* Every socket of the module implements SocketLifecycle: its owner sees one
\* onConnected at most and one onDisconnected exactly per open(), whatever
\* callbacks, the collector, other sockets and the closing of the module do.
THEOREM EachImplementsLifecycle == Spec => ImplementsLifecycle
<1>1. Init => \A s \in Sockets : Lifecycle(s)!Init
  BY DEF Init, NewSocket, PhaseOf, EventTypes, Lifecycle!Init
<1>2. LInv /\ [Next]_vars =>
        \A s \in Sockets : [Lifecycle(s)!Next]_(Lifecycle(s)!vars)
  <2> SUFFICES ASSUME NEW s \in Sockets, OwnerStep(socks[s], socks'[s])
               PROVE  [Lifecycle(s)!Next]_(Lifecycle(s)!vars)
    BY OwnersStep
  <2> QED
    BY DEF OwnerStep, Lifecycle!Next, Lifecycle!vars, Lifecycle!Open,
           Lifecycle!Establish, Lifecycle!Receive, Lifecycle!Finish,
           Lifecycle!Deliver
<1> QED
  BY <1>1, <1>2, LuaInvariant, PTL DEF Spec, ImplementsLifecycle

=============================================================================
