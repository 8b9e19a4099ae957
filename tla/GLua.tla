-------------------------------- MODULE GLua --------------------------------
(***************************************************************************)
(* The module as the game runs it: the sockets a script has created, the   *)
(* tables that keep them alive or mark them for deletion, webSocketThink,  *)
(* the garbage collector's finalizers and the closing of the module.  The  *)
(* sockets themselves are those of GWSocketOps; write() is left to module  *)
(* GWSocket since it touches nothing of what is modelled here.             *)
(*                                                                         *)
(* Everything runs on one thread.  `pc` tells whose turn it is: the script *)
(* ("lua"), ioc->poll(), the delivery loop, a callback of the script       *)
(* inside it, ioc->run_for() while the module is closed ("closing"), or    *)
(* nothing any more ("closed").                                            *)
(***************************************************************************)
EXTENDS GWSocketOps, FiniteSetsExt

CONSTANTS
  Sockets,      \* addresses of socket objects, each used once
  None,         \* no socket
  Outcomes,     \* the results of operations
  SlowLookups,  \* a lookup may outlast its cancellation by many frames
  MaxOpens,     \* bound on open() calls, of all sockets together
  MaxInbox      \* a message is received while fewer events than this wait

ASSUME LuaAssumption ==
  /\ Outcomes \subseteq ErrorCode /\ SlowLookups \in BOOLEAN
  /\ MaxOpens \in Nat /\ MaxInbox \in Nat /\ None \notin Sockets

VARIABLES
  socks,                  \* the GWSocket objects
  allSockets,
  gcedSockets,
  socketTableReferences,  \* the sockets that have a reference there
  moduleOpen,
  \* the Lua state
  rooted,                 \* sockets whose table the script can reach
  userdata,               \* sockets whose __gc has not run
  pc,
  \* locals of webSocketThink
  entries,                \* what is left of the copy of the references
  current,                \* the socket whose callbacks run
  messages,               \* how many of its events are still to be delivered
  \* history
  deleted,                \* sockets whose destructor has run
  uaf                     \* a deleted socket was used or deleted again

tables == <<allSockets, gcedSockets, socketTableReferences, moduleOpen>>
think  == <<pc, entries, current, messages>>
vars   == <<socks, tables, rooted, userdata, think, deleted, uaf>>

Init == /\ socks = [s \in Sockets |-> NewSocket("ws")]
        /\ allSockets = {} /\ gcedSockets = {} /\ socketTableReferences = {}
        /\ moduleOpen = TRUE
        /\ rooted = {} /\ userdata = {}
        /\ pc = "lua" /\ entries = {} /\ current = None /\ messages = 0
        /\ deleted = {} /\ uaf = FALSE

Use(S) == uaf' = (uaf \/ S \cap deleted # {})

----------------------------------------------------------------------------
(* The script: at its own pace or in a callback.                           *)

LuaRuns == pc \in {"lua", "callback"}

\* The script has a variable with the table, or is in a callback that got
\* the table as its first argument.
Reaches(s) == /\ LuaRuns
              /\ s \in rooted \/ (pc = "callback" /\ s = current)

\* The number of open() calls so far: a close makes a generation too.
Opens == MapThenSumSet(LAMBDA s : (socks[s].generation + 1) \div 2, Sockets)

createWebSocket(s) ==
  /\ LuaRuns
  /\ s \notin allSockets \cup deleted
  /\ allSockets' = allSockets \cup {s}
  /\ userdata' = userdata \cup {s}
  /\ rooted' = rooted \cup {s}
  /\ UNCHANGED <<socks, gcedSockets, socketTableReferences, moduleOpen, think,
                 deleted, uaf>>

\* Faulty: the table is not referenced while the socket is open.
socketOpen_NoReference(s) ==
  /\ Reaches(s)
  /\ socks[s].state = "DISCONNECTED"
  /\ Opens < MaxOpens
  /\ socks' = [socks EXCEPT ![s] = open(@, TRUE)]
  /\ Use({s})
  /\ UNCHANGED <<tables, rooted, userdata, think, deleted>>

socketOpen(s) ==
  /\ Reaches(s)
  /\ socks[s].state = "DISCONNECTED"
  /\ Opens < MaxOpens
  /\ socketTableReferences' = socketTableReferences \cup {s}
  /\ socks' = [socks EXCEPT ![s] = open(@, TRUE)]
  /\ Use({s})
  /\ UNCHANGED <<allSockets, gcedSockets, moduleOpen, rooted, userdata, think,
                 deleted>>

socketClose(s) ==
  /\ Reaches(s)
  /\ socks' = [socks EXCEPT ![s] = close(@)]
  /\ Use({s})
  /\ UNCHANGED <<tables, rooted, userdata, think, deleted>>

\* Faulty: drops the reference of a socket that is closed.
socketCloseNow_DropsReference(s) ==
  /\ Reaches(s)
  /\ socks' = [socks EXCEPT ![s] = closeNow(@)]
  /\ socketTableReferences' = socketTableReferences \ {s}
  /\ Use({s})
  /\ UNCHANGED <<allSockets, gcedSockets, moduleOpen, rooted, userdata, think,
                 deleted>>

socketCloseNow(s) ==
  /\ Reaches(s)
  /\ socks' = [socks EXCEPT ![s] = closeNow(@)]
  /\ Use({s})
  /\ UNCHANGED <<tables, rooted, userdata, think, deleted>>

\* The script drops its variable, or a callback stores its argument.
Forget(s) == /\ LuaRuns
             /\ rooted' = rooted \ {s}
             /\ UNCHANGED <<socks, tables, userdata, think, deleted, uaf>>

Remember == /\ pc = "callback"
            /\ rooted' = rooted \cup {current}
            /\ UNCHANGED <<socks, tables, userdata, think, deleted, uaf>>

\* The collector finalizes the userdata of a table that nothing refers to.
Unreachable(s) == /\ s \in userdata
                  /\ s \notin rooted \cup socketTableReferences
                  /\ ~(pc = "callback" /\ s = current)

\* Faulty: does not look at moduleOpen.
socketGCFunction_Always(s) ==
  /\ userdata' = userdata \ {s}
  /\ socketTableReferences' = socketTableReferences \ {s}
  /\ gcedSockets' = gcedSockets \cup {s}
  /\ socks' = [socks EXCEPT ![s] = closeNow(@)]
  /\ Use({s})
  /\ UNCHANGED <<allSockets, moduleOpen, rooted, think, deleted>>

socketGCFunction(s) ==
  \/ /\ ~moduleOpen
     /\ userdata' = userdata \ {s}
     /\ UNCHANGED <<socks, tables, rooted, think, deleted, uaf>>
  \/ /\ moduleOpen
     /\ userdata' = userdata \ {s}
     /\ socketTableReferences' = socketTableReferences \ {s}
     /\ gcedSockets' = gcedSockets \cup {s}
     /\ socks' = [socks EXCEPT ![s] = closeNow(@)]
     /\ Use({s})
     /\ UNCHANGED <<allSockets, moduleOpen, rooted, think, deleted>>

Collect(s) == LuaRuns /\ Unreachable(s) /\ socketGCFunction(s)

----------------------------------------------------------------------------
(* ioc->poll() and ioc->run_for().                                         *)

\* The handler of an operation: guardGeneration looks at the socket first.
Handle(s, op, ec) ==
  LET t == Completed(s, op)
  IN  guardGeneration(t, op,
        CASE op.kind = "resolve"   -> hostResolvedStep(t, ec, "ok")
          [] op.kind = "connect"   -> socketConnected(t, ec)
          [] op.kind = "handshake" -> handshakeCompleted(t, ec)
          [] op.kind = "read"      -> onRead(t, ec)
          [] op.kind = "close"     -> onDisconnected(t))

PollOne(s) ==
  /\ pc \in {"poll", "closing"}
  /\ \E op \in socks[s].pending, ec \in Outcomes :
       /\ op.kind = "read" /\ ec = "ok" =>
            Len(socks[s].messageQueue) < MaxInbox
       /\ socks' = [socks EXCEPT ![s] = Handle(@, op, ec)]
       /\ Use({s})
  /\ UNCHANGED <<tables, rooted, userdata, think, deleted>>

\* Operations of a closed connection complete at once, with an error, and
\* poll() returns only when nothing more is ready.  The thread that looks up
\* a name, however, cannot be interrupted.
Ready(s) == {op \in socks[s].pending :
               /\ s \in deleted \/ op.gen # socks[s].generation
               /\ op.kind = "resolve" => ~SlowLookups}

----------------------------------------------------------------------------
(* webSocketThink.                                                         *)

ThinkPoll == /\ pc = "lua" /\ moduleOpen
             /\ pc' = "poll"
             /\ UNCHANGED <<socks, tables, rooted, userdata, entries, current,
                            messages, deleted, uaf>>

\* After poll(): sockets that were collected and are disconnected are
\* deleted, then the references are copied.
ThinkSweep ==
  /\ pc = "poll"
  /\ \A s \in Sockets : Ready(s) = {}
  /\ LET gone == {s \in gcedSockets : socks[s].state = "DISCONNECTED"}
     IN  /\ allSockets' = allSockets \ gone
         /\ gcedSockets' = gcedSockets \ gone
         /\ deleted' = deleted \cup gone
         /\ Use(gone)
  /\ entries' = socketTableReferences
  /\ pc' = "deliver"
  /\ UNCHANGED <<socks, socketTableReferences, moduleOpen, rooted, userdata,
                 current, messages>>

\* Faulty: a disconnected socket loses its reference before its last events
\* are taken.
ThinkEntry_DropsFirst(s) ==
  /\ pc = "deliver" /\ s \in entries
  /\ entries' = entries \ {s}
  /\ Use({s})
  /\ IF socks[s].state = "DISCONNECTED"
     THEN /\ socketTableReferences' = socketTableReferences \ {s}
          /\ UNCHANGED <<socks, pc, current, messages>>
     ELSE /\ socks' = [socks EXCEPT ![s].messageQueue = << >>]
          /\ UNCHANGED <<socketTableReferences, pc, current, messages>>
  /\ UNCHANGED <<allSockets, gcedSockets, moduleOpen, rooted, userdata,
                 deleted>>

\* Faulty: an entry without events is skipped whatever its state.
ThinkEntry_KeepsReference(s) ==
  /\ pc = "deliver" /\ s \in entries
  /\ entries' = entries \ {s}
  /\ Use({s})
  /\ socks' = [socks EXCEPT ![s].messageQueue = << >>]
  /\ LET n == Len(socks[s].messageQueue)
     IN  IF n > 0
         THEN pc' = "callback" /\ current' = s /\ messages' = n
         ELSE UNCHANGED <<pc, current, messages>>
  /\ UNCHANGED <<tables, rooted, userdata, deleted>>

\* One entry: its events are taken and their callbacks begin, or it has none
\* and its reference is dropped if the socket is disconnected.
ThinkEntry(s) ==
  /\ pc = "deliver" /\ s \in entries
  /\ entries' = entries \ {s}
  /\ Use({s})
  /\ socks' = [socks EXCEPT ![s].messageQueue = << >>]
  /\ LET n == Len(socks[s].messageQueue)
     IN  IF n > 0
         THEN /\ pc' = "callback" /\ current' = s /\ messages' = n
              /\ UNCHANGED socketTableReferences
         ELSE /\ socketTableReferences' =
                   IF socks[s].state = "DISCONNECTED"
                   THEN socketTableReferences \ {s} ELSE socketTableReferences
              /\ UNCHANGED <<pc, current, messages>>
  /\ UNCHANGED <<allSockets, gcedSockets, moduleOpen, rooted, userdata,
                 deleted>>

\* Faulty: the reference is dropped although the callbacks may have caused
\* further events.
CallbackReturns_Drops ==
  /\ pc = "callback"
  /\ messages' = messages - 1
  /\ IF messages = 1
     THEN /\ pc' = "deliver" /\ current' = None
          /\ socketTableReferences' =
               IF socks[current].state = "DISCONNECTED"
               THEN socketTableReferences \ {current}
               ELSE socketTableReferences
     ELSE UNCHANGED <<pc, current, socketTableReferences>>
  /\ UNCHANGED <<socks, allSockets, gcedSockets, moduleOpen, rooted, userdata,
                 entries, deleted, uaf>>

\* Faulty: one callback too many.
CallbackReturns_Late ==
  /\ pc = "callback"
  /\ messages' = messages - 1
  /\ IF messages = 0 THEN pc' = "deliver" /\ current' = None
                     ELSE UNCHANGED <<pc, current>>
  /\ UNCHANGED <<socks, tables, rooted, userdata, entries, deleted, uaf>>

\* A callback returns; after the last one the loop goes on.
CallbackReturns ==
  /\ pc = "callback"
  /\ messages' = messages - 1
  /\ IF messages = 1 THEN pc' = "deliver" /\ current' = None
                     ELSE UNCHANGED <<pc, current>>
  /\ UNCHANGED <<socks, tables, rooted, userdata, entries, deleted, uaf>>

ThinkEnds == /\ pc = "deliver" /\ entries = {}
             /\ pc' = "lua"
             /\ UNCHANGED <<socks, tables, rooted, userdata, entries, current,
                            messages, deleted, uaf>>

----------------------------------------------------------------------------
(* GMOD_MODULE_CLOSE, the finalizers that follow it, GMOD_MODULE_OPEN.     *)

ModuleClose ==
  /\ pc = "lua" /\ moduleOpen
  /\ moduleOpen' = FALSE
  /\ socks' = [s \in Sockets |-> IF s \in socketTableReferences
                                 THEN close(socks[s]) ELSE socks[s]]
  /\ Use(socketTableReferences)
  /\ pc' = "closing"
  /\ UNCHANGED <<allSockets, gcedSockets, socketTableReferences, rooted,
                 userdata, entries, current, messages, deleted>>

\* Faulty: deletes the referenced sockets only.
ModuleClosed_Referenced ==
  /\ pc = "closing"
  /\ socks' = [s \in Sockets |-> [closeNow(socks[s]) EXCEPT !.pending = {}]]
  /\ deleted' = deleted \cup socketTableReferences
  /\ Use(socketTableReferences)
  /\ allSockets' = {} /\ gcedSockets' = {} /\ socketTableReferences' = {}
  /\ pc' = "closed"
  /\ UNCHANGED <<moduleOpen, rooted, userdata, entries, current, messages>>

\* After at most a second: everything is closed and deleted, and the
\* io_context is destroyed together with the handlers it still holds.
ModuleClosed ==
  /\ pc = "closing"
  /\ socks' = [s \in Sockets |->
                 [(IF s \in allSockets THEN closeNow(socks[s]) ELSE socks[s])
                    EXCEPT !.pending = {}]]
  /\ deleted' = deleted \cup allSockets
  /\ Use(allSockets)
  /\ allSockets' = {} /\ gcedSockets' = {} /\ socketTableReferences' = {}
  /\ pc' = "closed"
  /\ UNCHANGED <<moduleOpen, rooted, userdata, entries, current, messages>>

\* lua_close finalizes every userdata that is left.
Finalize(s) == pc = "closed" /\ s \in userdata /\ socketGCFunction(s)

\* The next map loads the module into a new Lua state.
ModuleOpen ==
  /\ pc = "closed" /\ userdata = {}
  /\ moduleOpen' = TRUE /\ rooted' = {} /\ pc' = "lua"
  /\ UNCHANGED <<socks, allSockets, gcedSockets, socketTableReferences,
                 userdata, entries, current, messages, deleted, uaf>>

Next == \/ \E s \in Sockets : \/ createWebSocket(s) \/ socketOpen(s)
                              \/ socketClose(s) \/ socketCloseNow(s)
                              \/ Forget(s) \/ Collect(s) \/ PollOne(s)
                              \/ ThinkEntry(s) \/ Finalize(s)
        \/ Remember \/ ThinkPoll \/ ThinkSweep \/ CallbackReturns \/ ThinkEnds
        \/ ModuleClose \/ ModuleClosed \/ ModuleOpen

Spec == Init /\ [][Next]_vars

\* Fairness, for liveness only: the timer calls webSocketThink for ever, each
\* callback returns, the delivery loop goes on, the collector finds what
\* nothing refers to, poll() runs the handlers of closed connections, and
\* run_for() takes a second.
Fairness ==
  /\ WF_vars(ThinkPoll) /\ WF_vars(ThinkSweep) /\ WF_vars(ThinkEnds)
  /\ WF_vars(CallbackReturns) /\ WF_vars(ModuleClosed)
  /\ \A s \in Sockets : /\ WF_vars(ThinkEntry(s))
                        /\ SF_vars(Collect(s))
                        /\ WF_vars(Ready(s) # {} /\ PollOne(s))

FairSpec == Spec /\ Fairness

----------------------------------------------------------------------------
(* Properties.                                                             *)

\* The tables and the Lua state keep their types.
TypeOK ==
  /\ socks \in [Sockets -> Socket]
  /\ allSockets \subseteq Sockets /\ gcedSockets \subseteq Sockets
  /\ socketTableReferences \subseteq Sockets /\ moduleOpen \in BOOLEAN
  /\ rooted \subseteq Sockets /\ userdata \subseteq Sockets
  /\ pc \in {"lua", "poll", "deliver", "callback", "closing", "closed"}
  /\ entries \subseteq Sockets /\ current \in Sockets \cup {None}
  /\ messages \in Nat /\ deleted \subseteq Sockets /\ uaf \in BOOLEAN

\* A socket that is deleted is not used again: not by a method, a finalizer,
\* the delivery loop, the closing of the module or a late completion handler,
\* and it is not deleted twice.
NoUseAfterFree == ~uaf

\* As long as a socket is not disconnected or has events that were not
\* delivered, its table is referenced: the collector cannot take it, and its
\* callbacks will be called.
EventsKeepTable ==
  \A s \in allSockets :
    /\ moduleOpen
    /\ socks[s].state # "DISCONNECTED" \/ socks[s].messageQueue # << >>
    => s \in socketTableReferences

\* A collected socket is disconnected and cannot come back, so deleting it in
\* the next think is possible and final.
CollectedIsIdle ==
  \A s \in gcedSockets :
    /\ s \in allSockets
    /\ socks[s].state = "DISCONNECTED"
    /\ s \notin socketTableReferences \cup rooted \cup userdata

\* What callbacks do never invalidates the copy of the references that
\* webSocketThink walks over.
EntriesStayValid == entries \subseteq socketTableReferences \cap allSockets

\* Every socket that was ever opened, or whose userdata still exists, has been
\* deleted when the io_context it refers to is destroyed.
NoneOutlivesContext ==
  pc = "closed" =>
    {s \in Sockets : s \in userdata \/ socks[s].generation > 0} \subseteq deleted

\* A socket of the module as its owner sees it.
Lifecycle(s) == INSTANCE SocketLifecycle WITH
  phase <- PhaseOf(socks[s]), inbox <- EventTypes(socks[s].messageQueue)

\* Each socket keeps the promise of SocketLifecycle from its creation to the
\* end of the module, whatever callbacks, the collector, other sockets and
\* the closing of the module do: one onConnected at most and one
\* onDisconnected exactly per open().
ImplementsLifecycle ==
  /\ \A s \in Sockets : Lifecycle(s)!Init
  /\ [][\A s \in Sockets : [Lifecycle(s)!Next]_(Lifecycle(s)!vars)]_vars

\* Events that wait are delivered, unless the module is closed first.
EventsDelivered ==
  \A s \in Sockets :
    (s \in allSockets /\ socks[s].messageQueue # << >>) ~>
      (socks[s].messageQueue = << >> \/ ~moduleOpen)

\* A disconnected socket that the script has forgotten does not stay for
\* ever: it is deleted, remembered or reopened by a callback, or goes with
\* the module.
ForgottenIsDeleted ==
  \A s \in Sockets :
    (s \in allSockets \ rooted /\ socks[s].state = "DISCONNECTED") ~>
      (s \in rooted \cup deleted \/ socks[s].state # "DISCONNECTED")

=============================================================================
