# GWSockets in TLA+

This directory specifies GWSockets, a binary module that gives Lua scripts of
Garry's Mod WebSocket connections, and checks the specification with TLC and
TLAPS. File and line references are to the repository (`src/GWSocket.cpp` is
the file of that name in the repository's own `src` directory).

## 1. The system

In the game everything runs on its main thread (`GWSocket.h`, lines 18-21). A script
calls methods of a socket; these start asynchronous operations of Boost.Asio
and Boost.Beast. Every frame a timer calls `webSocketThink`, which polls the
`io_context` (completion handlers run, and put events into the `messageQueue`
of their socket), deletes sockets that were collected, and calls the script's
callbacks for the waiting events. There is no parallelism there, but much
interleaving: a call of the script may come between any two completions, an
operation may complete many frames after its connection is gone, callbacks
re-enter the methods, and the garbage collector runs whenever Lua does. The
same socket can also be built into a program that runs it on three threads (the
harness at the end of `GLua.cpp`); the locks and atomics of the socket are
written for that.

| Component | State | Operations | Interacts through |
|---|---|---|---|
| `GWSocket` | `state`, `generation`, `writing`, `messageToWrite`, `writeQueue`, `messageQueue`, `readBuffer`, cookies, headers, options | `open`, `close`, `closeNow`, `write`, `clearQueue`, setters; handlers of resolve, connect, handshake, read, write, close | virtual `async*` functions, `guardGeneration`, `messageQueue` |
| `WebSocket` | the stream `ws` | `resetWS`, `async*`, `closeSocket` | handlers of `GWSocket` |
| `SSLWebSocket` | the TLS stream, `shouldVerifyCertificate` | the same, TLS handshake, `verifyCertificate` | handlers of `GWSocket`; a verification callback |
| `BlockingQueue` | a list | `put`, `clear` (others unused) | filled by handlers, emptied by `webSocketThink` |
| `GLua.cpp` | `allSockets`, `gcedSockets`, `socketTableReferences`, `moduleOpen` | Lua methods, `createWebSocket`, `webSocketThink`, `__gc`, module open and close | script, collector, `io_context` |
| `Url` | none | URL parsing, `normalize_path` | `createWebSocketFromURL` |
| `UpdateChecker` | none | version comparison, HTTP fetch | called when the module opens |
| threaded harness (`main`, `runIOThread`, `sendMessages`) | three threads | handlers, `write`, and taking events and `closeNow`, each on a thread of its own | `queueMutex`, the atomics `state` and `generation`, the plain `writing` |

What is hard, and what correctness means there:

- **Stale completions.** A handler of an earlier connection must not touch the
  next one. `generation` is there for this.
- **The write pump.** Three places call `checkWriting`. It must have one
  operation in flight, never wait for one that will not complete, keep the
  order of messages and send each at most once.
- **Closing.** `close` is a mark in the write queue; it must not overtake a
  message, be lost, or survive into the next connection.
- **Events.** `onError` is followed by `onDisconnected`, every `open` ends in
  one `onDisconnected`, nothing arrives on a connection that is not open.
- **Lifetime.** A socket's table must live while events may come, the socket
  must then be deleted, and nothing may use it afterwards, not even when the
  module is closed and finalizers run after that.
- **Configuration.** It is read long after `open()`.
- **URLs.** A socket must connect to the host, port and path its URL names;
  numbers are computed in 32 bits, converted again and narrowed to 16.
- **Threads.** One of two closers wins, `closeNow` is not lost when the state
  changes under it, no wake-up of the write pump is lost although `writing` is
  reset without the lock, and nobody keeps the lock.

`PROJECT.json` lists each hazard at its line with the properties about it.

## 2. Modules

| Module | Models |
|---|---|
| `GWSocketOps` | member functions of `GWSocket`, `WebSocket`, `SSLWebSocket` as operators from socket record to socket record |
| `GWSocket` | one socket: an action per Lua method and per kind of completion, and `Drain` for the take-over of events by `webSocketThink` |
| `SocketLifecycle` | the abstract promise to the owner of a socket: phases closed, opening, open, and a sequence of events; implemented by `GWSocket` and by each socket of `GLua` |
| `Url` | `parse_url` and what it calls, `normalize_path`, and `createWebSocketFromURL`, as operators on texts |
| `Handshake` | `GWSocket` composed with `Url`, `createWebSocket` and the configuration of the opening request |
| `GLua` | several sockets (the operators of `GWSocketOps`) composed with the module's tables, `webSocketThink`, the Lua state and its collector, module open and close |
| `SocketThreads` | the threaded harness: the functions of `GWSocket` broken up into one step per lock, load or exchange of an atomic, access to `writing` and access to the stream |
| `GWSocketOpsProofs` | lemmas about the operators of `GWSocketOps`, and the invariant `Core` of a socket |
| `GWSocketStepProofs` | the shapes of the steps a socket takes from `Core`, and what the owner sees of each |
| `GWSocketProofs` | theorems about operations, state, streams and events of `GWSocket`, and the refinement of `SocketLifecycle` |
| `QueueProofs` | theorems about its messages |
| `GLuaProofs`, `SocketThreadsProofs` | theorems about the module of that name |
| `HandshakeProofs` | theorems about the configuration and the cookies of `Handshake`, and lemmas about texts |
| `UrlProofs` | lemmas about the operators of `Url`, and the theorems about the sockets made of URLs |
| `MC*` | instances for TLC |

**The socket record.** Its fields have the names of the C++ members. Further
fields are `stream` (the generation in which `resetWS` made `*ws`; 0 is
`nullptr`), `pending` (operations Asio holds), `tcpOpen`, and history that only
properties and `Result` read: `written`, `sent`, `closeMark`, `established`,
`overlap` and `crashed`. An outgoing message is the number of its `write()`
call. Texts of errors and close reasons are left out.

**Operations.** `Start` adds `[kind, gen, stream]` to `pending`, `gen` being
what `guardGeneration` captures. A completion removes it and applies the
handler only if `gen` is still the generation. A compare-exchange succeeds
exactly when the state is the expected one, since there is one thread.
`setDisconnectingCAS` is always followed by `doClose` in the same handler, so
its intermediate state is not visible. `GLua` uses plain sockets and leaves out
`write`, `clearQueue` and the setters, which touch none of the tables; a step
there touches one socket only, except for the loops over all sockets when the
module closes.

**Texts.** Cookies and headers are sequences of classes of characters. The text
of a URL is a sequence in which a word the parser never looks into, and an
escape such as `%2E`, count as one character. `parse_url` accepts or refuses;
as every refusal throws the same exception, the order of its checks does not
matter. `is_uint` is computed with its 32 bits, as two halves. The values of the
query and the fragment are left out, since nothing reads them; whether they are
valid is not. `MaxUrl` is the limit of 8000 characters; it counts the characters
of the model, so that a word or an escape counts once there. The documented
format of a URL (`WellFormed`) begins with `ws://` or `wss://`. What the module
does with other schemes, or with none, is modelled as it is, but no property
says that it is right: it disagrees with the documentation (section 3).

**Threads.** `SocketThreads` uses the socket record and the small operators of
`GWSocketOps` (`Start`, `put`, `closeSocket`, `clearQueue`, `resetWS`). Each
thread has a label; a critical section that touches only what its lock protects
(`write`'s push, `clearQueue`, the queue of events) is one step, `checkWriting`
is six. `guardGeneration` loads the generation in a step of its own, before
the operation starts and again before its handler. `writing` is a plain `bool`:
the race of `onWrite` with `checkWriting` is a choice between the orders of the
two accesses. Beast streams are not made for several threads; their operations
are taken as atomic here. The harness does not call `close()`, so that
`STATE_DISCONNECT_REQUESTED` does not occur.

**External parts**, modelled from their use: Asio may complete pending
operations in any order (more than the FIFO order it has, so what holds here
holds there); an operation whose stream was closed or replaced cannot succeed
but may report any error at any later time; a TLS handshake may call the
verification callback while it is pending, also after `closeNow()` as long as
its stream exists; bytes of a message may arrive before the rest
(`PartialRead`). Beast builds the handshake request, and so runs the decorator,
when `async_handshake` is started. The Lua collector may finalize a table as
soon as neither the script, nor a running callback, nor
`socketTableReferences` refers to it. A lookup that was cancelled may go on
running in Asio's resolver thread (`SlowLookups`).

**Faulty variants.** Definitions commented "Faulty" stand before the definition
they vary. No specification uses them: each shows that a property notices a
plausible mistake (the `mutants` of `PROJECT.json`).

## 3. Runs

Passing:

| Run | Question | Distinct states |
|---|---|---|
| `socket_safety` | any calls at any time (also `write` and `clearQueue` after `close`), any order and result of completions, plain and TLS: operations, queues and events stay consistent, and the socket implements `SocketLifecycle` | 567,468 |
| `socket_liveness` | with fairness: closes complete, attempts end, queued messages move; nothing is handed to a stream before its handshake is complete | 30,044 |
| `handshake` | a URL with a documented scheme becomes a socket exactly if it is well-formed, every socket is the one its URL describes, its path is resolved; a connection is opened with the configuration at its `open()`, and the server reads exactly the cookies that were set | 293,477 |
| `module` | two sockets, script, callbacks, collector, module close and reload: tables and sockets agree, no deleted socket is used, events are delivered, forgotten sockets are deleted; each socket implements `SocketLifecycle` | 181,252 |
| `threads` | three threads: the connection is closed once, `closeNow` sticks, one write at a time, in order, no lost wake-up, every thread ends | 234,735 |

Violations, each a disagreement between the code and what is written about it
(`findings` in `PROJECT.json` quotes the lines):

| Run | What the trace shows |
|---|---|
| `early_write` | `open`, `close`, `write`: `checkWriting` works off the queue in `STATE_DISCONNECT_REQUESTED` although no stream exists yet or its handshake is not complete |
| `cleared_close` | `close` while a write is in flight, then `clearQueue`: the mark is gone and the socket never closes |
| `close_drops_queue` | `close` while connecting: the messages queued before are dropped when the handshake succeeds |
| `stale_bytes` | `readBuffer` keeps the start of a message that was cut off, and the next connection's first message begins with it |
| `early_delete` | a collected socket is deleted while the lookup of its closed connection still runs; its handler then reads the deleted object |
| `bad_port` | a port of ten digits wraps around to 80 in `is_uint`; `std::stoi` then throws `std::out_of_range`, which nothing catches |
| `late_connect` | threads only: `closeNow` after the generation was checked and before `async_connect` leaves a disconnected socket with an open connection |

Two more disagreements show in one or two calls and have no run:

- **Schemes.** `README.md`, line 28, says that URLs "must include the scheme
  (Either `ws://` or `wss://`)", and the messages at `GLua.cpp`, lines 121 and
  288, say so too. The code looks for a host, not for a scheme: `//host` makes a
  plain socket for port 80, and so does any scheme but `wss` and `https`. `handshake` has such URLs among its inputs, and
  `SocketMatchesUrl` leaves open whether they make a socket.
- **closeNow.** `README.md`, line 116, says that it "will immediately terminate
  the connection". It does nothing while the closing handshake of an earlier
  `close()` waits for the peer, as `setDisconnectingCAS` refuses in
  `STATE_DISCONNECTING`.

Two observations contradict no text of the repository. The path of a URL is sent
decoded and without the query (`GLua.cpp`, line 115). And a verification
callback that still runs for a closed connection may fail the attempt opened
after it; it never reaches an established connection (`EstablishedIsIsolated`).

In `socket_safety` deadlock is not checked: after an operation was started on a
null stream (the case of `early_write`) the model takes no further step. In
`handshake` and `bad_port` it is not checked since a refused URL leaves the
script without a socket, in `threads` and `late_connect` since the program
ends; `ThreadsEnd` shows that it stops nowhere else. All other runs check
deadlock.

**Bounds.** `MaxOpens = 2` lets operations of a first connection meet a second
one; the code compares generations only for equality, so a third connection
would bring no new case. `MaxWrites = 3` gives a message in flight, one queued
before and one after a `close`. A message is received only while fewer than
`MaxInbox` events wait, of whatever kind they are; other events are bounded by
the number of opens. With `MaxInbox = 2` in `socket_safety` a message may wait
behind `IN_CONNECTED` or another message; the other runs have `MaxInbox = 1`,
and the theorems about events hold for any bound. `generation` is unbounded in
the model: its wrap-around after 2^32 connections is left out. Two sockets
suffice for `GLua`, whose steps involve a socket and at most the one whose
callback runs; in `module` the bound of three is on the connections of both
together, so that one of them is opened again while the other is connected, or
one is opened three times. In `handshake` the texts are chosen so that each
check accepts some and refuses some, with the characters that separate cookies.
Its 4027 URLs are all combinations of good and bad schemes, user infos, hosts,
queries and fragments with ports at the limits of 16 and 32 bits, all paths of
up to four elements, and two longer ones; 795 are well-formed, and with `MaxUrl
= 18` some are exactly as long as allowed and some by one character too long.
The script goes on with two of them (`Opened`), a plain and a TLS one, as the
socket depends on nothing else. In `threads` the loop of `main` has two rounds
instead of 100 and there are three writes: one in flight, one that waits for it
and one that comes while `onWrite` hands over.

**Fairness.** In `GWSocket`: webSocketThink runs every frame (the timer has
delay 0), and every operation except a read is answered by the resolver, the
network or the peer. The code does not guarantee the latter, as it sets no
timeouts: `AttemptEnds` and `CloseCompletes` say that *GWSockets* is never the
one that keeps a socket waiting. Reads have no fairness, since a silent peer is
normal. `socket_liveness` also assumes a script that neither writes nor clears
the queue between `close()` and the closing handshake (`AfterClose = {}`): the
runs `early_write` and `cleared_close` show why. In `GLua`: thinks, callbacks
and the delivery loop go on, `poll()` runs what is ready, `run_for` ends after
a second, and a collector that keeps running finds a table that is unreachable
again and again (strong fairness). In `SocketThreads`: a thread that can go on
does. A lock is taken by whoever asks for it while it is free; with bounded
writes a waiting thread gets it in the end. Nothing is assumed of the network.

## 4. Proofs

TLAPS proves the following for every value of the constants: any kinds of
sockets, calls, outcomes, URLs and texts, any number of sockets, and all
bounds. These are all the safety properties that the passing runs check.

| Module | Theorem | Property |
|---|---|---|
| `GWSocketProofs` | `CoreInvariant` | `IInv`, the inductive invariant |
| | `TypeCorrect` | `TypeOK` |
| | `WritingCorrect` | `WritingMatchesOps` |
| | `OneOperationPerDirection` | `NoOverlap` |
| | `DisconnectedIsClean` | `ClosedIsClean` |
| | `NoOrphan` | `NeverOrphaned` |
| | `MarkCorrect` | `MarkOnlyWhileRequested` |
| | `StreamIsolated` | `EstablishedIsIsolated` |
| | `WritesWait` | `WritesWaitForConnection`, if `"write" \notin AfterClose` |
| | `EventsInOrder` | `EventOrder` |
| | `Implementation` | `ImplementsLifecycle`: `GWSocket` refines `SocketLifecycle` |
| `QueueProofs` | `OrderedDelivery` | `SentInOrder` |
| | `ClosesAfterFlush` | `CloseAfterFlush` |
| | `NoMessageLost` | `NothingLost`, an action property |
| `GLuaProofs` | `LuaInvariant` | `LInv`, the inductive invariant |
| | `LuaTypes` | `TypeOK` |
| | `TableIsKept` | `EventsKeepTable` |
| | `CollectedStaysIdle` | `CollectedIsIdle` |
| | `LoopEntriesValid` | `EntriesStayValid` |
| | `ContextOutlivesSockets` | `NoneOutlivesContext` |
| | `NoDanglingSocket` | `NoUseAfterFree`, if `~SlowLookups` |
| | `EachImplementsLifecycle` | `ImplementsLifecycle`: every socket refines `SocketLifecycle` |
| `SocketThreadsProofs` | `ThreadsInvariant` | `TInv`, the inductive invariant |
| | `ClosedOnce` | `OneDisconnect` |
| | `ProgramEndsClosed` | `EndsDisconnected` |
| | `SingleWrite` | `OneWriteAtATime` |
| | `QueueIsAttended` | `QueueAttended` |
| | `MessagesInOrder` | `SentInOrder` |
| `HandshakeProofs` | `HandshakeInvariant` | `HInv`, the inductive invariant |
| | `ConfigurationKept` | `OpenedAsConfigured` |
| | `CookiesReadBackExactly` | `CookiesArrive` |
| `UrlProofs` | `UrlInvariant` | `UInv`, the inductive invariant |
| | `SocketAsDescribed` | `SocketMatchesUrl` |
| | `PathIsResolved` | `PathResolved` |

**Assumptions.** The named assumptions of the modules say that the sets are
subsets of the possible kinds, calls, outcomes and characters and that bounds
are natural numbers. Two theorems have a hypothesis of their own, and for each
a run shows that the property fails without it: `early_write` has a script that
writes after `close()`, `early_delete` a lookup that goes on after it was
cancelled. Under both hypotheses there are plenty of behaviours; the runs
`socket_liveness` and `module` check the two properties there.

**Operations and state** (`GWSocketOpsProofs`, `GWSocketProofs`). None of the
properties is inductive alone: that `checkWriting` starts no second operation
needs `writing` to match `pending`, which survives `doClose` only because the
new generation is above that of every pending operation, and so on. `Core(s)`
conjoins

- `Closable`: types, no pending operation of a later generation, no overlap;
- `Lanes`: one operation per direction, `writing` matches the outgoing one,
  connecting operations only before and reads only after establishment;
- `Phases`: what the state says about establishment and closing;
- `Alive`: who will report the end of the connection;
- `Marks`: where `OUT_DISCONNECT` may stand.

A handler starts from a state that is not in `Core`, since its operation has
just left `pending`. `Resumed(s)` describes it, and for each member function a
lemma says from which of `Core`, `Resumed` and `Closable` it leads to `Core`.
Operations of earlier generations leave `Core` alone (`StaleCompletion`).

**Step shapes** (`GWSocketStepProofs`). From `Core`, a step of a socket opens
an attempt, ends one, connects, receives, asks for a close, writes, clears the
queue, passes a resolve or connect on, or changes nothing that a property
speaks of; some of these then let the write pump take one message
(`PumpStep`). The proofs below look at these few shapes and not at the member
functions again.

**Streams and waiting** (`GWSocketProofs`). `Streams`: a stream is no younger
than an operation on it, and from `asyncConnect` on an attempt has a stream of
its own; so an older operation cannot be on the stream of an established
connection. `Waiting`: outgoing operations of the attempt exist only on an
established connection, as only a `write()` after `close()` pumps earlier.

**Events and the refinement** (`GWSocketProofs`, `GLuaProofs`). `Events`
relates the last event that waits to `established`, so that the next one can be
appended. `OwnerStep` states the next-state relation of `SocketLifecycle` on
two sockets through the refinement mapping (`PhaseOf`, the types of the
events); every step shape is an `OwnerStep`. That is said of socket records and
not of a variable, so that it serves for the one socket of `GWSocket` and for
each of `GLua`: there a step leaves every other socket alone, or it is one of
the loops over all of them, which take an `OwnerStep` with each.

**Messages** (`QueueProofs`). `Data` says that what was sent lies before
`messageToWrite`, what is queued behind it, and that behind the mark, or
anywhere once the closing handshake runs, there are only messages of later
`write()` calls. `NothingLost` follows from the step shapes: each keeps the
message in flight and those in the queue, or acknowledges or clears them.

**Tables and lifetimes** (`GLuaProofs`). Each socket is `Sound`: it satisfies
`Core` and was never written to. `LInv` adds to the three table properties,
which need each other, that everything the Lua state refers to exists, that
sockets not yet created are new, and where the delivery loop stands. That no
handler of a deleted socket runs is the invariant `NothingRuns`, a deleted
socket has no operation in flight: a collected socket is disconnected, so that
`Core` leaves it only cancelled operations, and `poll()` has run their handlers
before the sweep, unless a lookup is slow.

**Threads** (`SocketThreadsProofs`). `TInv` says which thread may be at which
step in which state of the connection:

- `Closing`: whoever has won the exchange to `STATE_DISCONNECTING` is alone,
  and `generation` tells how far it has come; `closeNow` leaves only a
  connection that somebody closes;
- `Locking`: from reading the state to starting the write `checkWriting` keeps
  the lock, and so `doClose` cannot pass `clearQueue` and finish meanwhile;
- `OneIncoming`, `OneWrite`: an operation is being started, pending or in its
  handler, and only one of these at a time;
- `Marking`: `writing` agrees with the write under way, although `onWrite`
  resets it without the lock: it does so only while it is the one under way;
- `Generations`: the generations captured so far;
- `Attended`: while the queue is not empty somebody will look at it;
- `Untouched`, `Counted`: nothing is written before the connection is
  established; after that the messages acknowledged, the one in
  `messageToWrite` and those queued have the numbers from 1 to that of the last
  `write()`, without a gap, until `doClose` drops the queue.

One lemma per action shows that it keeps the parts.

**Configuration** (`HandshakeProofs`). `HInv`: as long as the socket is not
disconnected the configuration is that of the `open()`, once the stream of the
attempt exists it has its options, and once the request is sent it has its
headers. Each step of the socket opens, ends or goes on with an attempt.

**Cookies** (`HandshakeProofs`). `HInv` says of the cookies that the checks let
each name and value through (`Jar`), and of a request that its Cookie field is
the text of them in some order. `CookiesReadBack` shows for every such text
that it is read back as it was put together: the text of the first n cookies
ends where that of the next begins (`Accumulates`, the fold as a function of
n), its semicolons are those between the cookies since no name or value holds
one (`CutsOfCookies`), and in a piece the first `=` is the one behind the name
(`PairIsRead`). What such a lemma says for every n is shown by the least n for
which it fails (`LeastNumber`), as the library's induction theorems cannot be
used here.

**URLs** (`UrlProofs`). `SocketMatchesUrl` compares what
`createWebSocketFromURL` makes of a text with the parts the text was put
together from, `PathResolved` the path of the socket with that part. Both are
proved for every limit `MaxUrl`. `Accepted` says of which URLs the code makes a
socket, whatever their scheme; with a documented scheme these are the
well-formed ones (`DocumentedAccepted`), and only that is claimed. There are
three arguments.

- *Parsing.* `UrlAssumption` says what being in parts means: no part has a
  character at which it would end, and there are slashes before an authority.
  `FirstOf` finds the first of some characters; from it, one lemma per step of
  `parse_url` (`SchemeFound`, `AuthorityFound`, `UserFound`, `PortFound`, the
  tail) says that the step cuts where the part was joined, and `TextSplit`,
  `AuthoritySplit` and `ResourceSplit` put the steps together. A URL without
  slashes has no host, whatever else it holds (`NoSlashes`).
- *Numbers.* The port is read three times: in two halves of 16 bits by
  `is_uint`, which wrap around; by `std::stoi`, which fails above 2^31 - 1; and
  as the number it is. `ReadingsAgree` goes through the digits with all three:
  up to 2^31 - 1 they agree, and beyond that `stoi` has failed and keeps
  failing. So a port that was let through and did not throw has the value
  `is_uint` compared with 65535, and narrowing it to 16 bits changes nothing
  (`PortAgrees`).

- *The path.* `normalize_path` keeps a stack; `PathResolved` counts: a name stays
  if behind it there are never more `..` than further names. `Tracks` relates
  the two: the stack is the names that stay so far, in their order, and behind
  the i-th of m there are m - i more names than `..`. So a `..` takes the
  balance of the last one alone below zero (`TracksUp`), a name adds itself
  (`TracksName`), and nothing else changes who stays (`TracksSkip`). Put
  together behind a slash, the stack is cut into the same names again
  (`ElementsJoined`), whether or not the path ends in a slash (`LastIs`), so
  the names of the socket's path are those that stay (`PathOf`).

The invariant `UInv` says this of the URL that `createWebSocket` was given, and
that a request names the host and the port of the socket.

**Model-checked only.** Liveness (`CloseCompletes`, `AttemptEnds`,
`QueueMoves`, `EventsDelivered`, `ForgottenIsDeleted`, `ThreadsEnd`) needs
fairness, which the prover does not handle.

## 5. Not modelled, and the plan

Not modelled on purpose:

- texts of errors and reasons, loading of certificates and `addVerifyPath`
  (state of OpenSSL), the setting up of the Lua tables;
- in `Url`: addresses in brackets (IPv6), the setters, `build_url` and
  `output`, none of which but the first the program reaches; the limit of 8000
  is one on characters of the model, not on bytes;
- the operations of `BlockingQueue` that nothing calls;
- `UpdateChecker`: a chain of calls into the game's timer and http libraries
  that prints a message, keeps no state and touches no socket;
- the Lua headers, build files and the manual TLS test, which needs live
  servers.

What could come next:

1. In `SocketThreads`, the order of the events: `IN_DISCONNECTED` may come
   between the exchange to `STATE_CONNECTED` and the `put` of `IN_CONNECTED`
   (a hazard without a property). The harness reads no types, so nothing
   there depends on it.
2. Addresses in brackets in `Url`.
3. From the invariants proved here, action properties of `GLua`: what a
   callback may change in the tables while `webSocketThink` walks over them.
