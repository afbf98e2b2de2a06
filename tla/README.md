# Regax: specifications, model checking and proofs

Regax is a framework for multiplayer game servers (TypeScript on Node.js, a
descendant of pomelo). Clients hold a WebSocket or UDP connection to a
*frontend* server, which turns it into a session and forwards requests to
*backend* servers over its own RPC; servers find each other through a registry;
a master process starts and restarts them. This directory holds TLA+
specifications of that program, the TLC models that check them, and proofs
checked by TLAPS. All paths below are relative to `src/packages/`.

Every process is one Node event loop, so a piece of code between two `await`s
runs alone. What makes the program hard is what happens *between* such pieces:
timers, socket events, answers and registry updates that arrive in any order
while an operation is suspended, and state that was read before the suspension
and is used after it. The specifications therefore make one action out of one
macrotask (a timer, a socket event, an API call) with the promise continuations
it releases at once; two actions are separated wherever the code really waits.
`process.nextTick` callbacks get an action of their own where something can run
before them.

## 1. Inventory

| Part | State it keeps | Operations | Hard behaviour | Makes it correct |
|---|---|---|---|---|
| RPC mailstation (`rpc/src/client/mailstation.ts`) | known servers, mailboxes, `connecting` flags, pending queues, life cycle | start, stop (graceful), syncServers, dispatch, lazyConnect, connect, flushPending | overlapping dispatches to one server, retry delay, failed or late connects, servers changed or removed meanwhile, stop in the middle | one connect per server, usable and current mailboxes, no lost request, bounded queues, every call settles |
| RPC mailbox (`rpc/src/client/mailboxes/wsMailbox.ts`) | socket, requests with timers, keepalive clock, buffered messages | connect, send, close, processMsg, checkKeepAlive | timers racing answers and closes | each request settles once |
| RPC client, router (`rpc/src/client/client.ts`, `router.ts`) | state, round-robin counters | start, stop, rpcInvoke | calls before start and after stop | a call goes to a server of the route's type |
| RPC server, acceptor (`rpc/src/server/`) | acceptor, registered info, sockets, outgoing buffer | start with retry, stop, dispatch, flush | port conflicts, registration during stop | registered only while listening, one answer per request |
| Registries (`rpc/src/registry/`) | server map, version, subscribers | register, unRegister, subscribe, sync | updates read and compared across an await; a lock of two remote calls; crash while holding it | subscribers end with the latest map, no registration is lost |
| Sessions (`server/src/service/sessionService.ts`) | session table, uid lists, session state and uid | create, bind, unbind, kick, remove | late calls for closed sessions, lists changed while walked, several reports of one socket's end | uid lists equal the live bindings; a session does not outlive its socket |
| Connection statistics (`server/src/service/connectionService.ts`) | connection count, login list and count | add, remove, increase, decrease | counted back by three different events | exact count, limit kept, logins justified |
| Connector, client sockets, commands (`server/src/component/connector.ts`, `server/src/connector/`) | handshake state, heartbeat clocks, client table | handshake, heartbeat, kick, data, close | asynchronous handshake, timeouts, close from both sides | nothing is delivered outside WORKING |
| Task queue (`server/src/util/queue.ts`, `component/taskManager.ts`) | queue, status, current task, timer | push, next, close | a task that times out goes on; close in each status | in order, each once, no lost wake-up |
| Channels (`server/src/service/channelService.ts`, `globalChannelService.ts`) | groups per frontend server, records, count | add, leave, push | double leave, leave with a different server | count equals membership |
| Backend session (`server/src/service/backendSessionService.ts`, remotes) | copy of uid and values | bind, unbind, push, kick | copy against original | copy never claims what the frontend refused |
| Master and workers (`server/src/component/master.ts`, `server/src/master/`) | workers, infos, ready flag | fork, restart, broadcast, stop | a worker dying before it registered, during restart or stop | all ready is announced once and truly; no worker survives stop |
| Application, loader, filters (`server/src/application.ts`, `server/src/loader/`) | component life cycle | load, start, stop | start order | a component starts once |
| WebSocket and UDP clients (`client-websocket/`, `client-udpsocket/`) | connection, requests, timers | connect, reconnect, request, disconnect | back-off, lost datagrams, late answers | a request gets its own answer |
| Wire protocol (`protocol/src/protocol.ts`) | none | encode, decode | widths and lengths | decode inverts encode |
| Loggers, rotation, monitor, egg integration, scheduler, protobuf | files, timers | housekeeping | little | – |

`PROJECT.json` lists every part with its sources and status, and every hazard
with the line where it bites.

## 2. What is modelled

### Mailstation (`Mailstation.tla`, `MailstationProofs.tla`, `MCMailstation.tla`)

`Calls` is the set of `dispatch()` invocations of a behaviour; each has the
server id it is `target`ed at and a program counter `pc` that says at which
`await` it stands (`retry`, `connect`, `parked`, `sent`). `mailboxes`,
`connecting`, `pendings`, `servers` and `state` are the fields of the class. A
call creates at most one mailbox, so mailboxes are named by the call that
created them; `phase` is the mailbox's connection, `attempt` the promise of its
`connect()`, `info` the server info it was created with.

* `DispatchRejected/Parked/Sent/Connecting/Unknown` are the branches of
  `dispatch` up to its first real wait; `RetryGivesUp/Misses/Finds` are the ends
  of a delay in `retry()`; `LazyConnect` and `AddToPending` are shared.
* `Connected` is `socket.onopen` while `connect()` is awaited, with everything
  that follows without waiting: the flag is cleared, the queue re-dispatched, the
  caller's message sent. `ConnectTimeout`, `ConnectRefused`, `LateOpen`,
  `LocalClose`, `SocketClosed`, `ConnectionLost` are the other timer and socket
  events; `Reply`, `ReplyServerClosed`, `InvokeTimeout` settle a request.
* A map from the registry comes by its subscription (`ServersChanged`), which `stop()`
  ends, and once as the answer `start()` awaits (`ServersFetched`), also after a
  `stop()`; both go through `SyncServers`, which has `removeOldMailboxes`. `StopNow`,
  `StopGracefully`, `GraceTimeout` are the two ways of `stop()`.

The network, the remote server and the registry are the environment: a socket may
open, fail, hang or break, an answer may or may not come. Messages have no
content. `Faults` says which of those may happen in a run.

### Frontend sessions (`FrontendSessions.tla`, `SessionProofs.tla`, `MCFrontendSessions.tla`)

A socket and its session share an id from `Sids`. `sessions`, `uidMap`, `uid`
and `sess` are the session service's table, its lists and each session's fields;
`connCount`, `logined`, `loginedCount` are the connection statistics; `left` is
the flag the connector's two listeners share; `ticks` holds the sockets whose
`close()` waits in `process.nextTick`.

* `ConnectionAccepted/Refused`, `ClientClosed`, `SocketError`, `SocketClosed` are
  the socket's events with all their listeners: the session's `close()` first,
  then the connector's counting. `NextTick` closes the socket, which emits
  DISCONNECT if nobody has yet.
* `Bind`, `Unbind`, `KickBySessionId`, `KickByUid` are the API, callable by
  handlers and by RPC at any time, for sessions in any state. A handler runs in
  microtasks, so these may come before a pending nextTick callback but a new
  socket event may not (`Macrotask`).
* `kickByUid` walks the list that `close()` edits. `KickStep` is one round of its
  `forEach`; nothing else runs until `KickDone`.
* `EventEmitter.once` of `common/src/event.ts` registers the bare function, so
  the listener stays; the model has no once-only listeners either.

A call that returns an `Error` changes nothing and is no step. Session values and
messages carry no state the properties speak of.

### Task queues (`TaskQueue.tla`, `TaskLine.tla`, `RequestProofs.tla`, `MCTaskQueue.tla`)

`TaskLine` is the promise: a line of accepted tasks that begin in order, each
once, a task only when no earlier one is running except those that overran.
`TaskQueue` is the code: `current` is the manager's entry for one key (keys do not
interact), and `status`, `queue`, `curId`, `timer` are the fields of each
`SeqQueue` the key gets as it is closed and used again; `ticks` are the
`process.nextTick` callbacks of `runTask`, which carry the id they were made with.

* `AddTask` is `addTask` with its `push`; `CloseForced` and `CloseGently` are
  `closeQueue` with the two kinds of `close`.
* `NextIgnored/Empty/Begins` are the branches of `next()`; `Timeout` is the timer,
  `TaskEnds` the `finally` clause.
* Node runs nextTick callbacks before timers, so `Timeout` finds none pending.
  Nothing else about their order is assumed.

### Remote directory (`RemoteDirectory.tla`, `Directory.tla`, `RegistryProofs.tla`, `MCRemoteDirectory.tla`)

`Directory` is the promise: an operation looks at the directory once during its call
and stores at most once what it makes of it, which differs in the files it names and
in no others; unless the directory is contended, looking and storing are one step to
others. `RemoteDirectory` is the code: the remote cache holds
`files` and `version` under one key and the lock (`locked`) under another; an
operation of `Ops` is a call of `writeFile` or `removeFiles` with a program
counter at its next remote call; each registry has the ids it registered (`mine`),
whether it is `stopped`, and the map and version it saw last. Two histories, which no
code can see: `epoch` counts the deletions of the directory and the writes made from
a stale copy; `raced` says that the lock has let two operations in.

* `Register`, `UnRegister`, `StopRemoves`, `StopEmpty` are the registry's methods;
  `Sync` is one round of the sync interval that finds another version.
* `CheckFree`, `CheckBusy`, `GiveUp` are `waitLock`; `Lock`, `Read`, `Write`,
  `Erase`, `Unlock` are the remote calls that follow.
* `Crash` kills a process at any of these points and leaves its lock behind until
  `LockExpires`.
* The lock is what the code has, with no guard added. Two operations are let in when
  both test it before one sets it, when `waitLock` runs out and goes on, or when the
  key expires under its holder. Those three steps set `raced`, if another operation
  is at work; it ends when the last operation between the test and `unlock()` has left.

### RPC channel (`RPCCalls.tla`, `RPCChannel.tla`, `RPCChannelProofs.tla`, `MCRPCChannel.tla`)

`RPCCalls` is the promise: a service runs at most once for a call, a call settles
at most once, and is answered only if its service ran. `RPCChannel` is the code of
`wsMailbox.ts` and `wsAcceptor.ts` over a WebSocket in each direction (`toServer`,
`toClient`), on which frames keep their order and are lost with the connection.

* Mailbox: `Connect`, `ConnectTimeout`, `Opened`, `SocketClosed`, `LocalClose` are
  `connect()` and `close()`; `Send` and `Flush` fill and empty the buffer of
  `bufferMsg`; `RequestTimeout` is the timer of `send()`, `Receive` is
  `processMsg()`, `Tick` and `Pong` are the keepalive clock.
* Acceptor: `Accept`, `Serve` (dispatcher and service), `ServiceDone`, `FlushQueues`
  (the interval with `flush()`), `ServerSocketClosed`, `Stop`.
* `FallSilent` takes a link down without closing it.

### Client connections (`ServerSocket.tla`, `WSConnection.tla`, `UDPConnection.tla`, `ConnectionProofs.tla`, `UDPConnectionProofs.tla`, `MC…`)

`ServerSocket` is the server's side of one socket as both connectors use it:
`state` and `clock` are the socket's state and its entry in `tick.ts`, `checking`
counts the `userHandshake()` calls being awaited. `OnHandshake`,
`HandshakeAccepted/Refused`, `OnAck`, `OnHeartbeat` are the commands,
`ClockTick/ClockTimeout` the timers, `CloseSocket` is `close()`. The two modules that
instantiate it add a client and a network.

`WSConnection`: the client of `client-websocket/src/socket.ts` makes numbered
sockets, all of which share its fields. `MakeSocket` is `connect()`, `Opened`,
`Closed`, `Receive` are the socket's events, `Retry` is the reconnect timer, `Tick`
and `Timeout` are the client's heartbeat, `Disconnect` is the API call. `promise` is
what `Client.connect()` returned.

`UDPConnection`: the client of `client-udpsocket/src/` against the entry of its
address in the UDP connector. Packages under way form a set: any may be taken
next or never. `TryToConnect` repeats the handshake; `Arrive` makes an entry for
a package from an unknown address.

### Requests (`WireProtocol.tla`, `ClientRequests.tla`, `RequestProofs.tla`, `MCClientRequests.tla`)

`WireProtocol` has the bytes of `protocol.ts` as operators, with recursive functions
for its loops: text, message ids of variable length with the length reserved for
them, messages and packages.
`ClientRequests` sends those bytes: `RequestOverWS`, `RequestOverUDP`,
`RequestTimeout` and `Notify` are `request()` and `notify()` of the two clients,
`Receive` their `onMessage()`. On the server, `Handle` is
`Connector.handleMessage()`, which drops a message whose route names no server type
(`place` is "untyped"), and `Invoke` is `RouterComponent.invoke()` with the filter chain
of `compose()`; `RouteInvoke` runs the controller at a backend,
`ControllerEnds`, `RPCReturns`, `RPCFails` end it, and `Answer` writes the response.
`transport`, `place`, `nexts` and `first` are chosen once.

### Applications of a process (`Cluster.tla`, `RegistryProofs.tla`, `MCCluster.tla`)

`Start` and `Stop` are `Application.start()` and `stop()`; `start` is the promise that
`start()` returned, which `Settle` gives its outcome. RPC servers look for a port
(`Detected`, `Listen`, `Retry`, `Failed` are `Server.start()` with its retries), register
with a `LocalRegistry` (`RegisterLocally`, `Leave`, `Emit`: version, delayed emission,
subscriber), and route calls in turn (`Pick` is `rrRoute()`). `view` is what
`syncServers()` stored for each client. `ComeUp` is what follows the registration
without waiting: the client's `start()` and, for the nodes in `Frontends`, the
connector (`StartConnector`), whose own port may be taken. `StopServer` and
`CloseConnector` are the components' `onStop()`; before the RPC component is up, they
do nothing, so that is no step.

### Master and workers (`Master.tla`, `MasterProofs.tla`, `MCMaster.tla`)

`os` is what the operating system knows of a process; `workers`, `workerInfos`,
`workerCount`, `agentStarted`, `allReady` are the fields of `master.ts`; `posted`
and `exiting` are PROCESS_STARTED messages and exit events under way. `Start`,
`OnAgentStarted`, `OnWorkerStarted`, `OnExit`, `EmitChanged`, `StartStickyServers`,
`Connection`, `Stop` and `Terminate` are the master's handlers; `Started`, `StartFails`,
`Crash`, `GracefulExit`, `Receive` happen in a process. `map` is the server map of a
worker's `WorkerRegistry` (`RegisterSelf`, `UpdateServerMap`), `untold` holds the workers
whose registry has a change to emit, and `Tell` emits it to the worker's RPC client,
which then knows the servers in `known`. A sticky connection without a worker throws
in the master: `down`.

### Backend server (`BackendServer.tla`, `SessionProofs.tla`, `MCBackendServer.tla`)

Extends `FrontendSessions` with a backend that works on the frontend's sessions
through one mailbox. `SessionCall` is what `BackendSession` calls, `SendMessage`,
`PushMessageByUids`, `Broadcast` the channel service's pushes, `Add`, `Leave`,
`Destroy`, `PushMessage` a `Channel` (`groups`, `records`, `userAmount`),
`GlobalAdd/Leave/Destroy/Read/Push` a global channel whose members are in the
remote cache. `Call` is a dispatch at the mailstation (`link`, `opener`, `parked`,
`line`), abstracted from `Mailstation`: it connects at the first call, parks the
next ones, sends them first, and fails for good or is lost. A parked push refers to
the channel's own array, so it is read when it is sent (`Serialized`). The
`Remote…` actions are `SessionRemote` and `ChannelRemote` with the push scheduler.

## 3. What the runs check

A property that groups several is the conjunction of its named parts, which are
stated one by one in the module.

| Run | Instance | Checked |
|---|---|---|
| `mailstation_safety` | 3 calls, 1 server, 2 infos, every fault | `MailboxesSound` (a mailbox used without waiting is connected and current, one connect at a time), `QueuesSound` (calls are parked only while somebody connects, within the bound, and flushing finds the mailbox), `NoOrphanedRequest`, `ParkedNotSentAfterStop` |
| `mailstation_live` | 3 calls that overflow the queue, every fault, a registry that removes and adds the server | `DispatchesEnd`: every dispatch settles, is turned away by a full queue, or stays parked at an id one of whose `connect()` failed |
| `sessions_safety` | 4 connections, 2 users, limit 2 | `TablesAgree` (session table, uid lists, sockets), `StatisticsExact` (connection count and limit, justified logins), `ClosedSessionStaysClosed` |
| `taskqueue` | 3 tasks, 2 queue objects | `OneAtATime`, `TasksTimed` (no false timeout, no lost wake-up), `KeepsOrder` (implements `TaskLine`), `AcceptedTaskBegins` |
| `directory` | 2 registries, 2 operations, 2 ids, 1 info, crashes, races for the lock | `LockSound` (one writer and no stale write, except while a race goes on; versions identify files), `KeepsDirectory` (implements `Directory`, races included), `OpsEnd` (operations end beside a dead holder of the lock, readers catch up) |
| `rpc_channel` | 1 mailbox, 2 calls | `ChannelSound` (a pending call has a timer; a connected mailbox has an open socket), `AnswersOwnCall`, `KeepsPromise` (implements `RPCCalls`), `ChannelSettles` (calls settle, a silent peer is dropped, queues of lost sockets are swept) |
| `ws_connection` | up to 4 sockets of a client, 1 reconnection attempt | `ConnectionSound` (one connection, at most one reconnection more than the option allows, server clocks only for working sockets), `ConnectSettles`, `SilentPeersDropped` |
| `udp_connection` | 1 client, 3 handshake attempts | `UDPSound` (a closed client sends nothing more), `ConnectionSettles` (`connect()` ends, a client that has gone is dropped) |
| `client_requests` | 2 calls, 2 attempts each, ids around 127 and 2^28 | `RequestsSound` (attempts and controller runs are bounded; over a live WebSocket no call is forgotten, unless its route names no server type), `FramesReadable` (bytes decode to what was written), `OwnAnswer`, `RequestSettles` |
| `cluster` | 3 applications, 1 of them a frontend, 3 ports, 1 retry, 1 router | `RegistrySound` (listed servers listen, on ports of their own, clients catch up, a started application is up and its connector does not outlive its server), `FairTurns`, `StartSettles` |
| `master` | 2 workers, 1 of them sticky, 1 failure | `ProcessesSound` (a server never has two processes, READY means all, stop reaches all), `WorkersCatchUp` (the RPC client of a worker ends up with the master's list), `MasterActs` |
| `backend_server` | 2 sessions, 2 users, `singleSession`, 2 calls, 2 pushes | `SingleSessionHolds`, `ChannelSound` (nobody twice, records name groups, the count fits), `PushesSound` (a push reaches its users, once, in order except for the call that opened the connection), `ClosedSessionLeaves` |

### Bounds

* Mailstation: three calls are the least with one connecting, one parked and one
  late. With `PendingSize = 0`, in both runs, one call connects, one is parked and one is
  turned away. One server suffices: all maps are indexed by id. The info changes in two
  registry updates.
* Sessions: with four clients and a limit of two a connection is refused and a
  slot is used again, while a third session of a user appears.
* Task queue: a late task, a running one and a waiting one, over a queue that was
  closed and made again.
* Directory: two operations are whatever two processes can do to each other, one
  of them dead, and enough for every race: they test the lock together, one gives up
  waiting, or the key of one expires. `waitLock` is cut to one check.
* RPC channel: two calls show ends out of order and two packages in a frame. One
  mailbox suffices: mailboxes of an acceptor share only `interval` and `stopped`.
* WebSocket: `MaxConns` sockets are one more than the attempts can need, so the
  bound never stops a reconnection. At most one push is under way.
* UDP: a set of packages holds each type once; a second copy would do what the
  first did, and a lost one is one never taken.
* Requests: the ids start at 126 and 2^28 − 2, so that the two calls with their
  repetitions cross the lengths of one and two, and four and five bytes. Over UDP
  the controller is at the frontend and the filter calls `next()` once: routing does
  not depend on the transport; for the same reason routes without a server type
  come over WebSockets only. A filter calls `next()` once or twice: one that never does,
  and answers itself, is left out. Over UDP a frame is handled at most once each time
  it is sent. Ids stay below 2^31 (`FirstIdsAssumption`), which a client reaches after
  two thousand million requests; see the gaps.
* Cluster: with three servers and three ports a port can be lost to two others and
  ports can run out. `Cycle` is a constant: the index of a route is kept modulo a
  number that every possible number of servers divides (`CycleAssumption`), which no
  turn can tell from the index itself. Connectors do not
  interact, so one node has one, a WebSocket connector. The ports of the model are all
  there are: that detect-port takes any free port once its range is used up is left out.
* Master: one failure anywhere covers a worker that dies before, while or after it
  reports, and one that is replaced during a stop. A worker forked again has the port
  and the server id of the one it replaces; one that may look for another port, because
  somebody took its own, reports as another server, which is left out.
* Backend server: `Uses` splits what a handler does into four worlds that share the
  frontend; channel state, sessions and pushes meet where they are read.
  `pushMessageByUids` is given one uid at a time, so none twice; see the gaps.

Deadlock is not checked: calls, connections and operations are finite in number, and
a server with nothing to do waits.

### Fairness

Timers, intervals and callbacks of a Node process run: they are weakly fair in
every module. Nothing is assumed of callers, services, handlers and clients. Beyond
that:

* `Mailstation`: a socket that is opening or closing has its event (its timer stays
  armed until then).
* `FrontendSessions`, `BackendServer`: the loop of `kickByUid` runs on, and a
  `nextTick` callback is strongly fair: microtasks that start `kickByUid` again
  disable it for a moment each time, and only an endless chain of microtasks, which
  would hang the process, could starve it.
* `RemoteDirectory`: remote calls are answered, the sync interval goes on, keys
  expire.
* `WSConnection`: an attempt to connect ends and a closing socket closes (`ws` waits
  30 s for the peer), packages arrive over a link that has not fallen silent, and
  `userHandshake()` is settled.
* `UDPConnection`, `ClientRequests`, `RPCChannel`: timers only, nothing of the
  network.
* `Cluster`: a port search ends. `Master`: events and messages arrive; no process
  has to start, or to exit when it is told to.

## 4. Gaps

What the models show the code does not promise or not keep. They are part of the
modelled behaviour; the properties above hold beside them, with the hypotheses
named there.

RPC and registry:

* `rpc/src/client/mailstation.ts:166` – a failed `connect()` leaves `connecting[id]`
  set: the call and every later one to that server are parked for good, though
  the server may be back (`DispatchesEnd` excepts calls that are parked at such an id).
* `mailstation.ts:209` – when the queue is full, `addToPending` returns without settling
  the promise: that call never ends (`DispatchesEnd` excepts it), and the queue holds
  one call more than `pendingSize`.
* `mailstation.ts:57` – the map that `start()` awaits is taken over without a look at the
  state, also after a `stop()`.
* `mailstation.ts:100` – `stop()` ("Stop station and all its mailboxes", :88) misses
  mailboxes that are not in the map at that moment.
* `mailstation.ts:225` – after the retry delay `lazyConnect` does not look at
  `mailboxes` again and replaces a mailbox another call has connected.
* `mailstation.ts:132` – the call that opened a connection is sent after the calls
  parked behind it (`PushesSound` excepts it).
* `rpc/src/util/remoteCache.ts:185` – the lock is tested and set in two calls; of two
  servers that register at once one may not be listed (a race, which `raced` marks;
  `LockSound` and `KeepsDirectory` say what holds during one). A
  reader that saw version *n* misses what is stored under the same *n* after the
  directory was deleted; `stop()` overtaken by its own `register()` leaves the server
  listed.
* `server/src/component/rpc.ts:89` – for types other than connector and gate
  `getServersByType` lists the servers of type `'*'` twice, so that a global channel
  of such a type pushes to them twice.
* A component's `onStop()` before it has come up is lost
  (`server/src/component/rpc.ts:125`); a bare `Server.stop()` during `start()` leaves
  an acceptor listening.
* `server/src/application.ts:179` – `isStarted` is set when `start()` is called: a second
  call is fulfilled at once, also while the first waits or after it failed, and
  nothing starts again after `stop()`. When the connector's port is taken, `start()`
  is rejected while the RPC server stays up and listed; a `stop()` during `start()` is
  lost and the components come up afterwards. A UDP connector whose port is taken
  rejects nothing: nobody listens to its error (`server/src/connector/udpConnector.ts:68`),
  which is thrown.
* With `bufferMsg` packages carry no ids, so no call is ever answered
  (`wsMailbox.ts:172`); they end by their timers.

Sessions and channels:

* `server/src/service/sessionService.ts:292` – `kickByUid` ("Kick all the session
  offline") skips every second session of a user, because closing edits the list it
  walks. `EventEmitter.once` of `common/src/event.ts` never unregisters its listener.
* `server/src/service/connectionService.ts:73` – a user with a live session leaves the
  login list when another session of theirs ends.
* A falsy uid (0, '') counts as "not bound": such a session can be bound twice, be in
  two lists and stay listed (hence `FalsyUids = {}`).
* `sessionService.ts:340` – `forEachBindedSession` looks for lists that do not exist, so
  a broadcast to bound sessions reaches nobody.
* `channelService.ts:65` – `leave()` lowers the count for users who are not in the
  group, and forgets the record of one who is in the group of another server
  (`ChannelSound` says "exactly" only if nobody did).
* `channelService.ts:167` – `pushMessageByUids` does not remove duplicates: a uid given
  twice gets the message twice.
* `globalChannelService.ts:52` – the members of a global channel are those that were
  read, whoever joined or left before the push.
* `server/src/component/connector.ts:149` – a request whose route names no server type is
  logged and dropped: over a WebSocket it is never answered (`NothingForgotten` excepts it).
* `backendSessionService.ts` – the copy of the uid is set whatever the frontend
  answered, `unbind` keeps it, errors that `SessionRemote` gets are dropped, and
  `pushAll` overwrites with the backend's copy. A session id starts again with the
  frontend process, so an old copy may act on another client's session.
* `filter/timeout.ts:20` – `timeoutSize` is never lowered, and the timer of a request
  whose `next()` rejects stays; after `maxSize` requests nothing is watched.

Clients:

* WebSocket: a client makes one reconnection more than `maxReconnectAttempts`
  (`client-websocket/src/client.ts:23`, tested at `socket.ts:109`): the first reconnection
  finds the dead socket in its field and calls `close()` (`socket.ts:70`), which starts the
  count again (`:132`), once, for `isClosed` then stops it. `AttemptsBounded` has the number
  the code keeps to. An option of 0 means the default of 10 (`socket.ts:73`).
* WebSocket: `isClosed` is never reset, so after the first reconnection
  `disconnect()` and the heartbeat's timeout do nothing. With `reconnect` the promise
  of `connect()` may never be rejected. A request lost with its connection never
  settles; there are no timers (`NothingForgotten` speaks of live connections,
  `RequestSettles` of UDP).
* UDP: a lost answer to the handshake is never repeated, for the server ignores a
  handshake in WAIT_ACK; a lost ACK leaves it there; a refused handshake never
  settles `connect()`; a late heartbeat of a dropped client makes a new entry
  without a clock. A request is sent again although it was answered, and its timer
  deletes the callback of the latest request, which then waits for its own timer.

* `protocol/src/protocol.ts:322` – an id of 2^31 or more is negative after `>>`: one
  byte is reserved for it where five are written, and the frame is cut.

Master:

* `server/src/component/master.ts:212` – a worker that exits before it reported is never
  forked again and keeps READY from coming; `:189` – each fork raises `workerCount`, so
  a restart before READY has the same effect. A report that comes after the exit
  event registers a dead worker. A worker forked again gets neither APP_READY nor a
  UDP handle.
* `server/src/master/workerRegistry.ts:10` – `version: 0` declares a type, not a value:
  the version is NaN, equal to nothing, so that every emission is taken. The check
  against reacting twice does nothing; no change is missed.
* `server/src/master/terminate.ts:17` – the SIGKILL is never sent: `killed` is true once
  SIGTERM was. A sticky connection without a sticky worker throws in the master.

## 5. What is proved

All theorems are for every set of calls, ids, infos, connections and users and
every bound; the only assumptions are the named `ASSUME`s of the modules (sets of
connections, mailboxes and servers are finite, sizes are natural numbers, `None` is
not a value and not a list, servers are numbered from 1, `Cycle` is a common
multiple, message ids stay below 2^31) and the hypotheses that are named below.

**Mailstation.** `IInv` is inductive (`Invariance`): besides the checked
invariants it says how a mailbox and the call that created it move together
(`BoxOfCall`), that the map holds, under its own id, only mailboxes that connect
or are connected (`MapHoldsLiveMailbox`), and that requests are on mailboxes whose
`connect()` succeeded (`SentOverConnected`). None of the checked invariants is
inductive alone: `UsableMailbox` needs to know that a mapped mailbox whose id is
not `connecting` has finished its attempt, which needs the lock property
`OneAttempt`, which needs `BoxOfCall`. From `IInv` follow `TypeCorrect`,
`MailboxUsable`, `MailboxFresh`, `ConnectExclusive`, `FlushFindsMailbox`,
`QueuesAwaited`, `RequestsOwned` and `StoppedStationKeepsParked`; `QueuesBounded`
adds the queue bound. Each step lemma has one step per action.

**FrontendSessions.** Under the hypothesis `FalsyUids = {}` (with a falsy uid the
lists do go wrong) `IInv` is inductive. It adds `CloseFollows`
to the checked invariants: a closed session that has not been counted out has its
socket open and a nextTick callback pending. `UnlistedLists` and `AppendedLists`
say what splicing and appending do to the lists; `Decreased` what a report of a
socket's end does to the counters; `Closed` what closing does to the table. From
`IInv` follow `UidMapCorrect`, `SessionsConnected`, `ConnectionCountExact`,
`LoginsJustified`, `OneSessionPerUser`, `TypeCorrect` and `ClosedIsFinal`.

**TaskQueue** (at the end of `RequestProofs`). `IInv` ties the ids together: a running task has the current id
and the timer (`RunningIsCurrent`), a callback with the current id means that the
current task is over (`PendingIsOver`), an armed timer belongs to the current
task, which runs or has just ended and left its callback (`TimerIsCurrent`), begun
tasks have distinct ids (`IdsUnique`). `OneAtATime` alone is not inductive: a
callback that comes too early would break it, which `PendingIsOver` excludes, and
that in turn needs the ids to be unique when a late task ends. From `IInv` follow
`TypeCorrect`, `Sequential`, `NoFalseTimeout` and `WakeUpKept`; `LineStep` maps
every step to a step or a stutter of `TaskLine`, and `ImplementsTaskLine` is the
refinement.

**RemoteDirectory** (at the end of `RegistryProofs`). For the lock as the code has it, with
no hypothesis. `OneWriter` and `WritesFresh` do not hold in a race, so `DirInv` has them,
as parts of `LockHolds`, only while `~raced`, together with what they need: that a
holder finds its lock key there and what it has read is what is stored. Besides, it
says, races or not, that an absent directory has version 0 (`EmptyIsAbsent`), that
readers are never ahead (`SeenBehind`), and `VersionIdentifiesFiles`: a write that is not
stale raises the version from the current one, a stale one begins a new epoch. A race
ends only when no operation is left in the critical section (`RaceOver`), so that the
lock holds after every step after which no race is on (`ShelterStep`). `ExclusionHolds`,
`VersionsTell` and `LockCorrect` follow from `DirInv`; `DirStep` maps each step to
`Directory` and `ImplementsDirectory` is the refinement.

**BackendServer** (in `SessionProofs` too). `ChannelCorrect`: `ChannelSound` is
inductive by itself. It is proved for every set of users and sessions and every
bound, with no hypothesis on uids. `MembersCounted` and `MembersAtLeast` tie the
length of the groups to their users, `WithoutList` says what `deleteFromArr` leaves;
`AddSound` and `LeaveSound` are the two steps that touch a channel, `StepSound` goes
through the others. The count needs `NobodyTwice`, for a user taken out once must
be gone, and `RecordsNameGroups` needs it for the same reason.

`PushesCorrect` needs `CallsSound`, which is about the calls that are due: those on the
socket, or those parked with the one that waits for the connection behind them
(`Due`). In that order no push comes after one with a higher number unless it opened
the connection, and none has been taken already (`InOrder`, `NotYet`); each is meant
for the users it will be sent to, or, while it refers to the channel, for those
who are in the channel then (`MeantFor`); what is on the socket refers to the channel
no more (`SentIsFixed`). `NobodyTwice` and `UidMapExact` make one delivery to a session
of it (`OccursOnce`). The steps that change the calls under way have a lemma each:
`CallMade`, `ConnectedSound`, `LostSound`, `ChannelStepSound` (somebody joins or leaves while
pushes are parked), `TakenSound`. `BackendKeepsSessions` says that every behaviour of
the composition is one of `FrontendSessions`, whatever calls arrive: what is proved
of the sessions holds with a backend as well. `PushesCorrect` has the hypothesis
`FalsyUids = {}` of the uid lists.

**Connections** (`ConnectionProofs`, `UDPConnectionProofs`). `OneConnection` is not inductive: a retry could
come while a socket is open. `RetryIsAlone` says that it cannot, `LatestOnly` that only
the socket made last is not closed, `CurrentIsLast` that the field `socket` is that one
until `close()` clears it. `MadeCounted` ties the number of sockets to `attempts`, which
starts again once: it gives `AttemptsBounded`, and that `MaxConns` never stops a
retry. `ClockOwned` is inductive with the server's types. From `IInv` follows
`ConnectionCorrect`. For `UDPConnection`, `ClosedIsQuiet` needs the types only;
`UDPConnectionCorrect` states the result.

**RPCChannel.** `AnswersOwnCall` is not inductive: an answer is matched by its id
alone. `IInv` says that a call has an id below `curId` (`IdsInOrder`), that a frame on
its way to the server carries a call that no service ran for and that no other frame
carries (`FramesNew`), and that a package on its way back names the call its service
computed it for (`AnswersTrue`); `ServicesOfCalls` bounds what has run by what was
called. `ConnectedSocket` needs `ClosedLate`, for a close during `connect()`, and
`LostAreClosed` says that the requests a close rejects can get no answer any more.
`ChannelCorrect` and `CallersGetTheirAnswer` follow; `ImplementsCalls` maps every step
to `RPCCalls`: a service at most once, an outcome at most once, and the lost calls
of a closed socket settled together.

**Cluster** (in `RegistryProofs`). The first half of `IInv` ties registrations to the life of an
application: `Lifecycle` says which registries are still in the store, when a node has
a port, and that before its RPC component is up it has no connector, no outcome and
no turns; `ListedIsListening` and `StartedIsUp` rest on it. `ClientsTold` says that a client whose view is old has an
emission coming. The second half, `Turns`, is the round-robin route: the servers that
had no turn yet are those that the next indexes choose. Its step needs arithmetic:
fewer than *n* numbers in a row have different remainders, *n* have all of them, and
`Cycle` keeps them (`ModInjective`, `ModSurjective`, `CycleKeepsTurns`); and that the
sorted list of servers, which the module chooses, exists and has each once
(`RankBijective`, `SortedSound`). `RegistryCorrect` and `TurnsAreFair` follow.

**Master.** `OneProcess` alone is not inductive: an exit is noticed later than it
happens. `OneTaker` lets a server be taken until the master has noticed, `Forked`
says what `workerCount` counts, `Reported` that exits and reports are of processes
there were. `ListedOnce` and `Terminated` give `StopReachesAll`: every worker that is
taken is in the list once, restarted or not, and the processes before `next` have
been told. `ReadyMeansAll` rests on `workerInfos` being part of `1 .. workerCount`: as
many as were forked is all of them. `ForksPaid` bounds the forks by the processes
that crashed, so that the set of process names of the model is never exhausted.
`ListsSent` follows a server list from the registry over the messages under way
(`Latest`) to the RPC client. `ProcessesCorrect` and `WorkersLearn` follow.

**Wire protocol** (`RequestProofs`). What the recursive functions compute is proved for
every input. The induction theorems of the library take operators as parameters,
which the provers cannot instantiate, so `SetInduction`, `RankInduction` and
`Recursion` are stated with sets and functions: they rest on the existence of a
least rank (`LeastNat`). `Recursion` says that
a function whose calls lower a rank exists and satisfies its equation; each loop of
`protocol.ts` is shown to be one, with the bytes that are left as its rank.
`TextRoundTrip`: `strdecode` inverts `strencode`; the places where characters begin are
found again one by one. `IdLengthExact`: the bytes that `caculateMsgIdBytes` reserves by
shifts are those that `encodeMsgId` writes by division, so that nothing is cut.
`MessageRoundTrip` and `PackageRoundTrip`: `decode` inverts `encode`, for every message of
`Sendable` (a route of at most 255 bytes, an id below 2^31) and every body shorter
than 2^24 bytes; longer ones the code does not refuse.

**ClientRequests** (`RequestProofs`). `RequestsSound` and `OwnAnswer` are not inductive: an
answer is matched by the id that its bytes decode to. By the wire theorems a frame is
read as the one message that it was made of (`AskRead`, `ReplyRead`), and frames of
different messages differ, so that the rest of the argument speaks of messages.
`FramesSound` and `AnswersSound` say that all that is under way was made for an attempt
of the client, and that an answer with a value comes from a run of that call's
controller; `FramesReadable` and `OwnAnswer` follow. The bound on attempts comes from
`AttemptsDiffer`: attempts of a call differ in how many they have left, and the one
whose timer runs has the least. The bound on controller runs comes from `Counted`: the
runs of a call and its messages that are still to run it are together at most the
messages made for it. It needs `JobsSound`, a message being either on its way or with
the router. `PendingUnderWay` (a waiting call has a message under way whose id the
client still knows, unless its route names no server type) and `RunningHasJob` give
`NothingForgotten`. Each action has a lemma
that it keeps `ReqInv`; `RequestInvariance` combines them, and `RequestsAreSound`,
`AnswersAreOwn` and `FramesAreRead` follow.

The grouped properties of the runs have theorems of their own, from their parts:
`MailboxesAgree`, `QueuesCorrect`, `TablesCorrect`, `StatisticsCorrect`,
`TimersCorrect`, `LockCorrect`.

Every invariant and every action property that a run checks is stated by a theorem.
Only model-checked: the liveness properties (`DispatchesEnd`, `AcceptedTaskBegins`,
`OpsEnd`, `ChannelSettles`, `ConnectSettles`, `SilentPeersDropped`, `ConnectionSettles`,
`RequestSettles`, `StartSettles`, `MasterActs`, `ClosedSessionLeaves`), which rest on
fairness and are out of the prover's reach.

## 6. What is not modelled, and the plan

Not modelled: the MQTT transport (never selected by the code); ZooKeeper, whose
client and protocol are not in this repository; the loaders of components and
files, which run once and in order; loggers, rotation, tracer, monitor and the egg plugin, which
keep no state others depend on; scheduler and protobuf, which are stubs; the UDP
sticky server, which hands datagrams on without state; the route dictionary and
gzip, which no client turns on; the values of a session and its backend copy, which
only the application reads. `PROJECT.json` names the reason for each part.

Next: a refinement of the backend's mailbox by `Mailstation`; frames of several
packages in `PackageRoundTrip`.
