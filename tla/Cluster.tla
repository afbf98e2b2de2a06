------------------------------ MODULE Cluster ------------------------------
(***************************************************************************)
(* The applications of one process: each starts an RPC server, a client,   *)
(* and a LocalRegistry that both share; those of frontend servers then     *)
(* open a connector.  All registries have the same root path, so what one  *)
(* changes is told to the clients of the others, later and through a       *)
(* version that keeps them from reacting twice.  The servers start at the  *)
(* same time and look for free ports.                                      *)
(*                                                                         *)
(* What runs without waiting for a timer or a socket is one step (timers   *)
(* run one at a time, each with the promises it settles): from the port    *)
(* that was found to the registered server, its client and its connector.  *)
(* stop() does nothing to a component that has not come up, so it is no    *)
(* step before that, and the components come up all the same.  Neither is  *)
(* a second start(), which is fulfilled at once, whatever the first does.  *)
(***************************************************************************)
EXTENDS Naturals, FiniteSets, FiniteSetsExt

CONSTANTS
    Nodes,
    Frontends,   \* the nodes with a connector
    Pickers,     \* the nodes that call rpcInvokeByRoute(), with the route "rr"
    LastPort,    \* detectPort() tries the ports from the configured one, 1, to this
    Retries,     \* retryTimes of Server.start()
    Cycle        \* bound: an index is kept modulo Cycle

ASSUME NodesAssumption == IsFiniteSet(Nodes) /\ Pickers \union Frontends \subseteq Nodes
ASSUME PortsAssumption == LastPort \in Nat \ {0} /\ Retries \in Nat
\* An index is used by its remainders only, modulo the number of servers.
ASSUME CycleAssumption == Cycle \in Nat \ {0} /\ \A k \in 1 .. LastPort : Cycle % k = 0

Ports == 1 .. LastPort

VARIABLES
    autoport,    \* the option, of each node
    phase,       \* "idle", "detect", "found", "retry", "up", "failed", "stopped"
    port,        \* the port found, or listened on
    left,        \* the retries left
    start,       \* Application.start(): "none", "pending", "ok", "error"
    connector,   \* "none", "listening", "failed", "closed"
    store,       \* localRegistryStore: the nodes whose registry is in it
    registered,  \* the nodes whose registerMap holds their server
    localVersion, delayed,    \* localRegistryVersion; changes not yet emitted
    seen, view,  \* of each client: subscribeVersion, and the servers it knows
    index, picked    \* _rrParam; history: the servers that had their turn

application == <<start, connector>>
starting == <<autoport, phase, port, left, application>>
registry == <<store, registered, localVersion, delayed>>
clients == <<seen, view>>
routing == <<index, picked>>
vars == <<starting, registry, clients, routing>>

Init ==
    /\ autoport \in [Nodes -> BOOLEAN]
    /\ phase = [n \in Nodes |-> "idle"] /\ port = [n \in Nodes |-> 0]
    /\ left = [n \in Nodes |-> Retries]
    /\ start = [n \in Nodes |-> "none"] /\ connector = [n \in Nodes |-> "none"]
    /\ store = Nodes /\ registered = {} /\ localVersion = 0 /\ delayed = 0
    /\ seen = [n \in Nodes |-> 0] /\ view = [n \in Nodes |-> {}]
    /\ index = [n \in Nodes |-> 0] /\ picked = [n \in Nodes |-> {}]

Up == {n \in Nodes : phase[n] = "up"}
Free == Ports \ {port[n] : n \in Up}

\* getAllServers(): a server is identified by its port.
AllServers(nodes) == {port[n] : n \in nodes}

-----------------------------------------------------------------------------
\* LocalRegistry

\* Mutant: the version is set, not counted.
ChangedTo(v) ==
    /\ localVersion' = 1
    /\ delayed' = delayed + 1

\* emitChanged()
Changed(v) ==
    /\ localVersion' = v + 1
    /\ delayed' = delayed + 1

\* register(): the last to register an id owns it.
RegisterLocally(n) ==
    /\ registered' = {m \in registered : port[m] # port[n]} \union {n}
    /\ Changed(localVersion)
    /\ UNCHANGED store

\* stop(): the last one to leave takes the version with it.
Leave(n) ==
    /\ store' = store \ {n}
    /\ registered' = registered \ {n}
    /\ Changed(IF store' = {} THEN 0 ELSE localVersion)

\* subscribe()'s listener, called for every registry that emits; all read the
\* same servers and only the first finds another version than its own.
Emit ==
    LET told == {n \in Up : seen[n] # localVersion} IN
    /\ delayed > 0
    /\ delayed' = delayed - 1
    /\ seen' = [n \in Nodes |-> IF n \in told THEN localVersion ELSE seen[n]]
    /\ view' = [n \in Nodes |-> IF n \in told THEN AllServers(registered) ELSE view[n]]
    /\ picked' = [n \in Nodes |-> IF n \in told THEN {} ELSE picked[n]]
    /\ UNCHANGED <<starting, store, registered, localVersion, index>>

-----------------------------------------------------------------------------
\* An application, its RPC server and its connector

\* runComponentLifeCycle(): the promise of start() is that of the last component
\* to come up, or of the first that fails.
Settle(n, outcome) == start' = [start EXCEPT ![n] = outcome]

Start(n) ==
    /\ phase[n] = "idle"
    /\ phase' = [phase EXCEPT ![n] = "detect"]
    /\ Settle(n, "pending")
    /\ UNCHANGED <<autoport, port, left, connector, registry, clients, routing>>

\* Mutant: the retries are counted without an end.
FailedAgain(n) ==
    /\ phase' = [phase EXCEPT ![n] = "retry"]
    /\ left' = [left EXCEPT ![n] = IF @ > 0 THEN @ - 1 ELSE 0]
    /\ UNCHANGED <<autoport, port, application, registry, clients, routing>>

\* The catch block of start()
Failed(n) ==
    /\ \/ /\ autoport[n] /\ left[n] > 0
          /\ phase' = [phase EXCEPT ![n] = "retry"]
          /\ left' = [left EXCEPT ![n] = @ - 1]
          /\ UNCHANGED start
       \/ /\ ~(autoport[n] /\ left[n] > 0)
          /\ phase' = [phase EXCEPT ![n] = "failed"]
          /\ Settle(n, "error")
          /\ UNCHANGED left
    /\ UNCHANGED <<autoport, port, connector, registry, clients, routing>>

\* normalizeServerInfo(): the first free port, which others may find as well.
\* (detect-port, an external library, takes some other free port of the machine
\* once its range is used up; here the ports are all there are, and it fails.)
Detected(n) ==
    /\ phase[n] = "detect"
    /\ \/ /\ Free # {} /\ (autoport[n] \/ 1 \in Free)
          /\ port' = [port EXCEPT ![n] = Min(Free)]
          /\ phase' = [phase EXCEPT ![n] = "found"]
          /\ UNCHANGED <<autoport, left, application, registry, clients, routing>>
       \/ /\ Free = {} \/ ~(autoport[n] \/ 1 \in Free)
          /\ Failed(n)

\* Client.start(): subscribe, then read the servers.
StartClient(n) ==
    /\ seen' = [seen EXCEPT ![n] = localVersion']
    /\ view' = [view EXCEPT ![n] = AllServers(registered')]

\* The WebSocket connector, which waits for the RPC component: its own port may
\* be taken.  (The UDP connector hears of no such error, which ends its process.)
StartConnector(n) ==
    \/ /\ n \notin Frontends
       /\ Settle(n, "ok")
       /\ UNCHANGED connector
    \/ /\ n \in Frontends
       /\ connector' = [connector EXCEPT ![n] = "listening"]
       /\ Settle(n, "ok")
    \/ /\ n \in Frontends
       /\ connector' = [connector EXCEPT ![n] = "failed"]
       /\ Settle(n, "error")

\* onStart() of the RPC component, once its server is registered.
ComeUp(n) == StartClient(n) /\ StartConnector(n)

\* The acceptor listens, or its port was taken in the meantime.
Listen(n) ==
    /\ phase[n] = "found"
    /\ \/ /\ port[n] \in Free
          /\ phase' = [phase EXCEPT ![n] = "up"]
          /\ RegisterLocally(n)
          /\ ComeUp(n)
          /\ UNCHANGED <<autoport, port, left, routing>>
       \/ /\ port[n] \notin Free
          /\ Failed(n)

Retry(n) ==
    /\ phase[n] = "retry"
    /\ phase' = [phase EXCEPT ![n] = "detect"]
    /\ UNCHANGED <<autoport, port, left, application, registry, clients, routing>>

\* Server.stop()
StopServer(n) ==
    /\ phase' = [phase EXCEPT ![n] = "stopped"]
    /\ Leave(n)

\* Mutant: only what has listened to the end is closed.
CloseConnectorOfStarted(n) ==
    connector' = [connector EXCEPT ![n] = IF @ = "listening" /\ left[n] = Retries THEN "closed" ELSE @]

CloseConnector(n) ==
    connector' = [connector EXCEPT ![n] = IF @ = "listening" THEN "closed" ELSE @]

Stop(n) ==
    /\ phase[n] = "up"
    /\ StopServer(n)
    /\ CloseConnector(n)
    /\ UNCHANGED <<autoport, port, left, start, clients, routing>>

-----------------------------------------------------------------------------
\* Routing

\* getServersByType(), as syncServers() sorts them
ServersByType(n) ==
    CHOOSE s \in [1 .. Cardinality(view[n]) -> view[n]] : \A i, j \in DOMAIN s : i < j => s[i] < s[j]

\* rrRoute()
Picked(n) == ServersByType(n)[(index[n] % Cardinality(view[n])) + 1]

\* Mutant: the index of the chosen server is kept, not the next one.
PickLast(n) ==
    /\ n \in Up /\ view[n] # {}
    /\ index' = [index EXCEPT ![n] = (Picked(n) - 1) % Cycle]
    /\ picked' = [picked EXCEPT ![n] = IF @ \union {Picked(n)} = view[n] THEN {} ELSE @ \union {Picked(n)}]
    /\ UNCHANGED <<starting, registry, clients>>

\* rpcInvokeByRoute(); history: a new turn begins when all servers had theirs.
Pick(n) ==
    /\ n \in Up /\ view[n] # {}
    /\ index' = [index EXCEPT ![n] = (@ + 1) % Cycle]
    /\ picked' = [picked EXCEPT ![n] = IF @ \union {Picked(n)} = view[n] THEN {} ELSE @ \union {Picked(n)}]
    /\ UNCHANGED <<starting, registry, clients>>

Next ==
    \/ Emit
    \/ \E n \in Nodes : Start(n) \/ Detected(n) \/ Listen(n) \/ Retry(n) \/ Stop(n)
    \/ \E n \in Pickers : Pick(n)

Spec == Init /\ [][Next]_vars

\* Timers fire, and the ports are looked for until they are found.
FairSpec ==
    /\ Spec
    /\ WF_vars(Emit)
    /\ \A n \in Nodes : WF_vars(Detected(n)) /\ WF_vars(Listen(n)) /\ WF_vars(Retry(n))

-----------------------------------------------------------------------------
TypeOK ==
    /\ autoport \in [Nodes -> BOOLEAN]
    /\ phase \in [Nodes -> {"idle", "detect", "found", "retry", "up", "failed", "stopped"}]
    /\ start \in [Nodes -> {"none", "pending", "ok", "error"}]
    /\ connector \in [Nodes -> {"none", "listening", "failed", "closed"}]
    /\ port \in [Nodes -> 0 .. LastPort] /\ left \in [Nodes -> 0 .. Retries]
    /\ store \subseteq Nodes /\ registered \subseteq store
    /\ localVersion \in Nat /\ delayed \in Nat
    /\ seen \in [Nodes -> Nat] /\ view \in [Nodes -> SUBSET Ports]
    /\ index \in [Nodes -> 0 .. Cycle - 1] /\ picked \in [Nodes -> SUBSET Ports]

\* Servers that start at once end up on ports of their own, and what is listed
\* is a server that listens.  (server.ts start, localRegistry.ts register, stop)
ListedIsListening ==
    /\ registered = Up
    /\ \A m, n \in Up : port[m] = port[n] => m = n

\* When no change is waiting to be told, every client knows exactly the
\* servers there are, although changes are told late and once for each version.
\* (localRegistry.ts emitChanged, subscribe)
ClientsCatchUp == delayed = 0 => \A n \in Up : view[n] = AllServers(registered)

\* As long as the servers stay the same, none is chosen again before all others
\* had their turn.  (router.ts rrRoute)
FairTurns == \A n \in Up : view[n] # {} => Picked(n) \notin picked[n]

\* start() is fulfilled only when the server is listed and its connector listens,
\* and clients are let in only while that server can call others.
\* (application.ts start, stop; connector.ts onStart)
StartedIsUp ==
    \A n \in Nodes :
        /\ start[n] = "ok" => phase[n] \in {"up", "stopped"} /\ (n \in Frontends => connector[n] # "failed")
        /\ connector[n] = "listening" => n \in Up /\ start[n] = "ok"

\* The registry, its clients and the applications agree on who is there.
\* (localRegistry.ts, server.ts, application.ts)
RegistrySound == TypeOK /\ ListedIsListening /\ ClientsCatchUp /\ StartedIsUp

\* start() is fulfilled or rejected, however often a port is taken.
\* (application.ts start, server.ts start)
StartSettles == \A n \in Nodes : start[n] = "pending" ~> start[n] # "pending"
=============================================================================
