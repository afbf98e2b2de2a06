------------------------------- MODULE Master -------------------------------
(***************************************************************************)
(* The master process, the agent and the workers it forks.  A process that *)
(* has started reports to the master; when all have, the master announces  *)
(* READY and opens its sticky port.  A worker that exits is forked again   *)
(* if it had reported.  Reports and exits reach the master as events, in   *)
(* any order, and the server list sent to a worker is lost unless it has   *)
(* started.  APP_READY, which only wakes those who wait in the worker, and *)
(* which of the sticky workers is in turn are left out.                    *)
(* A forked process is given the port of the one it replaces and, as here, *)
(* has its server id unless somebody else took the port: a worker that may *)
(* look for another port would then report as another server.              *)
(***************************************************************************)
EXTENDS Naturals, Sequences, FiniteSets, SequencesExt

CONSTANTS
    Servers,      \* opts.servers, numbered: 1, 2, ...
    Sticky,       \* those that are sticky, which all use WebSockets
    MaxCrashes    \* bound on the processes that exit without being told to

ASSUME ServersAssumption ==
    /\ IsFiniteSet(Servers) /\ Servers = 1 .. Cardinality(Servers) /\ Cardinality(Servers) > 0
    /\ Sticky \subseteq Servers /\ MaxCrashes \in Nat

AGENT == 0
MaxForks == Cardinality(Servers) + MaxCrashes
Procs == 0 .. MaxForks

VARIABLES
    os,          \* of each process: "none", "starting", "up", "ending", "exited"
    of,          \* the server a worker was forked for
    crashes,
    posted, exiting,     \* PROCESS_STARTED and exit events under way
    toWorker,    \* of each worker, the server lists under way to it
    map,         \* of each worker, registerMap of its WorkerRegistry
    untold,      \* the workers whose registry is still to emit a change
    known,       \* the servers the RPC client of a worker knows
    workers, workerInfos, workerCount,
    agentStarted, allReady, stopped,
    listed,      \* the master's registry: the process that registered each server
    dirty, delayed,      \* subscribeVersion is not the version; changes to emit
    sticky,      \* the sticky server: "none", "listening", "closed"
    next,        \* the next process that onStop() terminates, 0 before
    down         \* the master ended with an uncaught error

process == <<os, of, crashes>>
events == <<posted, exiting>>
children == <<toWorker, map, untold, known>>
pool == <<workers, workerInfos, workerCount>>
registry == <<listed, dirty, delayed>>
vars == <<process, events, children, pool, agentStarted, allReady, stopped, registry, sticky, next, down>>

NoServers == [s \in Servers |-> 0]

Init ==
    /\ os = [p \in Procs |-> "none"] /\ of = [p \in Procs |-> 0] /\ crashes = 0
    /\ posted = {} /\ exiting = {}
    /\ toWorker = [p \in Procs |-> <<>>] /\ untold = {}
    /\ map = [p \in Procs |-> NoServers] /\ known = [p \in Procs |-> NoServers]
    /\ workers = <<>> /\ workerInfos = {} /\ workerCount = 0
    /\ agentStarted = FALSE /\ allReady = FALSE /\ stopped = FALSE
    /\ listed = NoServers /\ dirty = FALSE /\ delayed = 0
    /\ sticky = "none" /\ next = 0 /\ down = FALSE

-----------------------------------------------------------------------------
\* A process

\* A worker's RPC server registers with the worker's registry, whose servers
\* the RPC client then reads.
RegisterSelf(p) ==
    LET self == IF p = AGENT THEN NoServers ELSE [NoServers EXCEPT ![of[p]] = p] IN
    /\ map' = [map EXCEPT ![p] = self]
    /\ known' = [known EXCEPT ![p] = self]
    /\ UNCHANGED <<toWorker, untold>>

\* app.start() is done: it listens to the master and reports.
Started(p) ==
    /\ os[p] = "starting"
    /\ os' = [os EXCEPT ![p] = "up"]
    /\ posted' = posted \union {p}
    /\ RegisterSelf(p)
    /\ UNCHANGED <<of, crashes, exiting, pool, agentStarted, allReady, stopped, registry, sticky, next, down>>

\* app.start() fails, and the process sends itself SIGTERM.
StartFails(p) ==
    /\ os[p] = "starting" /\ crashes < MaxCrashes
    /\ crashes' = crashes + 1
    /\ os' = [os EXCEPT ![p] = "ending"]
    /\ UNCHANGED <<of, events, children, pool, agentStarted, allReady, stopped, registry, sticky, next, down>>

Exit(p) ==
    /\ os' = [os EXCEPT ![p] = "exited"]
    /\ exiting' = exiting \union ({p} \ {AGENT})   \* the agent's exit is only logged
    /\ toWorker' = [toWorker EXCEPT ![p] = <<>>]
    /\ map' = [map EXCEPT ![p] = NoServers] /\ known' = [known EXCEPT ![p] = NoServers]
    /\ untold' = untold \ {p}
    /\ UNCHANGED <<of, posted, pool, agentStarted, allReady, stopped, registry, sticky, next, down>>

Crash(p) ==
    /\ os[p] \in {"starting", "up"} /\ crashes < MaxCrashes
    /\ crashes' = crashes + 1
    /\ Exit(p)

\* SIGTERM: app.stop(), then exit().
GracefulExit(p) ==
    /\ os[p] = "ending"
    /\ Exit(p)
    /\ UNCHANGED crashes

\* Mutant: the new servers wait for the next change.
UpdateServerMapQuietly(p, servers) ==
    /\ map' = [map EXCEPT ![p] = servers]
    /\ untold' = untold

\* updateServerMap(): the emission follows after a delay.
UpdateServerMap(p, servers) ==
    /\ map' = [map EXCEPT ![p] = servers]
    /\ untold' = untold \union {p}

\* listenProcessMessage(); before it nothing listens.
Receive(p) ==
    /\ toWorker[p] # <<>>
    /\ toWorker' = [toWorker EXCEPT ![p] = Tail(@)]
    /\ \/ os[p] = "up" /\ UpdateServerMap(p, Head(toWorker[p]))
       \/ os[p] # "up" /\ UNCHANGED <<map, untold>>
    /\ UNCHANGED <<process, events, known, pool, agentStarted, allReady, stopped, registry, sticky, next, down>>

\* The listener of subscribe() reads the servers, which may have changed again.
\* "version" has no first value and is NaN after "++": it never equals
\* subscribeVersion, so that no emission is passed over.
Tell(p) ==
    /\ p \in untold /\ os[p] = "up"
    /\ untold' = untold \ {p}
    /\ known' = [known EXCEPT ![p] = map[p]]
    /\ UNCHANGED <<process, events, toWorker, map, pool, agentStarted, allReady, stopped, registry, sticky, next, down>>

-----------------------------------------------------------------------------
\* The master

\* What is under way once all the workers are sent one more message.
Broadcast ==
    [p \in Procs |-> IF p \in ToSet(workers) /\ os[p] # "exited" /\ ~stopped
                     THEN Append(toWorker[p], listed) ELSE toWorker[p]]

\* forkWorker(), for each of these servers; a restart forks one.
Fork(servers, kept) ==
    LET forked == [k \in 1 .. Len(servers) |-> workerCount + k] IN
    /\ workers' = kept \o forked
    /\ workerCount' = workerCount + Len(servers)
    /\ os' = [p \in Procs |-> IF p \in ToSet(forked) THEN "starting"
                              ELSE IF os[AGENT] = "none" /\ p = AGENT THEN "starting" ELSE os[p]]
    /\ of' = [p \in Procs |-> IF p \in ToSet(forked) THEN servers[p - workerCount] ELSE of[p]]

\* onStart(): the agent and one worker for each server.
Start ==
    /\ workerCount = 0 /\ ~stopped
    /\ Fork([k \in Servers |-> k], <<>>)
    /\ UNCHANGED <<crashes, events, children, workerInfos, agentStarted, allReady, stopped, registry, sticky, next, down>>

\* startStickyServersFromMaster(), at READY: one server, for all use WebSockets.
StartStickyServers == sticky' = IF Sticky = {} THEN sticky ELSE "listening"

\* Mutant: the workers there are, not those that were forked, are compared.
TryToReadyEarly(infos, agent) ==
    IF ~allReady /\ agent /\ infos # {}
    THEN /\ allReady' = TRUE /\ sticky' = "listening"
    ELSE UNCHANGED <<allReady, sticky>>

\* tryToReady(): the sticky server is started by the READY event.
TryToReady(infos, agent) ==
    \/ /\ ~allReady /\ agent /\ Cardinality(infos) = workerCount
       /\ allReady' = TRUE
       /\ StartStickyServers
    \/ /\ allReady \/ ~agent \/ Cardinality(infos) # workerCount
       /\ UNCHANGED <<allReady, sticky>>

OnAgentStarted ==
    /\ AGENT \in posted
    /\ posted' = posted \ {AGENT}
    /\ agentStarted' = TRUE
    /\ TryToReady(workerInfos, TRUE)
    /\ UNCHANGED <<process, exiting, children, pool, stopped, registry, next, down>>

\* Mutant: what is registered is not told.
OnWorkerStartedQuietly(p) ==
    /\ p \in posted \ {AGENT}
    /\ posted' = posted \ {p}
    /\ workerInfos' = workerInfos \union {p}
    /\ listed' = IF stopped THEN listed ELSE [listed EXCEPT ![of[p]] = p]
    /\ TryToReady(workerInfos', agentStarted)
    /\ UNCHANGED <<dirty, delayed, process, exiting, children, workers, workerCount, agentStarted, stopped, next, down>>

\* The worker is registered, unless the registry has been stopped.
OnWorkerStarted(p) ==
    /\ p \in posted \ {AGENT}
    /\ posted' = posted \ {p}
    /\ workerInfos' = workerInfos \union {p}
    /\ \/ /\ stopped
          /\ UNCHANGED registry
       \/ /\ ~stopped
          /\ listed' = [listed EXCEPT ![of[p]] = p]
          /\ dirty' = TRUE
          /\ delayed' = delayed + 1
    /\ TryToReady(workerInfos', agentStarted)
    /\ UNCHANGED <<process, exiting, children, workers, workerCount, agentStarted, stopped, next, down>>

\* The registry emits, and a change is broadcast once.
EmitChanged ==
    /\ delayed > 0
    /\ delayed' = delayed - 1
    /\ \/ /\ dirty /\ ~stopped
          /\ dirty' = FALSE
          /\ toWorker' = Broadcast
       \/ /\ ~dirty \/ stopped
          /\ UNCHANGED <<dirty, toWorker>>
    /\ UNCHANGED <<process, events, map, untold, known, pool, agentStarted, allReady, stopped, listed, sticky, next, down>>

\* The workers but this one; it is in the list once.
Without(p) == RemoveAt(workers, CHOOSE k \in DOMAIN workers : workers[k] = p)

\* Mutant: a worker is forked again only once all have been ready.
OnExitReady(p) ==
    /\ p \in exiting
    /\ exiting' = exiting \ {p}
    /\ \/ /\ ~stopped /\ allReady /\ p \in workerInfos
          /\ workerInfos' = workerInfos \ {p}
          /\ Fork(<<of[p]>>, Without(p))
       \/ /\ stopped \/ ~allReady \/ p \notin workerInfos
          /\ UNCHANGED <<os, of, pool>>
    /\ UNCHANGED <<crashes, posted, children, agentStarted, allReady, stopped, registry, sticky, next, down>>

\* restartWorker(): only a worker that had reported; its killWorker() finds no
\* workerInfo any more.
OnExit(p) ==
    /\ p \in exiting
    /\ exiting' = exiting \ {p}
    /\ \/ /\ ~stopped /\ p \in workerInfos
          /\ workerInfos' = workerInfos \ {p}
          /\ Fork(<<of[p]>>, Without(p))
       \/ /\ stopped \/ p \notin workerInfos
          /\ UNCHANGED <<os, of, pool>>
    /\ UNCHANGED <<crashes, posted, children, agentStarted, allReady, stopped, registry, sticky, next, down>>

StickyWorkers == SelectSeq(workers, LAMBDA w : w \in workerInfos /\ of[w] \in Sticky)

\* A connection is handed to a worker in turn; with none, worker.send() throws.
Connection ==
    /\ sticky = "listening"
    /\ down' = (StickyWorkers = <<>>)
    /\ UNCHANGED <<process, events, children, pool, agentStarted, allReady, stopped, registry, sticky, next>>

\* onStop()
Stop ==
    /\ workerCount > 0 /\ ~stopped
    /\ stopped' = TRUE
    /\ sticky' = IF sticky = "listening" THEN "closed" ELSE sticky
    /\ next' = 1
    /\ UNCHANGED <<process, events, children, pool, agentStarted, allReady, registry, down>>

\* Mutant: workers that have not reported are left alone.
TerminateReported ==
    LET told == Append(workers, AGENT) IN
    /\ next \in DOMAIN told
    /\ next' = next + 1
    /\ os' = [os EXCEPT ![told[next]] = IF @ = "up" THEN "ending" ELSE @]
    /\ UNCHANGED <<of, crashes, events, children, pool, agentStarted, allReady, stopped, registry, sticky, down>>

\* terminate(): SIGTERM to the next process, the agent last, once the one before
\* has exited or the timeout has passed.  The SIGKILL after it is never sent:
\* "killed" only says that SIGTERM was.
Terminate ==
    LET told == Append(workers, AGENT) IN
    /\ next \in DOMAIN told
    /\ next' = next + 1
    /\ os' = [os EXCEPT ![told[next]] = IF @ \in {"starting", "up"} THEN "ending" ELSE @]
    /\ UNCHANGED <<of, crashes, events, children, pool, agentStarted, allReady, stopped, registry, sticky, down>>

\* Bound: what the processes do once the master is down is not followed.
Next ==
    /\ ~down
    /\ \/ Start \/ OnAgentStarted \/ EmitChanged \/ Connection \/ Stop \/ Terminate
       \/ \E p \in Procs :
             \/ Started(p) \/ StartFails(p) \/ Crash(p) \/ GracefulExit(p) \/ Receive(p) \/ Tell(p)
             \/ OnWorkerStarted(p) \/ OnExit(p)

Spec == Init /\ [][Next]_vars

\* Events and messages arrive and timers fire; no process is assumed to start,
\* or to exit when it is told to.
FairSpec ==
    /\ Spec
    /\ WF_vars(~down /\ EmitChanged) /\ WF_vars(~down /\ OnAgentStarted) /\ WF_vars(~down /\ Terminate)
    /\ \A p \in Procs :
          WF_vars(~down /\ OnWorkerStarted(p)) /\ WF_vars(~down /\ OnExit(p)) /\ WF_vars(~down /\ Receive(p))

-----------------------------------------------------------------------------
Alive(p) == os[p] \in {"starting", "up", "ending"}
Finished == next = Len(workers) + 2

TypeOK ==
    /\ os \in [Procs -> {"none", "starting", "up", "ending", "exited"}]
    /\ of \in [Procs -> 0 .. Cardinality(Servers)] /\ crashes \in 0 .. MaxCrashes
    /\ posted \subseteq Procs /\ exiting \subseteq Procs
    /\ {map, known} \subseteq [Procs -> [Servers -> Procs]] /\ untold \subseteq Procs
    /\ toWorker \in [Procs -> Seq([Servers -> Procs])]
    /\ workers \in Seq(Procs) /\ workerInfos \subseteq Procs /\ workerCount \in Procs
    /\ {agentStarted, allReady, stopped, dirty, down} \subseteq BOOLEAN
    /\ listed \in [Servers -> Procs] /\ delayed \in Nat
    /\ sticky \in {"none", "listening", "closed"}
    /\ next \in 0 .. Len(workers) + 2

\* However reports, exits and restarts overtake each other, a server never has
\* two processes.  (master.ts restartWorker)
OneProcess == \A p, q \in Procs : Alive(p) /\ Alive(q) /\ of[p] = of[q] => p = q

\* READY is announced only when the agent and a process of every server have
\* reported.  (master.ts tryToReady)
ReadyMeansAll ==
    allReady => agentStarted /\ \A s \in Servers : listed[s] # 0 \/ stopped

\* When onStop() is done no process is left that was not told to end.
\* (master.ts onStop, terminate.ts)
StopReachesAll == Finished => \A p \in Procs : os[p] \in {"none", "ending", "exited"}

ProcessesSound == TypeOK /\ OneProcess /\ ReadyMeansAll /\ StopReachesAll

\* When nothing is under way, the RPC client of every worker that runs knows the
\* servers the master knows, also one that was forked again later.
\* (master.ts broadcast, workerRegistry.ts updateServerMap)
WorkersCatchUp ==
    \A p \in Procs \ {AGENT} :
        os[p] = "up" /\ p \notin posted /\ toWorker[p] = <<>> /\ delayed = 0 /\ p \notin untold /\ ~stopped
            => known[p] = listed

\* A worker that had reported when its exit is noticed is replaced, and onStop()
\* ends, whatever the processes do.  (master.ts restartWorker, onStop)
MasterActs ==
    /\ \A p \in Procs :
          p \in exiting \intersect workerInfos ~> stopped \/ down \/ \E q \in Procs : q > p /\ of[q] = of[p]
    /\ stopped ~> Finished \/ down
=============================================================================
