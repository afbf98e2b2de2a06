----------------------------- MODULE Mailstation -----------------------------
(***************************************************************************)
(* The RPC client's mailstation: packages/rpc/src/client/mailstation.ts    *)
(* over mailboxes that are WebSocket connections                           *)
(* (client/mailboxes/wsMailbox.ts).                                        *)
(*                                                                         *)
(* Every dispatch(serverId, msg) is one element of Calls.  It sends at     *)
(* once when a mailbox is ready, waits in the retry loop of lazyConnect    *)
(* while the server id is unknown, creates and connects a mailbox, or is   *)
(* parked in pendings while another call connects.  A dispatch creates at  *)
(* most one mailbox, so the mailbox a call creates is named by the call.   *)
(*                                                                         *)
(* One action is one macrotask of the Node process (a call of the API, a   *)
(* timer, a socket event) together with the promise continuations it       *)
(* releases, which Node runs before the next macrotask.                    *)
(***************************************************************************)
EXTENDS Naturals, FiniteSets

CONSTANTS
    Calls,        \* the dispatch() invocations of a behaviour
    Ids,          \* remote server ids
    Infos,        \* server infos (address, registration time) an id may have
    None,         \* undefined
    PendingSize,  \* DEFAULT_PENDING_SIZE
    Retries,      \* CONNECT_RETRIES
    MaxSyncs,     \* bound: server maps received from the registry
    Faults        \* what may go wrong: a subset of FaultKinds

FaultKinds == {"refuse", "slow", "loss", "change", "stop"}

ASSUME PendingSizeAssumption == PendingSize \in Nat
ASSUME RetriesAssumption == Retries \in Nat \ {0}
ASSUME MaxSyncsAssumption == MaxSyncs \in Nat
ASSUME NoneAssumption == None \notin Calls \cup Infos
ASSUME FaultsAssumption == Faults \subseteq FaultKinds

VARIABLES
    state,       \* MailstationState
    fetching,    \* start() awaits getAllServers()
    closeAll,    \* the closeAll closure of stop(): "off", "armed" or "done"
    servers,     \* this.servers: id -> info, None when the key is absent
    syncs,       \* number of server maps received so far (bounded)
    mailboxes,   \* this.mailboxes: id -> mailbox, None when absent
    connecting,  \* this.connecting
    pendings,    \* this.pendings: id -> the parked calls
    phase,       \* of every mailbox object ever created: its connection
    attempt,     \* the promise its connect() returned
    info,        \* the server info it was created with
    pc,          \* where each dispatch() stands
    target,      \* the server id it is given, chosen at the start
    tries,       \* how often its retry loop has looked the id up
    via          \* the mailbox that took its request

stationVars == <<state, fetching, closeAll>>
registryVars == <<servers, syncs>>
boxVars == <<phase, attempt, info>>
callVars == <<pc, target, tries, via>>
vars == <<stationVars, registryVars, mailboxes, connecting, pendings, boxVars, callVars>>

\* phase abstracts a WSMailbox's (connected, closed, socket.readyState):
\* "opening" = neither flag, "open" = connected, "closing" and "closed" =
\* closed with onclose still to come or already run.
Phases == {"none", "opening", "open", "closing", "closed"}

\* Once connect() is "ok" the station listens to the mailbox's CLOSE event.
Attempts == {"none", "pending", "ok", "failed"}

\* "connect": awaits its own mailbox's connect(); "parked": in pendings;
\* "sent": request written, promise not settled; "dropped": turned away by
\* addToPending, which leaves the promise for ever unsettled.
Pcs == {"idle", "retry", "connect", "parked", "sent", "settled", "dropped"}

TypeOK ==
    /\ state \in {"INITED", "STARTED", "CLOSED"}
    /\ fetching \in BOOLEAN
    /\ closeAll \in {"off", "armed", "done"}
    /\ servers \in [Ids -> Infos \cup {None}]
    /\ syncs \in 0..MaxSyncs
    /\ mailboxes \in [Ids -> Calls \cup {None}]
    /\ connecting \in [Ids -> BOOLEAN]
    /\ pendings \in [Ids -> SUBSET Calls]
    /\ phase \in [Calls -> Phases]
    /\ attempt \in [Calls -> Attempts]
    /\ info \in [Calls -> Infos \cup {None}]
    /\ pc \in [Calls -> Pcs]
    /\ target \in [Calls -> Ids]
    /\ tries \in [Calls -> 0..Retries]
    /\ via \in [Calls -> Calls \cup {None}]

Init ==
    /\ state = "INITED"
    /\ fetching = FALSE
    /\ closeAll = "off"
    /\ servers = [i \in Ids |-> None]
    /\ syncs = 0
    /\ mailboxes = [i \in Ids |-> None]
    /\ connecting = [i \in Ids |-> FALSE]
    /\ pendings = [i \in Ids |-> {}]
    /\ phase = [m \in Calls |-> "none"]
    /\ attempt = [m \in Calls |-> "none"]
    /\ info = [m \in Calls |-> None]
    /\ pc = [c \in Calls |-> "idle"]
    /\ target \in [Calls -> Ids]
    /\ tries = [c \in Calls |-> 0]
    /\ via = [c \in Calls |-> None]

-----------------------------------------------------------------------------
(* Mailboxes: close() and the CLOSE handler the station registers.         *)

Live(m) == phase[m] \in {"opening", "open"}
Listening(m) == attempt[m] = "ok"
\* Mutant: close() ignores a mailbox that is not connected yet.
ShutOnlyOpen(S) ==
    [m \in Calls |-> IF m \in S /\ phase[m] = "open" THEN "closing" ELSE phase[m]]

\* close() on every mailbox of S; a closed one returns early.
Shut(S) ==
    [m \in Calls |-> IF m \in S /\ Live(m) THEN "closing" ELSE phase[m]]

\* The mailboxes m.close() closes: m itself and, when the station listens to m,
\* the mailbox the CLOSE handler finds under m's server id, whichever that is.
ClosedWith(m) ==
    {m} \cup (IF Listening(m) THEN {mailboxes[target[m]]} \ {None} ELSE {})
\* Mutant: the CLOSE handler leaves the entry in the map.
ForgottenByNobody(m) == mailboxes

\* The handler then deletes the entry of that id.
ForgottenBy(m) ==
    IF Listening(m) THEN [mailboxes EXCEPT ![target[m]] = None] ELSE mailboxes

Settle(S) == [c \in Calls |-> IF c \in S THEN "settled" ELSE pc[c]]
\* Mutant: onclose forgets the requests.
SentViaNone(m) == {}

SentVia(m) == {c \in Calls : pc[c] = "sent" /\ via[c] = m}

-----------------------------------------------------------------------------
(* The station's life cycle and its view of the registry.                  *)

Start ==
    /\ state = "INITED"
    /\ state' = "STARTED"
    /\ fetching' = TRUE
    /\ UNCHANGED <<closeAll, registryVars, mailboxes, connecting, pendings, boxVars, callVars>>

\* Mutant: only a removed id is outdated, isServerInfoChanged is not asked.
OutdatedIfRemoved(new) == {i \in Ids : servers[i] # None /\ new[i] = None}

\* removeOldMailboxes: ids whose info is gone or changed lose their mailbox.
Outdated(new) == {i \in Ids : servers[i] # None /\ new[i] # servers[i]}

SyncServers(new) ==
    /\ syncs < MaxSyncs
    /\ "change" \in Faults \/ Outdated(new) = {}
    /\ syncs' = syncs + 1
    /\ servers' = new
    /\ phase' = Shut({mailboxes[i] : i \in Outdated(new)} \ {None})
    /\ mailboxes' = [i \in Ids |-> IF i \in Outdated(new) THEN None ELSE mailboxes[i]]
    /\ UNCHANGED <<state, closeAll, connecting, pendings, attempt, info, callVars>>

\* The registry emits a map; stop() ends the subscription.
ServersChanged(new) ==
    /\ state = "STARTED"
    /\ SyncServers(new)
    /\ UNCHANGED fetching

\* start() goes on when it has the map, also after a stop().
ServersFetched(new) ==
    /\ fetching
    /\ fetching' = FALSE
    /\ SyncServers(new)

\* closeAll() closes what the mailbox map holds.  A mailbox the station listens
\* to is deleted by the CLOSE handler, one that still connects stays.
CloseAllMailboxes ==
    /\ phase' = Shut({mailboxes[i] : i \in Ids} \ {None})
    /\ mailboxes' =
        [i \in Ids |->
            IF mailboxes[i] # None /\ Live(mailboxes[i]) /\ Listening(mailboxes[i])
            THEN None ELSE mailboxes[i]]
    /\ UNCHANGED <<registryVars, connecting, pendings, attempt, info, callVars>>

StopNow ==
    /\ "stop" \in Faults
    /\ state = "STARTED"
    /\ state' = "CLOSED"
    /\ closeAll' = "done"
    /\ UNCHANGED fetching
    /\ CloseAllMailboxes

StopGracefully ==
    /\ "stop" \in Faults
    /\ state = "STARTED"
    /\ state' = "CLOSED"
    /\ closeAll' = "armed"
    /\ UNCHANGED <<fetching, registryVars, mailboxes, connecting, pendings, boxVars, callVars>>

GraceTimeout ==
    /\ closeAll = "armed"
    /\ closeAll' = "done"
    /\ UNCHANGED <<state, fetching>>
    /\ CloseAllMailboxes

-----------------------------------------------------------------------------
(* dispatch and lazyConnect.                                               *)

\* Mutant: no bound on the queue.
AddToPendingUnbounded(c) ==
    /\ pc' = [pc EXCEPT ![c] = "parked"]
    /\ pendings' = [pendings EXCEPT ![target[c]] = @ \cup {c}]

\* addToPending: one more than PendingSize fit, the others are dropped.
AddToPending(c) ==
    \/ /\ Cardinality(pendings[target[c]]) > PendingSize
       /\ pc' = [pc EXCEPT ![c] = "dropped"]
       /\ UNCHANGED pendings
    \/ /\ Cardinality(pendings[target[c]]) <= PendingSize
       /\ pc' = [pc EXCEPT ![c] = "parked"]
       /\ pendings' = [pendings EXCEPT ![target[c]] = @ \cup {c}]

\* lazyConnect creates a mailbox, marks the id and starts connect().
CreateMailbox(c) ==
    /\ connecting' = [connecting EXCEPT ![target[c]] = TRUE]
    /\ mailboxes' = [mailboxes EXCEPT ![target[c]] = c]
    /\ phase' = [phase EXCEPT ![c] = "opening"]
    /\ attempt' = [attempt EXCEPT ![c] = "pending"]
    /\ info' = [info EXCEPT ![c] = servers[target[c]]]
    /\ pc' = [pc EXCEPT ![c] = "connect"]
    /\ UNCHANGED pendings

\* Mutant: no "check again" after the delay.
LazyConnectUnchecked(c) == CreateMailbox(c)

\* lazyConnect once the server info is known: "check again", then create.
LazyConnect(c) ==
    \/ connecting[target[c]] /\ AddToPending(c) /\ UNCHANGED <<connecting, mailboxes, boxVars>>
    \/ ~connecting[target[c]] /\ CreateMailbox(c)

\* dispatch() up to its first await that does not resolve at once.
DispatchRejected(c) ==
    /\ pc[c] = "idle" /\ state # "STARTED"
    /\ pc' = Settle({c})
    /\ UNCHANGED <<stationVars, registryVars, mailboxes, connecting, pendings, boxVars, target, tries, via>>

DispatchParked(c) ==
    /\ pc[c] = "idle" /\ state = "STARTED"
    /\ connecting[target[c]]
    /\ AddToPending(c)
    /\ UNCHANGED <<stationVars, registryVars, mailboxes, connecting, boxVars, target, tries, via>>

DispatchSent(c) ==
    /\ pc[c] = "idle" /\ state = "STARTED"
    /\ ~connecting[target[c]] /\ mailboxes[target[c]] # None
    /\ pc' = [pc EXCEPT ![c] = "sent"]
    /\ via' = [via EXCEPT ![c] = mailboxes[target[c]]]
    /\ UNCHANGED <<stationVars, registryVars, mailboxes, connecting, pendings, boxVars, target, tries>>

DispatchConnecting(c) ==
    /\ pc[c] = "idle" /\ state = "STARTED"
    /\ ~connecting[target[c]] /\ mailboxes[target[c]] = None
    /\ servers[target[c]] # None
    /\ CreateMailbox(c)
    /\ UNCHANGED <<stationVars, registryVars, target, tries, via>>

DispatchUnknown(c) ==
    /\ pc[c] = "idle" /\ state = "STARTED"
    /\ ~connecting[target[c]] /\ mailboxes[target[c]] = None
    /\ servers[target[c]] = None
    /\ pc' = [pc EXCEPT ![c] = "retry"]
    /\ tries' = [tries EXCEPT ![c] = 1]
    /\ UNCHANGED <<stationVars, registryVars, mailboxes, connecting, pendings, boxVars, target, via>>

\* The delay of retry() ends: give up, look the server up again, or go on.
\* Nothing here looks at state or at mailboxes again.
RetryGivesUp(c) ==
    /\ pc[c] = "retry" /\ tries[c] = Retries
    /\ pc' = Settle({c})
    /\ UNCHANGED <<stationVars, registryVars, mailboxes, connecting, pendings, boxVars, target, tries, via>>

\* Mutant: the number of tries is not bounded.
RetryMissesForever(c) ==
    /\ pc[c] = "retry" /\ servers[target[c]] = None
    /\ tries' = [tries EXCEPT ![c] = @ + 1]
    /\ UNCHANGED <<stationVars, registryVars, mailboxes, connecting, pendings, boxVars, pc, target, via>>

RetryMisses(c) ==
    /\ pc[c] = "retry" /\ tries[c] < Retries
    /\ servers[target[c]] = None
    /\ tries' = [tries EXCEPT ![c] = @ + 1]
    /\ UNCHANGED <<stationVars, registryVars, mailboxes, connecting, pendings, boxVars, pc, target, via>>

RetryFinds(c) ==
    /\ pc[c] = "retry" /\ tries[c] < Retries
    /\ servers[target[c]] # None
    /\ LazyConnect(c)
    /\ UNCHANGED <<stationVars, registryVars, target, tries, via>>

-----------------------------------------------------------------------------
(* connect() and the events of a mailbox's socket and timers.              *)

\* Mutant: parked calls are sent without the state check of dispatch().
RejectedByFlushNone(i) == {}

\* Parked calls that flushPending re-dispatches to a stopped station.
RejectedByFlush(i) == IF state = "STARTED" THEN {} ELSE pendings[i]

\* Mutant: the pending queue is deleted before it is re-dispatched.
SentByFlushNone(i) == {}

\* The others go out over the mailbox of i (FlushHasMailbox: there is one).
SentByFlush(i) == pendings[i] \ RejectedByFlush(i)

\* Mutant: flushPending keeps the queue it has re-dispatched.
ConnectedKeepsQueue(m) ==
    /\ phase[m] = "opening" /\ attempt[m] = "pending"
    /\ phase' = [phase EXCEPT ![m] = "open"]
    /\ attempt' = [attempt EXCEPT ![m] = "ok"]
    /\ connecting' = [connecting EXCEPT ![target[m]] = FALSE]
    /\ LET sending == SentByFlush(target[m]) \cup {m}
       IN  /\ pc' = [c \in Calls |-> IF c \in sending THEN "sent"
                                     ELSE IF c \in RejectedByFlush(target[m]) THEN "settled" ELSE pc[c]]
           /\ via' = [c \in Calls |-> IF c \in sending THEN mailboxes[target[m]] ELSE via[c]]
    /\ UNCHANGED <<stationVars, registryVars, mailboxes, pendings, info, target, tries>>

\* socket.onopen while connect() is awaited: the mark is cleared, the queue
\* re-dispatched, and the call that connected goes on, whatever state is.
Connected(m) ==
    /\ phase[m] = "opening" /\ attempt[m] = "pending"
    /\ phase' = [phase EXCEPT ![m] = "open"]
    /\ attempt' = [attempt EXCEPT ![m] = "ok"]
    /\ connecting' = [connecting EXCEPT ![target[m]] = FALSE]
    /\ pendings' = [pendings EXCEPT ![target[m]] = {}]
    /\ LET sending == SentByFlush(target[m]) \cup {m}
       IN  /\ pc' = [c \in Calls |-> IF c \in sending THEN "sent"
                                     ELSE IF c \in RejectedByFlush(target[m]) THEN "settled" ELSE pc[c]]
           /\ via' = [c \in Calls |-> IF c \in sending THEN mailboxes[target[m]] ELSE via[c]]
    /\ UNCHANGED <<stationVars, registryVars, mailboxes, info, target, tries>>

\* socket.onopen after the connect timeout: nobody waits for it any more.
LateOpen(m) ==
    /\ phase[m] = "opening" /\ attempt[m] = "failed"
    /\ phase' = [phase EXCEPT ![m] = "open"]
    /\ UNCHANGED <<stationVars, registryVars, mailboxes, connecting, pendings, attempt, info, callVars>>

\* socket.onerror before the connection opened: close(), connect() not rejected.
ConnectRefused(m) ==
    /\ "refuse" \in Faults
    /\ phase[m] = "opening"
    /\ phase' = Shut({m})
    /\ UNCHANGED <<stationVars, registryVars, mailboxes, connecting, pendings, attempt, info, callVars>>

\* Mutant: close() clears the connect timer.
ConnectTimeoutCleared(m) ==
    /\ attempt[m] = "pending" /\ phase[m] = "opening" /\ "slow" \in Faults
    /\ attempt' = [attempt EXCEPT ![m] = "failed"]
    /\ mailboxes' = [mailboxes EXCEPT ![target[m]] = None]
    /\ AddToPending(m)
    /\ UNCHANGED <<stationVars, registryVars, connecting, phase, info, target, tries, via>>

\* The connect timer rejects connect(); the socket is not closed.  The station
\* deletes the mailbox but not connecting[id], so the creator parks itself.
ConnectTimeout(m) ==
    /\ attempt[m] = "pending"
    /\ phase[m] = "opening" => "slow" \in Faults
    /\ attempt' = [attempt EXCEPT ![m] = "failed"]
    /\ mailboxes' = [mailboxes EXCEPT ![target[m]] = None]
    /\ AddToPending(m)
    /\ UNCHANGED <<stationVars, registryVars, connecting, phase, info, target, tries, via>>

\* close() of an open mailbox: keepalive timeout or socket error.
LocalClose(m) ==
    /\ "loss" \in Faults
    /\ phase[m] = "open"
    /\ phase' = Shut(ClosedWith(m))
    /\ mailboxes' = ForgottenBy(m)
    /\ UNCHANGED <<stationVars, registryVars, connecting, pendings, attempt, info, callVars>>

\* socket.onclose after close(): every outstanding request is rejected.
SocketClosed(m) ==
    /\ phase[m] = "closing"
    /\ phase' = [phase EXCEPT ![m] = "closed"]
    /\ pc' = Settle(SentVia(m))
    /\ UNCHANGED <<stationVars, registryVars, mailboxes, connecting, pendings, attempt, info, target, tries, via>>

\* socket.onclose of an open connection: requests rejected, then close().
ConnectionLost(m) ==
    /\ "loss" \in Faults
    /\ phase[m] = "open"
    /\ phase' = [Shut(ClosedWith(m)) EXCEPT ![m] = "closed"]
    /\ mailboxes' = ForgottenBy(m)
    /\ pc' = Settle(SentVia(m))
    /\ UNCHANGED <<stationVars, registryVars, connecting, pendings, attempt, info, target, tries, via>>

\* processMsg: the answer of a call, on a socket that can still deliver it.
Reply(c) ==
    /\ pc[c] = "sent"
    /\ phase[via[c]] \in {"open", "closing"}
    /\ pc' = Settle({c})
    /\ UNCHANGED <<stationVars, registryVars, mailboxes, connecting, pendings, boxVars, target, tries, via>>

\* processMsg: a SERVER_CLOSED error closes the mailbox before it rejects.
ReplyServerClosed(c) ==
    /\ "loss" \in Faults
    /\ pc[c] = "sent"
    /\ phase[via[c]] = "open"
    /\ phase' = Shut(ClosedWith(via[c]))
    /\ mailboxes' = ForgottenBy(via[c])
    /\ pc' = Settle({c})
    /\ UNCHANGED <<stationVars, registryVars, connecting, pendings, attempt, info, target, tries, via>>

InvokeTimeout(c) ==
    /\ pc[c] = "sent"
    /\ pc' = Settle({c})
    /\ UNCHANGED <<stationVars, registryVars, mailboxes, connecting, pendings, boxVars, target, tries, via>>

-----------------------------------------------------------------------------
Station ==
    \/ Start \/ StopNow \/ StopGracefully \/ GraceTimeout
    \/ \E new \in [Ids -> Infos \cup {None}] : ServersChanged(new) \/ ServersFetched(new)

Dispatch(c) ==
    \/ DispatchRejected(c) \/ DispatchParked(c) \/ DispatchSent(c)
    \/ DispatchConnecting(c) \/ DispatchUnknown(c)

RetryWake(c) == RetryGivesUp(c) \/ RetryMisses(c) \/ RetryFinds(c)

Answer(c) == Reply(c) \/ ReplyServerClosed(c) \/ InvokeTimeout(c)

MailboxEvent(m) ==
    \/ Connected(m) \/ LateOpen(m) \/ ConnectRefused(m) \/ ConnectTimeout(m)
    \/ LocalClose(m) \/ SocketClosed(m) \/ ConnectionLost(m)

Next ==
    \/ Station
    \/ \E c \in Calls : Dispatch(c) \/ RetryWake(c) \/ Answer(c) \/ MailboxEvent(c)

Spec == Init /\ [][Next]_vars

\* Timers fire, and a socket that is opening or closing gets its event.
\* Servers, callers and the registry owe nothing.
Fairness ==
    /\ WF_vars(GraceTimeout)
    /\ \A c \in Calls : WF_vars(RetryWake(c)) /\ WF_vars(InvokeTimeout(c))
    /\ \A m \in Calls : /\ WF_vars(Connected(m)) /\ WF_vars(ConnectTimeout(m))
                        /\ WF_vars(SocketClosed(m))

FairSpec == Spec /\ Fairness

-----------------------------------------------------------------------------
(* Safety.                                                                 *)

\* A mailbox dispatch() would use at once is connected and not closed, so
\* mailbox.send never rejects with "not init" or "already closed".
UsableMailbox ==
    \A i \in Ids : mailboxes[i] # None /\ ~connecting[i] => phase[mailboxes[i]] = "open"

\* A mailbox in the map talks to the server the registry last named: a changed
\* or removed server never keeps its old connection there.
FreshMailbox ==
    \A i \in Ids : mailboxes[i] # None => info[mailboxes[i]] = servers[i]

\* connecting[id] works as a lock: at most one connect() per server id is in
\* progress, although lazyConnect suspends between its test and its set.
OneAttempt ==
    \A m \in Calls : attempt[m] = "pending" =>
        /\ connecting[target[m]]
        /\ \A n \in Calls : attempt[n] = "pending" /\ target[n] = target[m] => n = m

\* A connection that can still open is the one in the map, so flushPending
\* never meets an "empty mailbox" and a flushed call never connects again.
FlushHasMailbox ==
    \A m \in Calls : attempt[m] = "pending" /\ phase[m] = "opening" =>
        mailboxes[target[m]] = m

\* A parked call is in the queue of its own server id and that id is marked as
\* connecting: no queue is left behind once its mailbox is ready.
ParkedWhileConnecting ==
    /\ \A c \in Calls : pc[c] = "parked" => c \in pendings[target[c]]
    /\ \A i \in Ids : \A c \in pendings[i] :
           pc[c] = "parked" /\ target[c] = i /\ connecting[i]

\* A call with a request outstanding has it on a socket that will still report
\* its end, and on one that was opened for the call's own server id.
NoOrphanedRequest ==
    \A c \in Calls : pc[c] = "sent" =>
        /\ phase[via[c]] \in {"open", "closing"}
        /\ target[via[c]] = target[c]

\* The queue of an id is bounded (by one more than the configured size).
PendingBound == \A i \in Ids : Cardinality(pendings[i]) <= PendingSize + 1

\* A call parked when the station stops is never sent afterwards.
ParkedNotSentAfterStop ==
    [][\A c \in Calls : state = "CLOSED" /\ pc[c] = "parked" => pc'[c] # "sent"]_vars

\* The mailbox map and connect() agree with the registry and with each other,
\* although dispatch() suspends between reading and writing them.
\* (mailstation.ts lazyConnect, connect, removeOldMailboxes)
MailboxesSound == UsableMailbox /\ FreshMailbox /\ OneAttempt

\* Calls are parked only where a connect() will find them, in bounded queues,
\* and one that succeeds finds its mailbox. (addToPending, flushPending)
QueuesSound == ParkedWhileConnecting /\ PendingBound /\ FlushHasMailbox

-----------------------------------------------------------------------------
(* The inductive strengthening of the invariants above.                    *)

\* A mailbox and the dispatch that created it move together.
BoxOfCall ==
    \A c \in Calls :
        /\ pc[c] = "connect" <=> attempt[c] = "pending"
        /\ pc[c] \in {"idle", "retry"} => attempt[c] = "none"
        /\ attempt[c] = "none" <=> phase[c] = "none"
        /\ attempt[c] = "pending" => phase[c] # "open"
        /\ attempt[c] = "ok" => phase[c] # "opening"

\* The map holds, under its own id, a mailbox that connects or is connected.
MapHoldsLiveMailbox ==
    \A i \in Ids : mailboxes[i] # None =>
        LET m == mailboxes[i]
        IN  /\ target[m] = i
            /\ attempt[m] \in {"pending", "ok"}
            /\ attempt[m] = "ok" => phase[m] = "open"
            /\ info[m] # None

\* Requests are outstanding on mailboxes whose connect() succeeded.
SentOverConnected ==
    \A c \in Calls : pc[c] = "sent" => via[c] \in Calls /\ attempt[via[c]] = "ok"

IInv ==
    /\ TypeOK
    /\ BoxOfCall
    /\ MapHoldsLiveMailbox
    /\ SentOverConnected
    /\ FreshMailbox
    /\ OneAttempt
    /\ FlushHasMailbox
    /\ ParkedWhileConnecting
    /\ NoOrphanedRequest

-----------------------------------------------------------------------------
(* Liveness.                                                               *)

\* Once a connect() of an id has failed, its mark stays and nothing flushes the
\* queue of that id any more.
Stranded(c) ==
    pc[c] = "parked" /\ \E m \in Calls : attempt[m] = "failed" /\ target[m] = target[c]

\* Every dispatch() settles, or is turned away by a full queue (addToPending
\* then returns and leaves the promise open), or is parked at an id one of whose
\* connect() failed: through parking, retries, overlapping connects, closes and
\* stops no call stays in a loop, on a socket or in the queue of an id that can
\* still connect. (dispatch, addToPending, flushPending, retry, connect, send)
DispatchesEnd ==
    \A c \in Calls : pc[c] # "idle" ~> pc[c] \in {"settled", "dropped"} \/ Stranded(c)
=============================================================================
