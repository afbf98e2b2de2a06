----------------------------- MODULE RPCChannel -----------------------------
(***************************************************************************)
(* One RPC acceptor and the mailboxes connected to it: WSMailbox keeps the *)
(* pending requests, their timers and the keepalive clock, WSAcceptor runs *)
(* the dispatcher for every package and returns the answers, at once or    *)
(* from a queue per socket that a timer flushes.                           *)
(*                                                                         *)
(* A call is <<mailbox, id>>.  A frame is a sequence of packages.  Frames  *)
(* travel in order, and what is under way is lost with its connection.     *)
(***************************************************************************)
EXTENDS Naturals, Sequences, FiniteSets, SequencesExt

CONSTANTS
    Mailboxes,
    MaxCalls,    \* bound on the calls made over all mailboxes
    None         \* the id of a package that has none, the answer of a call without one

ASSUME MailboxesAssumption == IsFiniteSet(Mailboxes)
ASSUME MaxCallsAssumption == MaxCalls \in Nat \ {0}

Ids == 0 .. MaxCalls - 1
Calls == Mailboxes \X Ids

ASSUME NoneAssumption == None \notin Ids \union Calls

VARIABLES
    \* WSMailbox
    sock,        \* its socket: "none", "connecting", "open", "closing", "closed"
    connected, closed,   \* the flags of these names; "connected" also stands for
                         \* the keepalive and flush intervals, which share its life
    connTimer,   \* the connect timeout is pending
    bufferMsg, buffered, \* the option, and the length of the queue it fills
    curId, requests, timers,
    result,      \* [Calls -> "none", "pending", "ok", "error", "timeout", "disconnected"]
    answer,      \* history: the call whose value settled this one
    ping, age,   \* lastPing against lastPong, and the keepalive ticks since lastPing
    mute,        \* the mailboxes whose peer has fallen silent without closing
    \* WSAcceptor and the dispatcher
    ssock, sockets, msgQueues, interval, stopped,
    running, ran,        \* services being awaited; history: services started
    \* the connections
    toServer, toClient

mailbox == <<sock, connected, closed, connTimer, bufferMsg, buffered, curId, requests, timers, result, answer, ping, age>>
acceptor == <<ssock, sockets, msgQueues, interval, stopped, running, ran>>
vars == <<mailbox, mute, acceptor, toServer, toClient>>

Of(m) == {c \in Calls : c[1] = m}

Init ==
    /\ sock = [m \in Mailboxes |-> "none"]
    /\ connected = [m \in Mailboxes |-> FALSE]
    /\ closed = [m \in Mailboxes |-> FALSE]
    /\ connTimer = [m \in Mailboxes |-> FALSE]
    /\ bufferMsg \in [Mailboxes -> BOOLEAN]
    /\ buffered = [m \in Mailboxes |-> 0]
    /\ curId = [m \in Mailboxes |-> 0]
    /\ requests = {} /\ timers = {}
    /\ result = [c \in Calls |-> "none"]
    /\ answer = [c \in Calls |-> None]
    /\ ping = [m \in Mailboxes |-> "never"]
    /\ age = [m \in Mailboxes |-> 0]
    /\ mute = {}
    /\ ssock = [m \in Mailboxes |-> "none"]
    /\ sockets = {} /\ msgQueues = <<>>
    /\ interval \in BOOLEAN
    /\ stopped = FALSE
    /\ running = {} /\ ran = {}
    /\ toServer = [m \in Mailboxes |-> <<>>]
    /\ toClient = [m \in Mailboxes |-> <<>>]

-----------------------------------------------------------------------------
\* The mailbox

\* close(): the socket starts its closing handshake; the requests stay.
Close(m, s) ==
    /\ closed' = [closed EXCEPT ![m] = TRUE]
    /\ connected' = [connected EXCEPT ![m] = FALSE]
    /\ sock' = [sock EXCEPT ![m] = s]

Connect(m) ==
    /\ sock[m] = "none"
    /\ sock' = [sock EXCEPT ![m] = "connecting"]
    /\ connTimer' = [connTimer EXCEPT ![m] = TRUE]
    /\ UNCHANGED <<connected, closed, bufferMsg, buffered, curId, requests, timers, result, answer, ping, age, mute, acceptor, toServer, toClient>>

\* The connect promise is rejected and CLOSE is told to the mailstation, but
\* the socket goes on connecting.
ConnectTimeout(m) ==
    /\ connTimer[m]
    /\ connTimer' = [connTimer EXCEPT ![m] = FALSE]
    /\ UNCHANGED <<sock, connected, closed, bufferMsg, buffered, curId, requests, timers, result, answer, ping, age, mute, acceptor, toServer, toClient>>

\* Mutant: the connect timeout goes on.
OpenedTimerKept(m) ==
    /\ sock[m] = "connecting" /\ ssock[m] # "none"
    /\ sock' = [sock EXCEPT ![m] = "open"]
    /\ connected' = [connected EXCEPT ![m] = TRUE]
    /\ UNCHANGED <<closed, connTimer, bufferMsg, buffered, curId, requests, timers, result, answer, ping, age, mute, acceptor, toServer, toClient>>

Opened(m) ==
    /\ sock[m] = "connecting" /\ ssock[m] # "none"
    /\ sock' = [sock EXCEPT ![m] = "open"]
    /\ connTimer' = [connTimer EXCEPT ![m] = FALSE]
    /\ connected' = [connected EXCEPT ![m] = TRUE]
    /\ UNCHANGED <<closed, bufferMsg, buffered, curId, requests, timers, result, answer, ping, age, mute, acceptor, toServer, toClient>>

\* Mutant: onclose rejects the calls that are settled too.
SocketClosedAll(m) ==
    /\ sock[m] \in {"connecting", "open", "closing"}
    /\ Close(m, "closed")
    /\ result' = [c \in Calls |-> IF c \in Of(m) /\ result[c] # "none" THEN "disconnected" ELSE result[c]]
    /\ toClient' = [toClient EXCEPT ![m] = <<>>]
    /\ UNCHANGED <<connTimer, bufferMsg, buffered, curId, requests, timers, answer, ping, age, mute, acceptor, toServer>>

\* onclose: every request is rejected; neither the request nor its timer goes.
SocketClosed(m) ==
    /\ sock[m] \in {"connecting", "open", "closing"}
    /\ Close(m, "closed")
    /\ result' = [c \in Calls |-> IF c \in requests \intersect Of(m) /\ result[c] = "pending"
                                  THEN "disconnected" ELSE result[c]]
    /\ toClient' = [toClient EXCEPT ![m] = <<>>]
    /\ UNCHANGED <<connTimer, bufferMsg, buffered, curId, requests, timers, answer, ping, age, mute, acceptor, toServer>>

\* close() called by the mailstation, or by onerror before onclose.
LocalClose(m) ==
    /\ sock[m] \in {"connecting", "open"} /\ ~closed[m]
    /\ Close(m, "closing")
    /\ UNCHANGED <<connTimer, bufferMsg, buffered, curId, requests, timers, result, answer, ping, age, mute, acceptor, toServer, toClient>>

\* Mutant: a buffered message gets no timer.
SendNoTimer(m) ==
    LET c == <<m, curId[m]>> IN
    /\ connected[m] /\ ~closed[m]
    /\ Cardinality({d \in Calls : result[d] # "none"}) < MaxCalls
    /\ curId' = [curId EXCEPT ![m] = @ + 1]
    /\ requests' = requests \union {c}
    /\ timers' = IF bufferMsg[m] THEN timers ELSE timers \union {c}
    /\ result' = [result EXCEPT ![c] = "pending"]
    /\ buffered' = [buffered EXCEPT ![m] = IF bufferMsg[m] THEN @ + 1 ELSE @]
    /\ toServer' = [toServer EXCEPT ![m] = IF bufferMsg[m] THEN @ ELSE Append(@, <<c[2]>>)]
    /\ UNCHANGED <<sock, connected, closed, connTimer, bufferMsg, answer, ping, age, mute, acceptor, toClient>>

\* Bound: MaxCalls calls in all.  With bufferMsg the queue gets the message
\* alone, without the id that its answer would be matched by.
Send(m) ==
    LET c == <<m, curId[m]>> IN
    /\ connected[m] /\ ~closed[m]
    /\ Cardinality({d \in Calls : result[d] # "none"}) < MaxCalls
    /\ curId' = [curId EXCEPT ![m] = @ + 1]
    /\ requests' = requests \union {c}
    /\ timers' = timers \union {c}
    /\ result' = [result EXCEPT ![c] = "pending"]
    /\ \/ /\ bufferMsg[m]
          /\ buffered' = [buffered EXCEPT ![m] = @ + 1]
          /\ UNCHANGED toServer
       \/ /\ ~bufferMsg[m]
          /\ toServer' = [toServer EXCEPT ![m] = Append(@, <<c[2]>>)]
          /\ UNCHANGED buffered
    /\ UNCHANGED <<sock, connected, closed, connTimer, bufferMsg, answer, ping, age, mute, acceptor, toClient>>

Flush(m) ==
    /\ connected[m] /\ buffered[m] > 0
    /\ toServer' = [toServer EXCEPT ![m] = Append(@, [k \in 1 .. buffered[m] |-> None])]
    /\ buffered' = [buffered EXCEPT ![m] = 0]
    /\ UNCHANGED <<sock, connected, closed, connTimer, bufferMsg, curId, requests, timers, result, answer, ping, age, mute, acceptor, toClient>>

\* Mutant: a call that has timed out stays in the table.
RequestTimeoutLeaves(c) ==
    /\ c \in timers
    /\ timers' = timers \ {c}
    /\ result' = [result EXCEPT ![c] = IF @ = "pending" THEN "timeout" ELSE @]
    /\ UNCHANGED <<sock, connected, closed, connTimer, bufferMsg, buffered, curId, requests, answer, ping, age, mute, acceptor, toServer, toClient>>

\* The timer of send(): the request is forgotten and rejected.
RequestTimeout(c) ==
    /\ c \in timers
    /\ timers' = timers \ {c}
    /\ requests' = requests \ {c}
    /\ result' = [result EXCEPT ![c] = IF @ = "pending" THEN "timeout" ELSE @]
    /\ UNCHANGED <<sock, connected, closed, connTimer, bufferMsg, buffered, curId, answer, ping, age, mute, acceptor, toServer, toClient>>

\* processMsg() for every package of the frame: an answer without a request is
\* dropped, an error SERVER_CLOSED closes the whole mailbox.
Receive(m) ==
    LET frame == Head(toClient[m])
        found == {k \in DOMAIN frame : frame[k].id # None /\ <<m, frame[k].id>> \in requests}
        For(c) == CHOOSE k \in found : frame[k].id = c[2]
        calls == {<<m, frame[k].id>> : k \in found}
    IN
    /\ sock[m] \in {"open", "closing"} /\ m \notin mute /\ toClient[m] # <<>>
    /\ toClient' = [toClient EXCEPT ![m] = Tail(@)]
    /\ timers' = timers \ calls
    /\ requests' = requests \ calls
    /\ result' = [c \in Calls |-> IF c \in calls
                                  THEN (IF frame[For(c)].kind = "ok" THEN "ok" ELSE "error") ELSE result[c]]
    /\ answer' = [c \in Calls |-> IF c \in calls THEN frame[For(c)].of ELSE answer[c]]
    /\ \/ /\ \E k \in found : frame[k].kind = "closed"
          /\ Close(m, "closing")
       \/ /\ ~ \E k \in found : frame[k].kind = "closed"
          /\ UNCHANGED <<sock, connected, closed>>
    /\ UNCHANGED <<connTimer, bufferMsg, buffered, curId, ping, age, mute, acceptor, toServer>>

\* Mutant: the limit is never compared.
TickForever(m) ==
    /\ connected[m] /\ ~closed[m]
    /\ ping' = [ping EXCEPT ![m] = "sent"]
    /\ age' = [age EXCEPT ![m] = 0]
    /\ UNCHANGED <<sock, connected, closed, connTimer, bufferMsg, buffered, curId, requests, timers, result, answer, mute, acceptor, toServer, toClient>>

\* Mutant: the keepalive counts on without closing.
TickCounts(m) ==
    /\ connected[m] /\ ~closed[m] /\ age[m] < 3
    /\ ping' = [ping EXCEPT ![m] = "sent"]
    /\ age' = [age EXCEPT ![m] = @ + 1]
    /\ UNCHANGED <<sock, connected, closed, connTimer, bufferMsg, buffered, curId, requests, timers, result, answer, mute, acceptor, toServer, toClient>>

\* checkKeepAlive(): two intervals without a pong close the mailbox.  The
\* clock is read when the timer runs, which may be late: the limit can be
\* found exceeded at any tick, and is at the third.
Tick(m) ==
    /\ connected[m] /\ ~closed[m]
    /\ \/ /\ ping[m] # "sent"
          /\ ping' = [ping EXCEPT ![m] = "sent"]
          /\ age' = [age EXCEPT ![m] = 0]
          /\ UNCHANGED <<sock, connected, closed>>
       \/ /\ ping[m] = "sent" /\ age[m] < 2
          /\ age' = [age EXCEPT ![m] = @ + 1]
          /\ UNCHANGED <<sock, connected, closed, ping>>
       \/ /\ ping[m] = "sent"
          /\ Close(m, "closing")
          /\ ping' = [ping EXCEPT ![m] = "never"]
          /\ UNCHANGED age
    /\ UNCHANGED <<connTimer, bufferMsg, buffered, curId, requests, timers, result, answer, mute, acceptor, toServer, toClient>>

Pong(m) ==
    /\ ping[m] = "sent" /\ sock[m] \in {"open", "closing"} /\ ssock[m] = "open" /\ m \notin mute
    /\ ping' = [ping EXCEPT ![m] = "answered"]
    /\ UNCHANGED <<sock, connected, closed, connTimer, bufferMsg, buffered, curId, requests, timers, result, answer, age, mute, acceptor, toServer, toClient>>

\* A host or a link goes down: nothing arrives any more, nothing is closed.
FallSilent(m) ==
    /\ m \notin mute /\ sock[m] = "open"
    /\ mute' = mute \union {m}
    /\ UNCHANGED <<mailbox, acceptor, toServer, toClient>>

-----------------------------------------------------------------------------
\* The acceptor

\* doSend() on a socket that is no longer open only reports an error.
Delivered(m, frames) ==
    IF ssock[m] = "open" THEN [toClient EXCEPT ![m] = @ \o frames] ELSE toClient

QueueOf(m) == IF m \in DOMAIN msgQueues THEN msgQueues[m] ELSE <<>>

\* The end of processMsg(): with an interval the answers wait in the queue of
\* the socket, which enqueue() creates even if the socket has gone.
Respond(m, pkgs) ==
    \/ /\ interval /\ pkgs # <<>>
       /\ msgQueues' = [n \in DOMAIN msgQueues \union {m} |-> IF n = m THEN QueueOf(m) \o pkgs ELSE msgQueues[n]]
       /\ UNCHANGED toClient
    \/ /\ interval => pkgs = <<>>
       /\ toClient' = Delivered(m, [k \in DOMAIN pkgs |-> <<pkgs[k]>>])
       /\ UNCHANGED msgQueues

Accept(m) ==
    /\ sock[m] = "connecting" /\ ssock[m] = "none" /\ ~stopped
    /\ ssock' = [ssock EXCEPT ![m] = "open"]
    /\ sockets' = sockets \union {m}
    /\ UNCHANGED <<mailbox, mute, msgQueues, interval, stopped, running, ran, toServer, toClient>>

\* A frame arrives.  The dispatcher throws when the server is stopped, and
\* reading the service of a package without a message throws too: both are
\* answered at once.  Other packages start their service.
Serve(m) ==
    LET frame == Head(toServer[m])
        Fails(k) == stopped \/ frame[k] = None
        started == {<<m, frame[k]>> : k \in {j \in DOMAIN frame : ~Fails(j)}}
        failure == [k \in DOMAIN frame |-> [id |-> frame[k], of |-> None,
                                            kind |-> IF stopped /\ frame[k] # None THEN "closed" ELSE "error"]]
    IN
    /\ ssock[m] \in {"open", "terminated"} /\ m \notin mute /\ toServer[m] # <<>>
    /\ toServer' = [toServer EXCEPT ![m] = Tail(@)]
    /\ running' = running \union started
    /\ ran' = ran \union started
    /\ Respond(m, IF started = {} THEN failure ELSE <<>>)
    /\ UNCHANGED <<mailbox, mute, ssock, sockets, interval, stopped>>

\* Mutant: the answer carries the id of the package that came last.
ServiceDoneLast(c) ==
    /\ c \in running
    /\ running' = running \ {c}
    /\ \E kind \in {"ok", "error", "closed"} :
          Respond(c[1], <<[id |-> curId[c[1]] - 1, of |-> c, kind |-> kind]>>)
    /\ UNCHANGED <<mailbox, mute, ssock, sockets, interval, stopped, ran, toServer>>

\* The awaited service ends: with a value, with an error, or with the error
\* SERVER_CLOSED of an RPC it made itself.
ServiceDone(c) ==
    /\ c \in running
    /\ running' = running \ {c}
    /\ \E kind \in {"ok", "error", "closed"} :
          Respond(c[1], <<[id |-> c[2], of |-> c, kind |-> kind]>>)
    /\ UNCHANGED <<mailbox, mute, ssock, sockets, interval, stopped, ran, toServer>>

\* Mutant: the queue of a socket that has gone is passed over.
FlushQueuesLive ==
    LET full == {m \in DOMAIN msgQueues \intersect sockets : msgQueues[m] # <<>>} IN
    /\ interval /\ \E m \in DOMAIN msgQueues : m \notin sockets \/ msgQueues[m] # <<>>
    /\ msgQueues' = [m \in DOMAIN msgQueues |-> IF m \in full THEN <<>> ELSE msgQueues[m]]
    /\ toClient' = [m \in Mailboxes |-> IF m \in full /\ ssock[m] = "open" THEN Append(toClient[m], msgQueues[m]) ELSE toClient[m]]
    /\ UNCHANGED <<mailbox, mute, ssock, sockets, interval, stopped, running, ran, toServer>>

\* flush(): queues of sockets that have gone are dropped, the others are sent
\* as one frame each.
FlushQueues ==
    LET live == DOMAIN msgQueues \intersect sockets
        full == {m \in live : msgQueues[m] # <<>> /\ ssock[m] = "open"} IN
    /\ interval /\ \E m \in DOMAIN msgQueues : m \notin sockets \/ msgQueues[m] # <<>>
    /\ msgQueues' = [m \in live |-> <<>>]
    /\ toClient' = [m \in Mailboxes |-> IF m \in full THEN Append(toClient[m], msgQueues[m]) ELSE toClient[m]]
    /\ UNCHANGED <<mailbox, mute, ssock, sockets, interval, stopped, running, ran, toServer>>

\* onSocketClose()
ServerSocketClosed(m) ==
    /\ ssock[m] \in {"open", "terminated"}
    /\ ssock' = [ssock EXCEPT ![m] = "closed"]
    /\ sockets' = sockets \ {m}
    /\ msgQueues' = [n \in DOMAIN msgQueues \ {m} |-> msgQueues[n]]
    /\ toServer' = [toServer EXCEPT ![m] = <<>>]
    /\ UNCHANGED <<mailbox, mute, interval, stopped, running, ran, toClient>>

\* Server.stop(): closing the WebSocket server terminates its sockets; their
\* close events follow.
Stop ==
    /\ ~stopped
    /\ stopped' = TRUE
    /\ interval' = FALSE
    /\ ssock' = [m \in Mailboxes |-> IF ssock[m] = "open" THEN "terminated" ELSE ssock[m]]
    /\ UNCHANGED <<mailbox, mute, sockets, msgQueues, running, ran, toServer, toClient>>

-----------------------------------------------------------------------------
Next ==
    \/ \E m \in Mailboxes :
          \/ Connect(m) \/ ConnectTimeout(m) \/ Opened(m) \/ SocketClosed(m) \/ LocalClose(m)
          \/ Send(m) \/ Flush(m) \/ Receive(m) \/ Tick(m) \/ Pong(m) \/ FallSilent(m)
          \/ Accept(m) \/ Serve(m) \/ ServerSocketClosed(m)
    \/ \E c \in Calls : RequestTimeout(c) \/ ServiceDone(c)
    \/ FlushQueues
    \/ Stop

Spec == Init /\ [][Next]_vars

\* Timers and intervals fire: Node's event loop runs them.  Nothing is assumed
\* of the network, the services or the callers.
FairSpec ==
    /\ Spec
    /\ \A m \in Mailboxes : WF_vars(Tick(m))
    /\ \A c \in Calls : WF_vars(RequestTimeout(c))
    /\ WF_vars(FlushQueues)

-----------------------------------------------------------------------------
Package == [id : Ids \union {None}, of : Calls \union {None}, kind : {"ok", "error", "closed"}]

TypeOK ==
    /\ sock \in [Mailboxes -> {"none", "connecting", "open", "closing", "closed"}]
    /\ connected \in [Mailboxes -> BOOLEAN] /\ closed \in [Mailboxes -> BOOLEAN]
    /\ connTimer \in [Mailboxes -> BOOLEAN] /\ bufferMsg \in [Mailboxes -> BOOLEAN]
    /\ buffered \in [Mailboxes -> 0 .. MaxCalls] /\ curId \in [Mailboxes -> 0 .. MaxCalls]
    /\ requests \subseteq Calls /\ timers \subseteq Calls /\ running \subseteq Calls /\ ran \subseteq Calls
    /\ result \in [Calls -> {"none", "pending", "ok", "error", "timeout", "disconnected"}]
    /\ answer \in [Calls -> Calls \union {None}]
    /\ ping \in [Mailboxes -> {"never", "sent", "answered"}] /\ age \in [Mailboxes -> 0 .. 2]
    /\ mute \subseteq Mailboxes /\ sockets \subseteq Mailboxes
    /\ ssock \in [Mailboxes -> {"none", "open", "terminated", "closed"}]
    /\ interval \in BOOLEAN /\ stopped \in BOOLEAN
    /\ DOMAIN msgQueues \subseteq Mailboxes
    /\ \A m \in DOMAIN msgQueues : msgQueues[m] \in Seq(Package)
    /\ toServer \in [Mailboxes -> Seq(Seq(Ids \union {None}))]
    /\ toClient \in [Mailboxes -> Seq(Seq(Package))]

\* A call that its caller still waits for is in the table, and what is in the
\* table has a timer: no caller waits for ever, and no settled call stays
\* behind, except that a lost connection leaves its rejected calls to their
\* timers.  (wsMailbox.ts send, processMsg, onclose)
PendingHasTimer ==
    /\ timers = requests
    /\ \A c \in Calls : result[c] = "pending" => c \in timers
    /\ \A c \in requests : result[c] \in {"pending", "disconnected"}

\* A caller gets the value of its own call, which its service computed, also
\* when services end out of order, answers wait in queues, and buffered
\* packages carry no id.  (wsMailbox.ts processMsg, wsAcceptor.ts processMsg)
AnswersOwnCall ==
    \A c \in Calls : result[c] = "ok" => answer[c] = c /\ c \in ran

\* A mailbox that accepts calls has an open socket, was not closed, and its
\* connect timeout can no longer report it as failed.  (wsMailbox.ts connect,
\* close)
ConnectedSocket ==
    \A m \in Mailboxes : connected[m] => sock[m] = "open" /\ ~closed[m] /\ ~connTimer[m]

\* Calls, timers and connection of a mailbox stay in step, however answers,
\* timeouts and closes overtake each other. (wsMailbox.ts)
ChannelSound == TypeOK /\ PendingHasTimer /\ ConnectedSocket

StateOf(c) ==
    CASE result[c] = "none" -> "idle"
      [] result[c] = "pending" -> "pending"
      [] result[c] = "ok" -> "answered"
      [] OTHER -> "failed"

\* The channel implements the promise of module RPCCalls.
Promise == INSTANCE RPCCalls WITH state <- [c \in Calls |-> StateOf(c)]
KeepsPromise == Promise!Spec

\* A caller hears the outcome of every call, whatever happens to the server.
EveryCallSettles == \A c \in Calls : result[c] = "pending" ~> result[c] # "pending"

\* The keepalive clock gives up a connection whose peer fell silent.
SilentPeerDropped == \A m \in Mailboxes : m \in mute /\ connected[m] ~> ~connected[m]

\* A queue that enqueue() made for a socket that had gone does not stay: the
\* next flush drops it, unless the acceptor is closed.
OrphanQueueSwept ==
    \A m \in Mailboxes : m \in DOMAIN msgQueues \ sockets ~> m \notin DOMAIN msgQueues \ sockets \/ stopped

\* Nothing waits for ever: no call, no connection to a silent peer, no queue of
\* a socket that has gone. (wsMailbox.ts send, checkKeepAlive; wsAcceptor.ts flush)
ChannelSettles == EveryCallSettles /\ SilentPeerDropped /\ OrphanQueueSwept
=============================================================================
