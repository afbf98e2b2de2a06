---------------------------- MODULE WSConnection ----------------------------
(***************************************************************************)
(* A WebSocket client and the sockets it makes: RegaxWebSocket connects,   *)
(* reconnects with a limit, shakes hands and watches the server's          *)
(* heartbeat; WSSocket is the other end.  All sockets of a client share    *)
(* its fields, and "isClosed" is never reset: the first reconnection       *)
(* closes the client for good, and later calls of close() do nothing.      *)
(***************************************************************************)
EXTENDS Naturals, Sequences

CONSTANTS
    Socks,
    MaxAttempts   \* the option maxReconnectAttempts (connect() takes 0 for its default)

MaxConns == MaxAttempts + 3   \* bound on the sockets made, above what can be needed

ASSUME SocksAreNumbered == MaxAttempts \in Nat \ {0} /\ Socks = 1 .. MaxConns

VARIABLES
    state, checking, clock, gone, toClient,   \* of ServerSocket
    option,      \* the option reconnect
    ws,          \* [Socks -> "none", "connecting", "open", "closing", "closed"]
    made, cur,   \* the number of sockets made; the field socket, 0 if undefined
    isClosed, reconnect, attempts,
    retry,       \* the reconnect timer is pending
    cclock, fresh,     \* heartbeat: as clock; a package came during the timeout
    promise, refusals, \* of Client.connect(): its outcome, and DISCONNECTs passed over
    mute,        \* the sockets whose link has fallen silent
    toServer

Deliver(q, type) == Append(q, type)
INSTANCE ServerSocket WITH Put <- Deliver

server == <<state, checking, clock, gone>>
client == <<option, made, cur, isClosed, reconnect, attempts, retry, cclock, fresh, promise, refusals>>
vars == <<server, toClient, client, ws, mute, toServer>>

Init ==
    /\ ServerInit
    /\ option \in BOOLEAN
    /\ ws = [s \in Socks |-> "none"]
    /\ made = 0 /\ cur = 0
    /\ isClosed = FALSE /\ reconnect = FALSE
    /\ attempts = 0 /\ retry = FALSE
    /\ cclock = "off" /\ fresh = FALSE
    /\ promise = "none" /\ refusals = 0
    /\ gone = {} /\ mute = {}
    /\ toClient = [s \in Socks |-> <<>>]
    /\ toServer = [s \in Socks |-> <<>>]

-----------------------------------------------------------------------------
\* The client

Closing(s) == IF ws[s] \in {"connecting", "open"} THEN "closing" ELSE ws[s]

Say(type) == IF cur = 0 \/ ws[cur] # "open" THEN toServer
             ELSE [toServer EXCEPT ![cur] = Append(@, type)]

ReconnectReset ==
    /\ reconnect' = FALSE
    /\ attempts' = 0
    /\ retry' = FALSE

\* close() of the client
CloseClient ==
    \/ /\ isClosed
       /\ UNCHANGED <<isClosed, cur, ws, reconnect, attempts, retry, cclock>>
    \/ /\ ~isClosed
       /\ isClosed' = TRUE
       /\ cur' = 0
       /\ ws' = IF cur = 0 THEN ws ELSE [ws EXCEPT ![cur] = Closing(cur)]
       /\ cclock' = "off"
       /\ ReconnectReset

\* Mutant: the attempts of the last connection are forgotten.
MakeSocketAfresh ==
    /\ made < MaxConns
    /\ made' = made + 1 /\ cur' = made + 1
    /\ isClosed' = isClosed
    /\ ws' = [ws EXCEPT ![made + 1] = "connecting"]
    /\ cclock' = "off"
    /\ attempts' = 0
    /\ reconnect' = option
    /\ retry' = FALSE
    /\ UNCHANGED <<option, fresh, refusals, server, toClient, mute, toServer>>

\* connect(): a socket that is left is closed first, and that close() resets
\* the attempts.
MakeSocket ==
    LET closes == cur # 0 /\ ~isClosed IN
    /\ made < MaxConns
    /\ made' = made + 1 /\ cur' = made + 1
    /\ isClosed' = (isClosed \/ closes)
    /\ ws' = [s \in Socks |-> IF s = made + 1 THEN "connecting"
                              ELSE IF closes /\ s = cur THEN Closing(s) ELSE ws[s]]
    /\ cclock' = IF closes THEN "off" ELSE cclock
    /\ attempts' = IF closes THEN 0 ELSE attempts
    /\ reconnect' = option
    /\ retry' = FALSE
    /\ UNCHANGED <<option, fresh, refusals, server, toClient, mute, toServer>>

\* Client.connect(), called once
Connect ==
    /\ promise = "none"
    /\ promise' = "pending"
    /\ MakeSocket

\* Mutant: the timer goes on.
RetryOften ==
    /\ retry \/ attempts > 0
    /\ MakeSocket
    /\ UNCHANGED promise

\* The timer of tryToReconnectIfFailed()
Retry ==
    /\ retry
    /\ MakeSocket
    /\ UNCHANGED promise

Disconnect ==
    /\ promise # "none"
    /\ CloseClient
    /\ UNCHANGED <<option, made, fresh, promise, refusals, server, toClient, mute, toServer>>

Opened(s) ==
    /\ ws[s] = "connecting" /\ state[s] # "none"
    /\ ws' = [ws EXCEPT ![s] = "open"]
    /\ ReconnectReset
    /\ toServer' = [toServer EXCEPT ![cur] = Append(@, "handshake")]
    /\ UNCHANGED <<option, made, cur, isClosed, cclock, fresh, promise, refusals, server, toClient, mute>>

\* Mutant: the promise is left alone.
ClosedQuietly(s) ==
    /\ ws[s] \in {"connecting", "open", "closing"}
    /\ ws' = [ws EXCEPT ![s] = "closed"]
    /\ toClient' = [toClient EXCEPT ![s] = <<>>]
    /\ \/ /\ reconnect /\ attempts < MaxAttempts
          /\ attempts' = attempts + 1 /\ retry' = TRUE
          /\ UNCHANGED reconnect
       \/ /\ ~(reconnect /\ attempts < MaxAttempts)
          /\ ReconnectReset
    /\ UNCHANGED <<option, made, cur, isClosed, cclock, fresh, promise, refusals, server, mute, toServer>>

\* Mutant: one attempt more than the limit.
ClosedOneMore(s) ==
    /\ ws[s] \in {"connecting", "open", "closing"}
    /\ ws' = [ws EXCEPT ![s] = "closed"]
    /\ toClient' = [toClient EXCEPT ![s] = <<>>]
    /\ reconnect /\ attempts <= MaxAttempts
    /\ attempts' = attempts + 1 /\ retry' = TRUE
    /\ UNCHANGED <<reconnect, promise, refusals, option, made, cur, isClosed, cclock, fresh, server, mute, toServer>>

\* onclose: another attempt, or DISCONNECT.  The promise of Client.connect()
\* passes over as many DISCONNECTs as there may be attempts.
Closed(s) ==
    /\ ws[s] \in {"connecting", "open", "closing"}
    /\ ws' = [ws EXCEPT ![s] = "closed"]
    /\ toClient' = [toClient EXCEPT ![s] = <<>>]
    /\ \/ /\ reconnect /\ attempts < MaxAttempts
          /\ attempts' = attempts + 1 /\ retry' = TRUE
          /\ UNCHANGED <<reconnect, promise, refusals>>
       \/ /\ ~(reconnect /\ attempts < MaxAttempts)
          /\ ReconnectReset
          /\ \/ /\ option /\ refusals < MaxAttempts
                /\ refusals' = refusals + 1
                /\ UNCHANGED promise
             \/ /\ ~(option /\ refusals < MaxAttempts)
                /\ promise' = IF promise = "pending" THEN "refused" ELSE promise
                /\ UNCHANGED refusals
    /\ UNCHANGED <<option, made, cur, isClosed, cclock, fresh, server, mute, toServer>>

\* A package arrives, which also moves the timeout of the heartbeat.
Receive(s) ==
    LET type == Head(toClient[s]) IN
    /\ ws[s] \in {"open", "closing"} /\ s \notin mute /\ toClient[s] # <<>>
    /\ toClient' = [toClient EXCEPT ![s] = Tail(@)]
    /\ toServer' = IF type = "handshake" THEN Say("ack") ELSE toServer
    /\ promise' = IF type = "handshake" /\ promise = "pending" THEN "ok" ELSE promise
    /\ cclock' = IF type = "heartbeat" THEN "tick" ELSE cclock
    /\ fresh' = (cclock = "wait" /\ type # "heartbeat")
    /\ UNCHANGED <<option, made, cur, isClosed, reconnect, attempts, retry, refusals, ws, server, mute>>

Tick ==
    /\ cclock = "tick"
    /\ cclock' = "wait"
    /\ fresh' = FALSE
    /\ toServer' = Say("heartbeat")
    /\ UNCHANGED <<option, made, cur, isClosed, reconnect, attempts, retry, promise, refusals, ws, server, toClient, mute>>

\* Mutant: nothing is done when no package came.
TimeoutAgain ==
    /\ cclock = "wait" /\ fresh
    /\ fresh' = FALSE
    /\ UNCHANGED <<cclock, option, made, cur, isClosed, reconnect, attempts, retry, promise, refusals, ws, server, toClient, mute, toServer>>

\* The timeout of the heartbeat: armed again if a package came, else close().
Timeout ==
    /\ cclock = "wait"
    /\ \/ /\ fresh
          /\ fresh' = FALSE
          /\ UNCHANGED <<cur, isClosed, ws, reconnect, attempts, retry, cclock>>
       \/ /\ ~fresh /\ ~isClosed
          /\ CloseClient
          /\ UNCHANGED fresh
       \/ /\ ~fresh /\ isClosed
          /\ cclock' = "off"
          /\ UNCHANGED <<cur, isClosed, ws, reconnect, attempts, retry, fresh>>
    /\ UNCHANGED <<option, made, promise, refusals, server, toClient, mute, toServer>>

-----------------------------------------------------------------------------
\* The server and the network

Accept(s) ==
    /\ ws[s] = "connecting" /\ state[s] = "none"
    /\ state' = [state EXCEPT ![s] = "inited"]
    /\ UNCHANGED <<checking, clock, gone, toClient, client, ws, mute, toServer>>

Serve(s) ==
    /\ s \notin gone \union mute /\ toServer[s] # <<>>
    /\ toServer' = [toServer EXCEPT ![s] = Tail(@)]
    /\ \/ Head(toServer[s]) = "handshake" /\ OnHandshake(s)
       \/ Head(toServer[s]) = "ack" /\ OnAck(s)
       \/ Head(toServer[s]) = "heartbeat" /\ OnHeartbeat(s)
    /\ UNCHANGED <<client, ws, mute>>

\* What the server does to a socket on its own.
ServerStep(s) ==
    /\ HandshakeAccepted(s) \/ HandshakeRefused(s) \/ ClockTick(s) \/ ClockTimeout(s) \/ CloseSocket(s)
    /\ UNCHANGED <<client, ws, mute, toServer>>

\* Bound: a push, an answer or a KICK only if nothing else is on its way.
Push(s) ==
    /\ state[s] = "working" /\ toClient[s] = <<>>
    /\ toClient' = Sent(s, "data")
    /\ UNCHANGED <<server, client, ws, mute, toServer>>

\* Mutant: the clock is not cleared.
ServerGoneTicking(s) ==
    /\ state[s] # "none" /\ s \notin gone
    /\ gone' = gone \union {s}
    /\ toServer' = [toServer EXCEPT ![s] = <<>>]
    /\ UNCHANGED <<state, checking, clock, toClient, client, ws, mute>>

\* The close event of the ws socket: DISCONNECT, unless close() emitted it.
\* The state is not set to CLOSED.
ServerGone(s) ==
    /\ state[s] # "none" /\ s \notin gone
    /\ gone' = gone \union {s}
    /\ clock' = [clock EXCEPT ![s] = "off"]
    /\ toServer' = [toServer EXCEPT ![s] = <<>>]
    /\ UNCHANGED <<state, checking, toClient, client, ws, mute>>

FallSilent(s) ==
    /\ ws[s] = "open" /\ s \notin mute
    /\ mute' = mute \union {s}
    /\ UNCHANGED <<server, toClient, client, ws, toServer>>

Next ==
    \/ Connect \/ Retry \/ Disconnect \/ Tick \/ Timeout
    \/ \E s \in Socks : Opened(s) \/ Closed(s) \/ Receive(s)
    \/ \E s \in Socks : Accept(s) \/ Serve(s) \/ ServerStep(s) \/ Push(s) \/ ServerGone(s) \/ FallSilent(s)

Spec == Init /\ [][Next]_vars

\* Timers fire.  A connection attempt ends, a closing socket closes (ws waits
\* 30 s for the peer), packages arrive over a link that is not silent, and
\* userHandshake() is settled.
FairSpec ==
    /\ Spec
    /\ WF_vars(Retry) /\ WF_vars(Tick) /\ WF_vars(Timeout)
    /\ \A s \in Socks :
          /\ WF_vars((ws[s] \in {"connecting", "closing"} \/ ((state[s] = "closed" \/ s \in gone) /\ s \notin mute)) /\ Closed(s))
          /\ WF_vars(Receive(s)) /\ WF_vars(Serve(s))
          /\ WF_vars((checking[s] > 0 \/ clock[s] # "off") /\ ServerStep(s))

-----------------------------------------------------------------------------
TypeOK ==
    /\ ServerTypeOK
    /\ ws \in [Socks -> {"none", "connecting", "open", "closing", "closed"}]
    /\ made \in 0 .. MaxConns /\ cur \in 0 .. made
    /\ {option, isClosed, reconnect, retry, fresh} \subseteq BOOLEAN
    /\ attempts \in 0 .. MaxAttempts /\ refusals \in 0 .. MaxAttempts
    /\ cclock \in {"off", "tick", "wait"}
    /\ promise \in {"none", "pending", "ok", "refused"}
    /\ gone \subseteq Socks /\ mute \subseteq Socks

\* However timers, failures and disconnect() interleave, one call of connect()
\* has at most one connection open or opening.  (socket.ts connect, onclose)
OneConnection ==
    \A s, t \in Socks : {ws[s], ws[t]} \subseteq {"connecting", "open"} => s = t

\* The retries end.  They are one more than the option maxReconnectAttempts says
\* (the first socket, its MaxAttempts reconnections and another): the count of
\* attempts starts again once, when the first reconnection closes the socket
\* before it, and never after.  (socket.ts connect, close, isClosed)
AttemptsBounded == made <= MaxAttempts + 2

\* The server keeps a heartbeat clock only for a socket that works and has not
\* gone, whoever closes it and whenever.  (heartbeat.ts handle, clearClientTick)
ClockOwned == \A s \in Socks : clock[s] # "off" => state[s] = "working" /\ s \notin gone

\* Client and server agree on one connection that is tried, watched and left.
\* (client-websocket socket.ts; heartbeat.ts)
ConnectionSound == TypeOK /\ OneConnection /\ AttemptsBounded /\ ClockOwned

\* Without the reconnect option a call of connect() is settled, unless the
\* link falls silent: before the first heartbeat nothing watches it.
ConnectSettles ==
    ~option /\ promise = "pending" ~> promise # "pending" \/ mute # {}

\* A client that has fallen silent is disconnected.  (heartbeat.ts handle)
SilentClientDropped ==
    \A s \in Socks : s \in mute /\ state[s] = "working" ~> state[s] = "closed" \/ s \in gone

\* A client whose clock runs gives up a server that has fallen silent, as long
\* as it has not reconnected before.  (socket.ts onMessage, heartbeat.next)
SilentServerDropped ==
    \A s \in Socks : s \in mute /\ s = cur /\ cclock # "off" /\ ~isClosed ~> ws[s] # "open"

\* Either end gives up a peer that has fallen silent. (heartbeat.ts, tick.ts)
SilentPeersDropped == SilentClientDropped /\ SilentServerDropped
=============================================================================
