---------------------------- MODULE ServerSocket ----------------------------
(***************************************************************************)
(* The server's side of a client connection, as the WebSocket and the UDP  *)
(* connector share it: the socket states, the awaited user handshake and   *)
(* the heartbeat clock of each socket.  The modules that instantiate this  *)
(* one add the client and the network between them.                        *)
(* Heartbeats are configured (the UDP connector always does).              *)
(***************************************************************************)
EXTENDS Naturals

CONSTANTS
    Socks,       \* connections of a WebSocket server, addresses of a UDP server
    Put(_, _)    \* what is under way once one more package is sent

VARIABLES
    state,       \* [Socks -> "none", "inited", "wait_ack", "working", "closed"]
    checking,    \* [Socks -> Nat]: calls of userHandshake being awaited
    clock,       \* [Socks -> "off", "tick", "wait"]: Tick's interval, then its timeout
    gone,        \* the sockets whose transport has closed: what is sent there is lost
    toClient     \* for each socket, what is under way to the client

ServerInit ==
    /\ state = [s \in Socks |-> "none"]
    /\ checking = [s \in Socks |-> 0]
    /\ clock = [s \in Socks |-> "off"]

ServerTypeOK ==
    /\ state \in [Socks -> {"none", "inited", "wait_ack", "working", "closed"}]
    /\ checking \in [Socks -> Nat]
    /\ clock \in [Socks -> {"off", "tick", "wait"}]

Sent(s, type) ==
    IF s \in gone THEN toClient ELSE [toClient EXCEPT ![s] = Put(@, type)]

\* HANDSHAKE: only the state at its arrival is looked at, so that several may
\* be awaited at the same time.
OnHandshake(s) ==
    /\ checking' = [checking EXCEPT ![s] = IF state[s] = "inited" THEN @ + 1 ELSE @]
    /\ UNCHANGED <<state, clock, gone, toClient>>

\* userHandshake() is fulfilled: handshakeResponse().
HandshakeAccepted(s) ==
    /\ checking[s] > 0
    /\ checking' = [checking EXCEPT ![s] = @ - 1]
    /\ \/ /\ state[s] = "inited"
          /\ state' = [state EXCEPT ![s] = "wait_ack"]
          /\ toClient' = Sent(s, "handshake")
       \/ /\ state[s] # "inited"
          /\ UNCHANGED <<state, toClient>>
    /\ UNCHANGED <<clock, gone>>

\* The client is too old, or userHandshake() is rejected: processError() sends
\* the refusal and closes the socket in the next tick, before anything else.
HandshakeRefused(s) ==
    /\ checking[s] > 0 /\ state[s] # "closed"
    /\ checking' = [checking EXCEPT ![s] = 0]
    /\ state' = [state EXCEPT ![s] = "closed"]
    /\ clock' = [clock EXCEPT ![s] = "off"]
    /\ toClient' = Sent(s, "refused")
    /\ UNCHANGED gone

\* HEARTBEAT, also emitted for the ACK: answer it and restart the clock.
Beat(s) ==
    /\ clock' = [clock EXCEPT ![s] = "tick"]
    /\ toClient' = Sent(s, "heartbeat")
    /\ UNCHANGED <<checking, gone>>

OnAck(s) ==
    \/ /\ state[s] = "wait_ack"
       /\ state' = [state EXCEPT ![s] = "working"]
       /\ Beat(s)
    \/ /\ state[s] # "wait_ack"
       /\ UNCHANGED <<state, checking, clock, gone, toClient>>

OnHeartbeat(s) ==
    \/ /\ state[s] = "working"
       /\ Beat(s)
       /\ UNCHANGED state
    \/ /\ state[s] # "working"
       /\ UNCHANGED <<state, checking, clock, gone, toClient>>

\* The interval of the clock ends and its timeout starts.
ClockTick(s) ==
    /\ clock[s] = "tick"
    /\ clock' = [clock EXCEPT ![s] = "wait"]
    /\ UNCHANGED <<state, checking, gone, toClient>>

\* close(): DISCONNECT is emitted, which clears the clock.
CloseSocket(s) ==
    /\ state[s] \in {"inited", "wait_ack", "working"}
    /\ state' = [state EXCEPT ![s] = "closed"]
    /\ clock' = [clock EXCEPT ![s] = "off"]
    /\ UNCHANGED <<checking, gone, toClient>>

\* Mutant: the timeout is only logged.
ClockTimeoutLogs(s) ==
    /\ clock[s] = "wait"
    /\ clock' = [clock EXCEPT ![s] = "off"]
    /\ UNCHANGED <<state, checking, gone, toClient>>

ClockTimeout(s) == clock[s] = "wait" /\ CloseSocket(s)
=============================================================================
