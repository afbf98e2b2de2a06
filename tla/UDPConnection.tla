---------------------------- MODULE UDPConnection ----------------------------
(***************************************************************************)
(* A UDP client and the server's table entry for its address.  Packages    *)
(* may be lost (stay under way for ever) and overtake each other.          *)
(* Handshakes are repeated with a growing delay until one is answered or   *)
(* the attempts are used up.                                               *)
(***************************************************************************)
EXTENDS Naturals

CONSTANTS
    Address,
    MaxAttempts      \* the option maxReconnectAttempts

ASSUME AttemptsAssumption == MaxAttempts \in Nat \ {0}

Socks == {Address}

VARIABLES
    state, checking, clock, toClient,   \* of ServerSocket
    sock,        \* the client's socket: "none", "open", "closed"
    attempts, retry,    \* handshakes sent, and the timer for the next one
    cclock, fresh,      \* heartbeat: as clock; a package came during the timeout
    promise,     \* of Client.connect()
    refused,     \* history: a handshake was refused
    toServer     \* packages under way

AnyOrder(q, type) == q \union {type}
INSTANCE ServerSocket WITH Put <- AnyOrder, gone <- {}

server == <<state, checking, clock>>
client == <<sock, attempts, retry, cclock, fresh, promise, refused>>
wire == <<toClient, toServer>>
vars == <<server, client, wire>>

Init ==
    /\ ServerInit
    /\ sock = "none" /\ promise = "none" /\ refused = FALSE
    /\ attempts = 0 /\ retry = FALSE
    /\ cclock = "off" /\ fresh = FALSE
    /\ toClient = [s \in Socks |-> {}]
    /\ toServer = {}

-----------------------------------------------------------------------------
\* The client's socket

Say(type) == IF sock = "open" THEN toServer \union {type} ELSE toServer

\* close(), while it is open: DISCONNECT is emitted and refuses the promise.
CloseClient ==
    /\ sock' = "closed"
    /\ attempts' = 0 /\ retry' = FALSE
    /\ cclock' = "off"
    /\ promise' = IF promise = "pending" THEN "refused" ELSE promise

\* Mutant: after the last attempt the client just stops trying.
TryToConnectOnly ==
    /\ toServer' = toServer \union {"handshake"}
    /\ attempts' = IF attempts < MaxAttempts THEN attempts + 1 ELSE attempts
    /\ retry' = (attempts < MaxAttempts)
    /\ sock' = "open"
    /\ promise' = IF promise = "none" THEN "pending" ELSE promise
    /\ UNCHANGED cclock

\* Mutant: the attempts are counted and not compared.
TryToConnectOn ==
    /\ toServer' = toServer \union {"handshake"}
    /\ attempts < MaxAttempts + 1
    /\ attempts' = attempts + 1 /\ retry' = TRUE
    /\ sock' = "open"
    /\ promise' = IF promise = "none" THEN "pending" ELSE promise
    /\ UNCHANGED cclock

\* tryToConnect(), which connect() calls first and makes the promise; the
\* attempt after the last one closes the client.
TryToConnect ==
    /\ toServer' = toServer \union {"handshake"}
    /\ \/ /\ attempts < MaxAttempts
          /\ attempts' = attempts + 1 /\ retry' = TRUE
          /\ sock' = "open"
          /\ promise' = IF promise = "none" THEN "pending" ELSE promise
          /\ UNCHANGED cclock
       \/ /\ attempts >= MaxAttempts
          /\ CloseClient

Connect ==
    /\ sock = "none"
    /\ TryToConnect
    /\ UNCHANGED <<fresh, refused, server, toClient>>

Retry ==
    /\ retry
    /\ TryToConnect
    /\ UNCHANGED <<fresh, refused, server, toClient>>

Disconnect ==
    /\ sock = "open"
    /\ CloseClient
    /\ UNCHANGED <<fresh, refused, server, wire>>

\* Mutant: a kicked client leaves the heartbeat running.
KickedTicking(type) ==
    /\ type = "kick"
    /\ sock' = "closed" /\ attempts' = 0 /\ retry' = FALSE /\ promise' = promise
    /\ fresh' = FALSE
    /\ UNCHANGED <<cclock, refused, toServer>>

Kicked(type) ==
    /\ type = "kick"
    /\ CloseClient
    /\ fresh' = FALSE
    /\ UNCHANGED <<refused, toServer>>

\* onMessage() of the socket; a refusal stops the attempts and nothing more.
Receive(type) ==
    /\ sock = "open" /\ type \in toClient[Address]
    /\ toClient' = [toClient EXCEPT ![Address] = @ \ {type}]
    /\ \/ /\ type \in {"handshake", "refused"}
          /\ attempts' = 0 /\ retry' = FALSE
          /\ toServer' = IF type = "handshake" THEN Say("ack") ELSE toServer
          /\ promise' = IF type = "handshake" /\ promise = "pending" THEN "ok" ELSE promise
          /\ refused' = (refused \/ type = "refused")
          /\ fresh' = (cclock = "wait")
          /\ UNCHANGED <<sock, cclock>>
       \/ /\ type = "heartbeat"
          /\ cclock' = "tick" /\ fresh' = FALSE
          /\ UNCHANGED <<sock, attempts, retry, promise, refused, toServer>>
       \/ Kicked(type)
    /\ UNCHANGED server

Tick ==
    /\ cclock = "tick"
    /\ cclock' = "wait" /\ fresh' = FALSE
    /\ toServer' = Say("heartbeat")
    /\ UNCHANGED <<sock, attempts, retry, promise, refused, server, toClient>>

Timeout ==
    /\ cclock = "wait"
    /\ \/ /\ fresh
          /\ fresh' = FALSE
          /\ UNCHANGED <<sock, attempts, retry, cclock, promise>>
       \/ /\ ~fresh
          /\ CloseClient
          /\ UNCHANGED fresh
    /\ UNCHANGED <<refused, server, wire>>

-----------------------------------------------------------------------------
\* The server: a package from an address without an entry makes one, which a
\* late heartbeat of a client that was dropped does too.

Appears == state[Address] \in {"none", "closed"}

\* onConnection(): what the old entry still awaits has no effect.
Arrive(type) ==
    /\ Appears
    /\ state' = [state EXCEPT ![Address] = "inited"]
    /\ checking' = [checking EXCEPT ![Address] = IF type = "handshake" THEN 1 ELSE 0]
    /\ UNCHANGED <<clock, toClient>>

Serve(type) ==
    /\ type \in toServer
    /\ toServer' = toServer \ {type}
    /\ \/ Arrive(type)
       \/ ~Appears /\ type = "handshake" /\ OnHandshake(Address)
       \/ ~Appears /\ type = "ack" /\ OnAck(Address)
       \/ ~Appears /\ type = "heartbeat" /\ OnHeartbeat(Address)
    /\ UNCHANGED client

\* KICK is sent before the session closes the socket.
Kick ==
    /\ state[Address] = "working"
    /\ state' = [state EXCEPT ![Address] = "closed"]
    /\ clock' = [clock EXCEPT ![Address] = "off"]
    /\ toClient' = Sent(Address, "kick")
    /\ UNCHANGED <<checking, client, toServer>>

ServerStep ==
    /\ \E s \in Socks :
          HandshakeAccepted(s) \/ HandshakeRefused(s) \/ ClockTick(s) \/ ClockTimeout(s) \/ CloseSocket(s)
    /\ UNCHANGED <<client, toServer>>

Next ==
    \/ Connect \/ Retry \/ Disconnect \/ Tick \/ Timeout
    \/ \E type \in {"handshake", "refused", "heartbeat", "kick"} : Receive(type)
    \/ \E type \in {"handshake", "ack", "heartbeat"} : Serve(type)
    \/ Kick \/ ServerStep

Spec == Init /\ [][Next]_vars

\* Timers fire; nothing is assumed of the network.
FairSpec ==
    /\ Spec
    /\ WF_vars(Retry) /\ WF_vars(Tick) /\ WF_vars(Timeout)
    /\ WF_vars(clock[Address] # "off" /\ ServerStep)

-----------------------------------------------------------------------------
TypeOK ==
    /\ ServerTypeOK
    /\ sock \in {"none", "open", "closed"}
    /\ promise \in {"none", "pending", "ok", "refused"}
    /\ attempts \in 0 .. MaxAttempts /\ {retry, fresh, refused} \subseteq BOOLEAN
    /\ cclock \in {"off", "tick", "wait"}
    /\ toClient[Address] \subseteq {"handshake", "refused", "heartbeat", "kick"}
    /\ toServer \subseteq {"handshake", "ack", "heartbeat"}

\* A closed client has no timer left that would send again, and the server's
\* clock runs only for a working socket.  (udpSocket.ts close, heartbeat.ts)
ClosedIsQuiet ==
    /\ sock = "closed" => ~retry /\ cclock = "off"
    /\ clock[Address] # "off" => state[Address] = "working"

\* What is closed sends nothing and is not watched. (udpSocket.ts, heartbeat.ts)
UDPSound == TypeOK /\ ClosedIsQuiet

\* connect() ends, in a connection or refused, over any network, unless the
\* server refused the handshake: then nothing is tried and nothing told.
ConnectSettles == promise = "pending" ~> promise # "pending" \/ refused

\* The server drops the entry of a client that has gone.  (heartbeat.ts)
GoneClientDropped == sock = "closed" /\ state[Address] = "working" ~> state[Address] = "closed"

\* A connection begins or is refused, and ends, over a network that loses,
\* repeats and reorders. (udpSocket.ts tryToConnect, heartbeat.ts)
ConnectionSettles == ConnectSettles /\ GoneClientDropped
=============================================================================
