------------------------- MODULE UDPConnectionProofs -------------------------
(***************************************************************************)
(* Proofs about the UDP client and its entry at the server, for every      *)
(* limit of attempts: what is closed has no timer and is not watched.      *)
(***************************************************************************)
EXTENDS UDPConnection, TLAPS

-----------------------------------------------------------------------------
(* The inductive invariant.                                                *)

\* The client's fields; once closed it has neither of its timers.
ClientInv ==
    /\ sock \in {"none", "open", "closed"}
    /\ promise \in {"none", "pending", "ok", "refused"}
    /\ attempts \in 0 .. MaxAttempts
    /\ retry \in BOOLEAN /\ fresh \in BOOLEAN /\ refused \in BOOLEAN
    /\ cclock \in {"off", "tick", "wait"}
    /\ sock = "closed" => ~retry /\ cclock = "off"

\* The server's entry; its clock runs only while it works.
ServerInv ==
    /\ state \in [{Address} -> {"none", "inited", "wait_ack", "working", "closed"}]
    /\ checking \in [{Address} -> Nat]
    /\ clock \in [{Address} -> {"off", "tick", "wait"}]
    /\ clock[Address] # "off" => state[Address] = "working"

\* The packages under way.
WireInv ==
    /\ toClient \in [{Address} -> SUBSET {"handshake", "refused", "heartbeat", "kick"}]
    /\ toServer \in SUBSET {"handshake", "ack", "heartbeat"}

IInv == ClientInv /\ ServerInv /\ WireInv

-----------------------------------------------------------------------------
(* The steps.                                                              *)

LEMMA NoAttempts == 0 \in 0 .. MaxAttempts
BY AttemptsAssumption

LEMMA InitOK == Init => IInv
<1> SUFFICES ASSUME Init PROVE IInv
    OBVIOUS
<1>1. ClientInv
    BY NoAttempts DEF Init, ClientInv
<1>2. ServerInv
    BY DEF Init, ServerInit, Socks, ServerInv
<1>3. WireInv
    BY DEF Init, Socks, WireInv
<1> QED BY <1>1, <1>2, <1>3 DEF IInv

LEMMA ClientStepOK ==
    ASSUME IInv, \/ Connect \/ Retry \/ Disconnect \/ Tick \/ Timeout
                   \/ \E type \in {"handshake", "refused", "heartbeat", "kick"} : Receive(type)
    PROVE  IInv'
<1>1. ServerInv'
    BY DEF IInv, ServerInv, Connect, Retry, Disconnect, Tick, Timeout, Receive, server
<1>2. CASE Connect \/ Retry
    <2>1. WireInv'
        BY <1>2 DEF IInv, WireInv, Connect, Retry, TryToConnect
    <2>2. fresh' = fresh /\ refused' = refused /\ TryToConnect
        BY <1>2 DEF Connect, Retry
    <2>3. CASE attempts < MaxAttempts
        <3>1. attempts + 1 \in 0 .. MaxAttempts
            BY <2>3, AttemptsAssumption DEF IInv, ClientInv
        <3>2. /\ attempts' = attempts + 1 /\ retry' = TRUE /\ sock' = "open" /\ cclock' = cclock
              /\ promise' = IF promise = "none" THEN "pending" ELSE promise
            BY <2>2, <2>3, AttemptsAssumption DEF IInv, ClientInv, TryToConnect
        <3> QED BY <1>1, <2>1, <2>2, <3>1, <3>2 DEF IInv, ClientInv
    <2>4. CASE ~(attempts < MaxAttempts)
        <3>1. CloseClient
            BY <2>2, <2>4 DEF TryToConnect
        <3> QED BY <1>1, <2>1, <2>2, <3>1, NoAttempts DEF IInv, ClientInv, CloseClient
    <2> QED BY <2>3, <2>4
<1>3. CASE Disconnect
    BY <1>1, <1>3, NoAttempts DEF IInv, ClientInv, WireInv, Disconnect, CloseClient, wire
<1>4. CASE Tick
    BY <1>1, <1>4 DEF IInv, ClientInv, WireInv, Tick, Say
<1>5. CASE Timeout
    BY <1>1, <1>5, NoAttempts DEF IInv, ClientInv, WireInv, Timeout, CloseClient, wire
<1>6. ASSUME NEW type \in {"handshake", "refused", "heartbeat", "kick"}, Receive(type) PROVE IInv'
    <2>1. WireInv'
        BY <1>6 DEF IInv, WireInv, Receive, Kicked, Say
    <2>2. ClientInv'
        BY <1>6, NoAttempts DEF IInv, ClientInv, Receive, Kicked, CloseClient
    <2> QED BY <1>1, <2>1, <2>2 DEF IInv
<1> QED BY <1>2, <1>3, <1>4, <1>5, <1>6

LEMMA ServerStepOK ==
    ASSUME IInv, \/ Kick \/ ServerStep
                   \/ \E type \in {"handshake", "ack", "heartbeat"} : Serve(type)
    PROVE  IInv'
<1>1. ClientInv'
    BY DEF IInv, ClientInv, Kick, ServerStep, Serve, client
<1>2. CASE Kick
    BY <1>1, <1>2 DEF IInv, ServerInv, WireInv, Kick, Sent, AnyOrder, Socks
<1>3. CASE ServerStep
    BY <1>1, <1>3
    DEF IInv, ServerInv, WireInv, ServerStep, HandshakeAccepted, HandshakeRefused,
        ClockTick, ClockTimeout, CloseSocket, Sent, AnyOrder, Socks
<1>4. ASSUME NEW type \in {"handshake", "ack", "heartbeat"}, Serve(type) PROVE IInv'
    BY <1>1, <1>4
    DEF IInv, ServerInv, WireInv, Serve, Arrive, Appears, OnHandshake, OnAck,
        OnHeartbeat, Beat, Sent, AnyOrder, Socks
<1> QED BY <1>2, <1>3, <1>4

LEMMA StepOK == IInv /\ [Next]_vars => IInv'
<1>1. IInv /\ UNCHANGED vars => IInv'
    BY DEF IInv, ClientInv, ServerInv, WireInv, vars, server, client, wire
<1> QED BY <1>1, ClientStepOK, ServerStepOK DEF Next

\* For every limit of attempts, over a network that loses, repeats and
\* reorders: a closed client has no timer that would send again, and the
\* server watches a client only while its entry works.  (client-udpsocket
\* udpSocket.ts close; server heartbeat.ts)
THEOREM UDPConnectionCorrect == Spec => []UDPSound
<1>1. IInv => UDPSound
    BY DEF IInv, ClientInv, ServerInv, WireInv, UDPSound, TypeOK, ServerTypeOK,
       ClosedIsQuiet, Socks
<1> QED BY <1>1, InitOK, StepOK, PTL DEF Spec
=============================================================================
