-------------------------- MODULE ConnectionProofs --------------------------
(***************************************************************************)
(* Proofs about the WebSocket client and the server's ends of its sockets, *)
(* for every limit of attempts: one connection at a time, a bounded number *)
(* of sockets, and a heartbeat clock only where a socket works.            *)
(***************************************************************************)
EXTENDS WSConnection, TLAPS

USE SocksAreNumbered DEF MaxConns

-----------------------------------------------------------------------------
(* The inductive invariant.                                                *)

\* Only the socket made last can be anything but closed.
LatestOnly ==
    \A s \in Socks :
        /\ s > made => ws[s] = "none"
        /\ ws[s] \notin {"none", "closed"} => s = made

\* Before connect() there is nothing.
Untouched ==
    promise = "none" =>
        /\ made = 0 /\ cur = 0 /\ attempts = 0
        /\ ~isClosed /\ ~reconnect /\ cclock = "off"

\* The field socket is the last socket, until close() clears it.
CurrentIsLast ==
    /\ cur \in {0, made}
    /\ ~isClosed => cur = made

\* While the reconnect timer runs no socket is left.
RetryIsAlone ==
    retry => reconnect /\ \A s \in Socks : ws[s] \in {"none", "closed"}

\* How many sockets were made, as long as there may be more: the attempts have
\* been counted once for the first socket, and from 0 again for the others.
MadeCounted ==
    /\ made <= MaxAttempts + 2
    /\ reconnect =>
          IF isClosed
          THEN made + (IF retry THEN 1 ELSE 0) = attempts + 2
          ELSE made = 1 /\ attempts = IF retry THEN 1 ELSE 0

ClientInv ==
    /\ ws \in [Socks -> {"none", "connecting", "open", "closing", "closed"}]
    /\ made \in 0 .. MaxConns /\ cur \in 0 .. made
    /\ option \in BOOLEAN /\ isClosed \in BOOLEAN /\ reconnect \in BOOLEAN
    /\ retry \in BOOLEAN /\ fresh \in BOOLEAN
    /\ attempts \in 0 .. MaxAttempts /\ refusals \in 0 .. MaxAttempts
    /\ cclock \in {"off", "tick", "wait"}
    /\ promise \in {"none", "pending", "ok", "refused"}
    /\ LatestOnly /\ Untouched /\ CurrentIsLast /\ RetryIsAlone /\ MadeCounted

ServerInv ==
    /\ ServerTypeOK
    /\ gone \subseteq Socks /\ mute \subseteq Socks
    /\ ClockOwned

IInv == ClientInv /\ ServerInv

LEMMA ClientKept == ClientInv /\ UNCHANGED <<client, ws>> => ClientInv'
BY DEF ClientInv, LatestOnly, Untouched, CurrentIsLast, RetryIsAlone, MadeCounted, client

LEMMA ServerKept == ServerInv /\ UNCHANGED <<server, mute>> => ServerInv'
BY DEF ServerInv, ServerTypeOK, ClockOwned, server

LEMMA InitSound == Init => IInv
<1> SUFFICES ASSUME Init PROVE ClientInv /\ ServerInv
    BY DEF IInv
<1>1. ServerInv
    BY DEF Init, ServerInit, ServerInv, ServerTypeOK, ClockOwned
<1>2. LatestOnly /\ Untouched /\ CurrentIsLast /\ RetryIsAlone
    BY DEF Init, LatestOnly, Untouched, CurrentIsLast, RetryIsAlone
<1>3. MadeCounted
    BY DEF Init, MadeCounted
<1>4. /\ made \in 0 .. MaxConns /\ cur \in 0 .. made /\ attempts \in 0 .. MaxAttempts /\ refusals \in 0 .. MaxAttempts
      /\ ws \in [Socks -> {"none", "connecting", "open", "closing", "closed"}]
    BY DEF Init
<1>5. /\ option \in BOOLEAN /\ isClosed \in BOOLEAN /\ reconnect \in BOOLEAN
      /\ retry \in BOOLEAN /\ fresh \in BOOLEAN
    BY DEF Init
<1>6. cclock \in {"off", "tick", "wait"} /\ promise \in {"none", "pending", "ok", "refused"}
    BY DEF Init
<1> QED BY <1>1, <1>2, <1>3, <1>4, <1>5, <1>6 DEF ClientInv

-----------------------------------------------------------------------------
(* The client.                                                             *)

\* A socket is made for connect() and for the reconnect timer only: when
\* nothing was made, or no socket is left and the attempts allow one.
LEMMA MakeSocketSound ==
    ASSUME ClientInv, MakeSocket, retry \/ promise = "none", promise' # "none",
           promise' \in {"none", "pending", "ok", "refused"}
    PROVE  ClientInv'
<1> DEFINE Typed == /\ ws \in [Socks -> {"none", "connecting", "open", "closing", "closed"}]
                    /\ made \in 0 .. MaxConns /\ cur \in 0 .. made
                    /\ option \in BOOLEAN /\ isClosed \in BOOLEAN /\ reconnect \in BOOLEAN
                    /\ retry \in BOOLEAN /\ fresh \in BOOLEAN
                    /\ attempts \in 0 .. MaxAttempts /\ refusals \in 0 .. MaxAttempts
                    /\ cclock \in {"off", "tick", "wait"}
                    /\ promise \in {"none", "pending", "ok", "refused"}
<1>1. Typed /\ LatestOnly /\ Untouched /\ CurrentIsLast /\ RetryIsAlone /\ MadeCounted
    BY DEF ClientInv
<1>2. \A s \in Socks : ws[s] \in {"none", "closed"}
    BY <1>1 DEF RetryIsAlone, Untouched, LatestOnly
<1>3. made + 1 \in Socks
    BY <1>1 DEF MakeSocket
<1>4. ws' = [ws EXCEPT ![made + 1] = "connecting"]
    BY <1>1, <1>2, <1>3 DEF MakeSocket, Closing
<1>5. /\ made' = made + 1 /\ cur' = made + 1 /\ retry' = FALSE /\ reconnect' = option /\ option' = option
      /\ fresh' = fresh /\ refusals' = refusals
      /\ isClosed' = (isClosed \/ (cur # 0 /\ ~isClosed))
      /\ cclock' = IF cur # 0 /\ ~isClosed THEN "off" ELSE cclock
      /\ attempts' = IF cur # 0 /\ ~isClosed THEN 0 ELSE attempts
    BY DEF MakeSocket
<1>6. Typed'
    <2>1. /\ made' \in 0 .. MaxConns /\ cur' \in 0 .. made' /\ attempts' \in 0 .. MaxAttempts
          /\ isClosed' \in BOOLEAN /\ cclock' \in {"off", "tick", "wait"}
        BY <1>1, <1>3, <1>5
    <2>2. ws' \in [Socks -> {"none", "connecting", "open", "closing", "closed"}]
        BY <1>1, <1>3, <1>4
    <2> QED BY <1>1, <1>5, <2>1, <2>2
<1>7. LatestOnly'
    BY <1>1, <1>2, <1>3, <1>4, <1>5 DEF LatestOnly
<1>8. Untouched' /\ CurrentIsLast' /\ RetryIsAlone'
    BY <1>1, <1>5 DEF Untouched, CurrentIsLast, RetryIsAlone
<1>9. MadeCounted'
    <2>1. CASE retry
        BY <1>1, <1>5, <2>1 DEF MadeCounted, RetryIsAlone, CurrentIsLast
    <2>2. CASE promise = "none"
        BY <1>1, <1>5, <2>2 DEF MadeCounted, Untouched
    <2> QED BY <2>1, <2>2
<1> QED BY <1>6, <1>7, <1>8, <1>9 DEF ClientInv

LEMMA CloseClientSound ==
    ASSUME ClientInv, CloseClient, promise # "none",
           UNCHANGED <<option, made, fresh, promise, refusals>>
    PROVE  ClientInv'
<1>1. CASE isClosed
    BY <1>1, ClientKept DEF CloseClient, client, ClientInv
<1>2. CASE ~isClosed
    <2>1. /\ isClosed' = TRUE /\ cur' = 0 /\ cclock' = "off"
          /\ reconnect' = FALSE /\ attempts' = 0 /\ retry' = FALSE
          /\ ws' = IF cur = 0 THEN ws ELSE [ws EXCEPT ![cur] = Closing(cur)]
        BY <1>2 DEF CloseClient, ReconnectReset
    <2>2. /\ ws' \in [Socks -> {"none", "connecting", "open", "closing", "closed"}]
          /\ \A s \in Socks : (ws'[s] = "none") = (ws[s] = "none") /\ (ws'[s] = "closed") = (ws[s] = "closed")
        BY <2>1 DEF ClientInv, Closing
    <2>3. LatestOnly'
        BY <2>2 DEF ClientInv, LatestOnly
    <2>4. Untouched' /\ CurrentIsLast' /\ RetryIsAlone' /\ MadeCounted'
        BY <2>1 DEF ClientInv, Untouched, CurrentIsLast, RetryIsAlone, MadeCounted
    <2>5. 0 \in 0 .. made /\ 0 \in 0 .. MaxAttempts
        BY DEF ClientInv
    <2> QED BY <2>1, <2>2, <2>3, <2>4, <2>5 DEF ClientInv
<1> QED BY <1>1, <1>2

LEMMA OpenedSound ==
    ASSUME ClientInv, NEW s \in Socks, Opened(s)
    PROVE  ClientInv'
<1>1. /\ ws' = [ws EXCEPT ![s] = "open"] /\ ws[s] = "connecting"
      /\ reconnect' = FALSE /\ attempts' = 0 /\ retry' = FALSE
      /\ UNCHANGED <<option, made, cur, isClosed, cclock, fresh, promise, refusals>>
    BY DEF Opened, ReconnectReset
<1>2. /\ ws' \in [Socks -> {"none", "connecting", "open", "closing", "closed"}]
      /\ LatestOnly'
    BY <1>1 DEF ClientInv, LatestOnly
<1>3. Untouched' /\ CurrentIsLast' /\ RetryIsAlone' /\ MadeCounted'
    BY <1>1 DEF ClientInv, Untouched, CurrentIsLast, RetryIsAlone, MadeCounted
<1>4. 0 \in 0 .. MaxAttempts
    OBVIOUS
<1> QED BY <1>1, <1>2, <1>3, <1>4 DEF ClientInv

\* The socket that closes is the last one, so that the timer finds none left.
LEMMA ClosedSound ==
    ASSUME ClientInv, NEW s \in Socks, Closed(s)
    PROVE  ClientInv'
<1>1. /\ ws' = [ws EXCEPT ![s] = "closed"] /\ s = made /\ promise # "none" /\ ~retry
      /\ ws[s] \in {"connecting", "open", "closing"}
      /\ UNCHANGED <<option, made, cur, isClosed, cclock, fresh>>
    BY DEF Closed, ClientInv, LatestOnly, Untouched, RetryIsAlone
<1>2. /\ ws' \in [Socks -> {"none", "connecting", "open", "closing", "closed"}]
      /\ \A t \in Socks : ws'[t] \in {"none", "closed"} /\ (t > made => ws'[t] = "none")
    BY <1>1 DEF ClientInv, LatestOnly
<1>3. LatestOnly'
    BY <1>1, <1>2 DEF LatestOnly
<1>4. /\ promise' \in {"pending", "ok", "refused"} /\ refusals' \in 0 .. MaxAttempts
      /\ \/ /\ reconnect /\ reconnect' = reconnect
            /\ attempts < MaxAttempts /\ attempts' = attempts + 1 /\ retry' = TRUE
         \/ reconnect' = FALSE /\ attempts' = 0 /\ retry' = FALSE
    BY <1>1 DEF Closed, ReconnectReset, ClientInv
<1>5. Untouched' /\ CurrentIsLast' /\ RetryIsAlone' /\ MadeCounted'
    BY <1>1, <1>2, <1>4 DEF ClientInv, Untouched, CurrentIsLast, RetryIsAlone, MadeCounted
<1>6. attempts \in 0 .. MaxAttempts /\ reconnect \in BOOLEAN /\ retry \in BOOLEAN
    BY DEF ClientInv
<1>7. attempts' \in 0 .. MaxAttempts
    BY <1>4, <1>6
<1>8. reconnect' \in BOOLEAN /\ retry' \in BOOLEAN
    BY <1>4, <1>6
<1> QED BY <1>1, <1>2, <1>3, <1>4, <1>5, <1>7, <1>8 DEF ClientInv

LEMMA ReceiveSound ==
    ASSUME ClientInv, NEW s \in Socks, Receive(s)
    PROVE  ClientInv'
<1>1. promise # "none" /\ promise' # "none"
    BY DEF Receive, ClientInv, LatestOnly, Untouched
<1>2. fresh' \in BOOLEAN
    BY DEF Receive
<1> QED BY <1>1, <1>2 DEF Receive, ClientInv, LatestOnly, Untouched, CurrentIsLast, RetryIsAlone, MadeCounted

LEMMA TimersSound == ClientInv /\ (Tick \/ Timeout) => ClientInv'
<1>1. ASSUME ClientInv, Tick PROVE ClientInv'
    BY <1>1 DEF Tick, ClientInv, LatestOnly, Untouched, CurrentIsLast, RetryIsAlone, MadeCounted
<1>2. ASSUME ClientInv, Timeout PROVE ClientInv'
    <2>0. promise # "none"
        BY <1>2 DEF Timeout, ClientInv, Untouched
    <2>1. CASE CloseClient /\ UNCHANGED fresh
        BY <1>2, <2>0, <2>1, CloseClientSound DEF Timeout
    <2>2. CASE /\ fresh' \in BOOLEAN /\ cclock' \in {"off", "wait"}
               /\ UNCHANGED <<cur, isClosed, ws, reconnect, attempts, retry>>
        BY <1>2, <2>0, <2>2 DEF Timeout, ClientInv, LatestOnly, Untouched, CurrentIsLast, RetryIsAlone, MadeCounted
    <2> QED BY <1>2, <2>1, <2>2 DEF Timeout, ClientInv
<1> QED BY <1>1, <1>2

-----------------------------------------------------------------------------
(* The server.                                                             *)

LEMMA ServeSound ==
    ASSUME ServerInv, NEW s \in Socks, Serve(s)
    PROVE  ServerInv'
<1>1. CASE OnHandshake(s)
    BY <1>1 DEF Serve, OnHandshake, ServerInv, ServerTypeOK, ClockOwned
<1>2. CASE OnAck(s)
    BY <1>2 DEF Serve, OnAck, Beat, ServerInv, ServerTypeOK, ClockOwned
<1>3. CASE OnHeartbeat(s)
    BY <1>3 DEF Serve, OnHeartbeat, Beat, ServerInv, ServerTypeOK, ClockOwned
<1> QED BY <1>1, <1>2, <1>3 DEF Serve

LEMMA ServerStepSound ==
    ASSUME ServerInv, NEW s \in Socks, ServerStep(s)
    PROVE  ServerInv'
<1>1. CASE HandshakeAccepted(s)
    BY <1>1 DEF ServerStep, HandshakeAccepted, ServerInv, ServerTypeOK, ClockOwned
<1>2. CASE HandshakeRefused(s)
    BY <1>2 DEF ServerStep, HandshakeRefused, ServerInv, ServerTypeOK, ClockOwned
<1>3. CASE ClockTick(s)
    BY <1>3 DEF ServerStep, ClockTick, ServerInv, ServerTypeOK, ClockOwned
<1>4. CASE CloseSocket(s)
    BY <1>4 DEF ServerStep, CloseSocket, ServerInv, ServerTypeOK, ClockOwned
<1> QED BY <1>1, <1>2, <1>3, <1>4 DEF ServerStep, ClockTimeout

LEMMA TransportSound ==
    ASSUME ServerInv, NEW s \in Socks, Accept(s) \/ ServerGone(s) \/ FallSilent(s)
    PROVE  ServerInv'
<1>1. CASE Accept(s)
    BY <1>1 DEF Accept, ServerInv, ServerTypeOK, ClockOwned
<1>2. CASE ServerGone(s)
    BY <1>2 DEF ServerGone, ServerInv, ServerTypeOK, ClockOwned
<1>3. CASE FallSilent(s)
    BY <1>3 DEF FallSilent, server, ServerInv, ServerTypeOK, ClockOwned
<1> QED BY <1>1, <1>2, <1>3

-----------------------------------------------------------------------------
LEMMA StepSound == IInv /\ [Next]_vars => IInv'
<1> SUFFICES ASSUME ClientInv, ServerInv, [Next]_vars PROVE ClientInv' /\ ServerInv'
    BY DEF IInv
<1>1. CASE Connect \/ Retry
    <2>1. promise' # "none" /\ promise' \in {"none", "pending", "ok", "refused"}
        BY <1>1 DEF Connect, Retry, ClientInv, RetryIsAlone, Untouched
    <2>2. ClientInv'
        BY <1>1, <2>1, MakeSocketSound DEF Connect, Retry
    <2> QED BY <1>1, <2>2, ServerKept DEF Connect, Retry, MakeSocket
<1>2. CASE Disconnect
    BY <1>2, CloseClientSound, ServerKept DEF Disconnect
<1>3. CASE Tick \/ Timeout
    BY <1>3, TimersSound, ServerKept DEF Tick, Timeout
<1>4. ASSUME NEW s \in Socks, Opened(s) \/ Closed(s) \/ Receive(s) PROVE ClientInv' /\ ServerInv'
    BY <1>4, OpenedSound, ClosedSound, ReceiveSound, ServerKept DEF Opened, Closed, Receive
<1>5. ASSUME NEW s \in Socks, Accept(s) \/ Serve(s) \/ ServerStep(s) \/ Push(s) \/ ServerGone(s) \/ FallSilent(s)
      PROVE  ClientInv' /\ ServerInv'
    <2>1. ClientInv'
        BY <1>5, ClientKept DEF Accept, Serve, ServerStep, Push, ServerGone, FallSilent
    <2>2. CASE Push(s)
        BY <2>1, <2>2, ServerKept DEF Push
    <2> QED BY <1>5, <2>1, <2>2, ServeSound, ServerStepSound, TransportSound
<1>6. CASE UNCHANGED vars
    BY <1>6, ClientKept, ServerKept DEF vars
<1> QED BY <1>1, <1>2, <1>3, <1>4, <1>5, <1>6 DEF Next

\* The invariant holds in every state of client and server.  (client-websocket
\* socket.ts; server heartbeat.ts, wsSocket.ts)
THEOREM Invariance == Spec => []IInv
BY InitSound, StepSound, PTL DEF Spec

\* For every limit of attempts, and however timers, failures, disconnect() and
\* a silent link interleave: at most one connection is open or opening, at
\* most MaxAttempts + 2 sockets are made, and the server watches only sockets
\* that work.  (client-websocket socket.ts; server heartbeat.ts)
THEOREM ConnectionCorrect == Spec => []ConnectionSound
<1>1. IInv => TypeOK
    BY DEF IInv, ClientInv, ServerInv, TypeOK
<1>2. IInv => OneConnection
    <2> SUFFICES ASSUME IInv, NEW s \in Socks, NEW t \in Socks,
                        {ws[s], ws[t]} \subseteq {"connecting", "open"}
                 PROVE  s = t
        BY DEF OneConnection
    <2>1. ws[s] \notin {"none", "closed"} /\ ws[t] \notin {"none", "closed"}
        OBVIOUS
    <2> QED BY <2>1 DEF IInv, ClientInv, LatestOnly
<1>3. IInv => AttemptsBounded /\ ClockOwned
    BY DEF IInv, ClientInv, ServerInv, MadeCounted, AttemptsBounded
<1> QED BY <1>1, <1>2, <1>3, Invariance, PTL DEF ConnectionSound
=============================================================================
