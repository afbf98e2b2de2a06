-------------------------- MODULE FrontendSessions --------------------------
(***************************************************************************)
(* Client sessions of a frontend server: server/src/service/               *)
(* sessionService.ts and connectionService.ts with the wiring of           *)
(* component/connector.ts between a client's socket, its session and the   *)
(* connection statistics.                                                  *)
(*                                                                         *)
(* Socket events arrive one per macrotask.  Calls of the session API come  *)
(* from handlers and from RPCs of backend servers: they run in microtasks, *)
(* so they may come between InternalSession.close() and the socket.close() *)
(* it leaves to process.nextTick.  EventEmitter.once registers a listener  *)
(* that stays, hence the connector's own flag "left".                      *)
(***************************************************************************)
EXTENDS Integers, Sequences, FiniteSets

CONSTANTS
    Sids,            \* client connections; a socket and its session share the id
    Uids,            \* user ids that handlers bind
    FalsyUids,       \* those a JavaScript condition takes for "no user" (0, "")
    None,            \* undefined
    SingleSession,   \* SessionOpts.singleSession
    MaxConnections   \* ConnectorOpts.maxConnectionCount, 0 when it is not set

ASSUME SidsAssumption == IsFiniteSet(Sids)
ASSUME FalsyAssumption == FalsyUids \subseteq Uids
ASSUME NoneAssumption == None \notin Uids
ASSUME SingleAssumption == SingleSession \in BOOLEAN
ASSUME MaxAssumption == MaxConnections \in Nat

VARIABLES
    sock,          \* the client's socket
    sess,          \* InternalSession.state, "none" before the session exists
    sessions,      \* SessionService.sessions: the ids in the table
    uid,           \* InternalSession.uid, which close() does not reset
    uidMap,        \* SessionService.uidMap: uid -> sessions in the order they were bound
    left,          \* the closure variable "closed" of the connector's listeners
    connCount,     \* ConnectionService.connCount
    logined,       \* ConnectionService.logined: the keys
    loginedCount,  \* ConnectionService.loginedCount
    ticks,         \* process.nextTick callbacks: the sockets about to be closed
    kickUid,       \* the uid whose kickByUid loop is running, or None
    kickAt         \* the next index of that forEach

sessionVars == <<sess, sessions, uid, uidMap>>
countVars == <<left, connCount, logined, loginedCount>>
kickVars == <<kickUid, kickAt>>
vars == <<sock, sessionVars, countVars, ticks, kickVars>>

\* "gone": the client closed it, so DISCONNECT was emitted; "closed":
\* socket.close() was called.  Neither emits anything more.
SockStates == {"none", "open", "gone", "closed"}

TypeOK ==
    /\ sock \in [Sids -> SockStates]
    /\ sess \in [Sids -> {"none", "INITED", "CLOSED"}]
    /\ sessions \in SUBSET Sids
    /\ uid \in [Sids -> Uids \cup {None}]
    /\ uidMap \in [Uids -> Seq(Sids)]
    /\ left \in [Sids -> BOOLEAN]
    /\ connCount \in Nat
    /\ logined \in SUBSET Uids
    /\ loginedCount \in Nat
    /\ ticks \in SUBSET Sids
    /\ kickUid \in Uids \cup {None}
    /\ kickAt \in Nat \ {0}

Init ==
    /\ sock = [s \in Sids |-> "none"]
    /\ sess = [s \in Sids |-> "none"]
    /\ sessions = {}
    /\ uid = [s \in Sids |-> None]
    /\ uidMap = [u \in Uids |-> <<>>]
    /\ left = [s \in Sids |-> FALSE]
    /\ connCount = 0
    /\ logined = {}
    /\ loginedCount = 0
    /\ ticks = {}
    /\ kickUid = None
    /\ kickAt = 1

-----------------------------------------------------------------------------
Truthy(u) == u # None /\ u \notin FalsyUids

\* The sessions of a uid; a key without sessions is deleted from uidMap.
Listed(u) == {uidMap[u][i] : i \in 1..Len(uidMap[u])}

\* q without its element at index k.
Spliced(q, k) == [i \in 1..(Len(q) - 1) |-> IF i < k THEN q[i] ELSE q[i + 1]]

\* Mutant: the session stays in the list.
UnlistedKept(s, u) == uidMap

\* The lists once the loop over the list of u has removed s from it.
\* (A session is in a list at most once: NoDuplicates.)
Unlisted(s, u) ==
    IF s \in Listed(u)
    THEN [uidMap EXCEPT ![u] = Spliced(@, CHOOSE k \in 1..Len(@) : @[k] = s)]
    ELSE uidMap

\* Mutant: remove() only takes the session out of the table.
UidMapAfterRemoveKept(s) == uidMap

\* uidMap once SessionService.remove(s) has run.
UidMapAfterRemove(s) == IF uid[s] = None THEN uidMap ELSE Unlisted(s, uid[s])

\* Mutant: the count goes down whether or not the uid is logined.
RemoveLoginedUserAlways(u) ==
    /\ loginedCount' = loginedCount - 1
    /\ logined' = logined \ {u}

RemoveLoginedUser(u) ==
    /\ loginedCount' = IF u \in logined THEN loginedCount - 1 ELSE loginedCount
    /\ logined' = logined \ {u}

AddLoginedUser(u) ==
    /\ loginedCount' = IF u \in logined THEN loginedCount ELSE loginedCount + 1
    /\ logined' = logined \cup {u}

\* Mutant: the uid is not passed on.
DecreaseConnectionCountOnly(s) ==
    \/ left[s] /\ UNCHANGED countVars
    \/ /\ ~left[s]
       /\ left' = [left EXCEPT ![s] = TRUE]
       /\ connCount' = IF connCount > 0 THEN connCount - 1 ELSE 0
       /\ UNCHANGED <<logined, loginedCount>>

\* Mutant: the listeners do not share a flag.
DecreaseConnectionCountEachTime(s) ==
    /\ left' = [left EXCEPT ![s] = TRUE]
    /\ connCount' = IF connCount > 0 THEN connCount - 1 ELSE 0
    /\ \/ Truthy(uid[s]) /\ RemoveLoginedUser(uid[s])
       \/ ~Truthy(uid[s]) /\ UNCHANGED <<logined, loginedCount>>

\* The connector's DISCONNECT and ERROR listeners: the first of them counts.
DecreaseConnectionCount(s) ==
    \/ left[s] /\ UNCHANGED countVars
    \/ /\ ~left[s]
       /\ left' = [left EXCEPT ![s] = TRUE]
       /\ connCount' = IF connCount > 0 THEN connCount - 1 ELSE 0
       /\ \/ Truthy(uid[s]) /\ RemoveLoginedUser(uid[s])
          \/ ~Truthy(uid[s]) /\ UNCHANGED <<logined, loginedCount>>

\* Mutant: the session stays in the table.
CloseSessionInTable(s) ==
    /\ sess' = [sess EXCEPT ![s] = "CLOSED"]
    /\ uidMap' = UidMapAfterRemove(s)
    /\ ticks' = ticks \cup {s}
    /\ UNCHANGED <<sessions, uid>>

\* InternalSession.close() of a session that is not closed.
CloseSession(s) ==
    /\ sess' = [sess EXCEPT ![s] = "CLOSED"]
    /\ sessions' = sessions \ {s}
    /\ uidMap' = UidMapAfterRemove(s)
    /\ ticks' = ticks \cup {s}
    /\ UNCHANGED uid

\* kickByUid and everything else here is synchronous: nothing runs inside it.
Idle == kickUid = None
Macrotask == Idle /\ ticks = {}

-----------------------------------------------------------------------------
(* Socket events.                                                          *)

\* CONNECTION: only a server with a limit counts its connections.
ConnectionAccepted(s) ==
    /\ Macrotask /\ sock[s] = "none"
    /\ MaxConnections = 0 \/ connCount < MaxConnections
    /\ connCount' = IF MaxConnections = 0 THEN connCount ELSE connCount + 1
    /\ sock' = [sock EXCEPT ![s] = "open"]
    /\ sess' = [sess EXCEPT ![s] = "INITED"]
    /\ sessions' = sessions \cup {s}
    /\ UNCHANGED <<uid, uidMap, left, logined, loginedCount, ticks, kickVars>>

ConnectionRefused(s) ==
    /\ Macrotask /\ sock[s] = "none"
    /\ MaxConnections # 0 /\ connCount >= MaxConnections
    /\ sock' = [sock EXCEPT ![s] = "closed"]
    /\ UNCHANGED <<sessionVars, countVars, ticks, kickVars>>

\* DISCONNECT and ERROR: first the session's listener, then the connector's.
Dropped(s) ==
    /\ Macrotask /\ sess[s] = "INITED" /\ sock[s] = "open"
    /\ CloseSession(s)
    /\ DecreaseConnectionCount(s)
    /\ UNCHANGED kickVars

ClientClosed(s) == Dropped(s) /\ sock' = [sock EXCEPT ![s] = "gone"]

SocketError(s) == Dropped(s) /\ UNCHANGED sock

\* socket.close() by the heartbeat timeout or a failed handshake.
SocketClosed(s) == Dropped(s) /\ sock' = [sock EXCEPT ![s] = "closed"]

\* Mutant: socket.close() returns before it emits DISCONNECT.
NextTickSilent(s) ==
    /\ Idle /\ s \in ticks
    /\ ticks' = ticks \ {s}
    /\ sock' = [sock EXCEPT ![s] = "closed"]
    /\ UNCHANGED <<sessionVars, countVars, kickVars>>

\* process.nextTick(() => socket.close()): DISCONNECT unless it was emitted.
NextTick(s) ==
    /\ Idle /\ s \in ticks
    /\ ticks' = ticks \ {s}
    /\ sock' = [sock EXCEPT ![s] = "closed"]
    /\ \/ sock[s] = "open" /\ DecreaseConnectionCount(s)
       \/ sock[s] # "open" /\ UNCHANGED countVars
    /\ UNCHANGED <<sessionVars, kickVars>>

-----------------------------------------------------------------------------
(* The session API.  A call that returns an Error changes nothing.         *)

\* Mutant: bind() trusts a session object instead of looking the id up.
BindUnregistered(s, u) ==
    /\ Idle
    /\ sess[s] # "none" /\ ~Truthy(uid[s])
    /\ SingleSession => uidMap[u] = <<>>
    /\ s \notin Listed(u)
    /\ uidMap' = [uidMap EXCEPT ![u] = Append(@, s)]
    /\ uid' = [uid EXCEPT ![s] = u]
    /\ AddLoginedUser(u)
    /\ UNCHANGED <<sock, sess, sessions, left, connCount, ticks, kickVars>>

\* Mutant: singleSession is not looked at.
BindManySessions(s, u) ==
    /\ Idle
    /\ s \in sessions /\ ~Truthy(uid[s])
    /\ s \notin Listed(u)
    /\ uidMap' = [uidMap EXCEPT ![u] = Append(@, s)]
    /\ uid' = [uid EXCEPT ![s] = u]
    /\ AddLoginedUser(u)
    /\ UNCHANGED <<sock, sess, sessions, left, connCount, ticks, kickVars>>

Bind(s, u) ==
    /\ Idle
    /\ s \in sessions /\ ~Truthy(uid[s])
    /\ SingleSession => uidMap[u] = <<>>
    /\ s \notin Listed(u)
    /\ uidMap' = [uidMap EXCEPT ![u] = Append(@, s)]
    /\ uid' = [uid EXCEPT ![s] = u]
    /\ AddLoginedUser(u)
    /\ UNCHANGED <<sock, sess, sessions, left, connCount, ticks, kickVars>>

Unbind(s, u) ==
    /\ Idle
    /\ s \in sessions /\ Truthy(uid[s]) /\ uid[s] = u
    /\ uidMap' = Unlisted(s, u)
    /\ uid' = [uid EXCEPT ![s] = None]
    /\ RemoveLoginedUser(u)
    /\ UNCHANGED <<sock, sess, sessions, left, connCount, ticks, kickVars>>

KickBySessionId(s) ==
    /\ Idle
    /\ s \in sessions /\ sess[s] = "INITED"
    /\ CloseSession(s)
    /\ UNCHANGED <<sock, countVars, kickVars>>

\* kickByUid: forEach walks the very list that close() removes sessions from.
KickByUid(u) ==
    /\ Idle
    /\ uidMap[u] # <<>>
    /\ kickUid' = u
    /\ kickAt' = 1
    /\ UNCHANGED <<sock, sessionVars, countVars, ticks>>

KickStep ==
    /\ kickUid # None
    /\ kickAt <= Len(uidMap[kickUid])
    /\ LET s == uidMap[kickUid][kickAt]
       IN  \/ sess[s] = "INITED" /\ CloseSession(s)
           \/ sess[s] # "INITED" /\ UNCHANGED <<sessionVars, ticks>>
    /\ kickAt' = kickAt + 1
    /\ UNCHANGED <<sock, countVars, kickUid>>

KickDone ==
    /\ kickUid # None
    /\ kickAt > Len(uidMap[kickUid])
    /\ kickUid' = None
    /\ kickAt' = 1
    /\ UNCHANGED <<sock, sessionVars, countVars, ticks>>

-----------------------------------------------------------------------------
SocketEvent(s) ==
    \/ ConnectionAccepted(s) \/ ConnectionRefused(s)
    \/ ClientClosed(s) \/ SocketError(s) \/ SocketClosed(s)

KickLoop == KickStep \/ KickDone

Next ==
    \/ \E s \in Sids : SocketEvent(s) \/ NextTick(s) \/ KickBySessionId(s)
    \/ \E s \in Sids, u \in Uids : Bind(s, u) \/ Unbind(s, u)
    \/ \E u \in Uids : KickByUid(u)
    \/ KickLoop

Spec == Init /\ [][Next]_vars

\* A loop that has begun runs on, and Node runs every nextTick callback before
\* the next macrotask.  Strong fairness: calls of kickByUid that keep coming in
\* microtasks disable NextTick again and again, but their chain is finite.
FairSpec == Spec /\ WF_vars(KickLoop) /\ \A s \in Sids : SF_vars(NextTick(s))

-----------------------------------------------------------------------------
(* Properties.                                                             *)

NoDuplicates ==
    \A u \in Uids : \A i, j \in 1..Len(uidMap[u]) : uidMap[u][i] = uidMap[u][j] => i = j

\* "uid -> sessions" (sessionService.ts:144): the list of a uid holds exactly
\* the registered sessions bound to it, each once, whatever closes or rebinds
\* them, so a push by uid reaches every live session and no closed one.
UidMapExact ==
    /\ \A u \in Uids : Listed(u) = {s \in sessions : uid[s] = u}
    /\ NoDuplicates

\* The table holds exactly the sessions that are not closed, and each of them
\* still has its socket: no session outlives its connection.
SessionHasSocket ==
    \A s \in Sids :
        /\ s \in sessions <=> sess[s] = "INITED"
        /\ s \in sessions => sock[s] = "open" /\ ~left[s]

\* The sockets that were accepted and have not left.
Counted == {s \in Sids : sess[s] # "none" /\ ~left[s]}

\* A connection is given back exactly once although DISCONNECT, ERROR and a
\* kick may all report its end, and the limit holds at every moment.
ConnectionsCounted ==
    /\ MaxConnections = 0 => connCount = 0
    /\ MaxConnections # 0 =>
        /\ connCount = Cardinality(Counted)
        /\ connCount <= MaxConnections

\* A logined user has a session bound to it, or one that was closed and whose
\* socket is about to follow: nobody stays logined after the last disconnect.
LoginedHasSession ==
    /\ loginedCount = Cardinality(logined)
    /\ \A u \in logined : \E s \in Counted : uid[s] = u

\* The variables have their types (the login count never falls below zero), and
\* the session table, the uid lists and the sockets tell the same story.
\* (sessionService.ts create, bind, unbind, remove)
TablesAgree == TypeOK /\ UidMapExact /\ SessionHasSocket

\* Connection count and login list are exact, whichever events end a socket.
\* (connectionService.ts, connector.ts getSession)
StatisticsExact == ConnectionsCounted /\ LoginedHasSession

\* With singleSession a user never has two sessions.
SingleSessionHolds ==
    SingleSession => \A s, t \in sessions : uid[s] # None /\ uid[s] = uid[t] => s = t

\* A closed session is never registered, bound or unbound again, although
\* handlers and RPCs that hold its id go on calling.
ClosedSessionStaysClosed ==
    [][\A s \in Sids : sess[s] = "CLOSED" =>
            sess'[s] = "CLOSED" /\ s \notin sessions' /\ uid'[s] = uid[s]]_vars

\* Closing a session closes its socket and gives its connection back.
ClosedSessionLeaves == \A s \in Sids : sess[s] = "CLOSED" ~> sock[s] = "closed" /\ left[s]

\* The inductive strengthening: a nextTick callback is only left by a close,
\* and a closed session that has not left still has one.
CloseFollows ==
    \A s \in Sids :
        /\ sock[s] = "none" => sess[s] = "none"
        /\ sess[s] = "none" => uid[s] = None /\ ~left[s] /\ s \notin ticks
        /\ s \in ticks => sess[s] = "CLOSED"
        /\ sess[s] = "CLOSED" /\ ~left[s] => s \in ticks /\ sock[s] = "open"

IInv ==
    /\ TypeOK
    /\ UidMapExact
    /\ SessionHasSocket
    /\ CloseFollows
    /\ IsFiniteSet(logined)
    /\ LoginedHasSession
    /\ SingleSessionHolds
    /\ ConnectionsCounted
=============================================================================
