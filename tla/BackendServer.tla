---------------------------- MODULE BackendServer ----------------------------
(***************************************************************************)
(* What a backend server does to the sessions of a frontend server: the    *)
(* calls of its backend sessions (server/src/service/                      *)
(* backendSessionService.ts, remote/frontend/sessionRemote.ts), its        *)
(* channels (channelService.ts, globalChannelService.ts,                   *)
(* remote/frontend/channelRemote.ts) and the pushes to clients that they   *)
(* end in, composed with the frontend's FrontendSessions.                  *)
(*                                                                         *)
(* All calls to the frontend go through one mailbox of the station, which  *)
(* connects at the first of them.  The calls made meanwhile are parked,    *)
(* with references to their arguments, and are sent before the first.  A   *)
(* call is an RPC whose error nobody looks at: bind and unbind return      *)
(* theirs, and SessionRemote drops it.  The frontend's own handlers are    *)
(* left to FrontendSessions; here the backend calls the session API.       *)
(***************************************************************************)
EXTENDS FrontendSessions

CONSTANTS
    Here,        \* the id of the frontend server
    There,       \* the id of another one, of which only the channel is modelled
    MaxCalls,    \* bound on the calls to the frontend
    MaxPushes    \* bound on the pushes among them, which are 1, 2, ...

ASSUME ServersAssumption == Here # There /\ None \notin {Here, There}
ASSUME ListsAssumption == None \notin Seq(Uids)   \* undefined is not a list
ASSUME BoundsAssumption == MaxCalls \in Nat /\ MaxPushes \in Nat

Servers == {Here, There}

\* Bound: the handlers use one of these together with bind and unbind: all
\* calls of backend sessions, a channel of both servers without pushes, a
\* channel of this server, a global channel.
Uses == {"sessions", "members", "channel", "global"}

VARIABLES
    use,          \* bound: what the handlers use, see Uses
    link,         \* the mailbox: "idle", "connecting", "up", or "stuck" for ever
    opener,       \* the call that awaits lazyConnect, or None
    parked,       \* pendings[Here]
    line,         \* the calls sent, in the order of the socket
    groups,       \* Channel.groups: server id -> uids
    records,      \* Channel.records: the server id of a uid, or None
    userAmount,   \* Channel.userAmount
    destroyed,    \* Channel._state is CLOSED
    cache,        \* a global channel's sets in the remote cache
    reads,        \* GlobalChannelService.pushMessage, between read and push
    calls,        \* number of calls made
    out,          \* of each session, how often the last push taken was sent to it
    arrived,      \* history: the pushes taken, in their order
    pushes,       \* number of pushes among them
    strays        \* history: a user left a group it was not in

mailbox == <<link, opener, parked, line, calls>>
channel == <<groups, records, userAmount, destroyed, strays>>
delivered == <<out, arrived>>
pushing == <<delivered, pushes>>
backend == <<use, mailbox, channel, cache, reads, pushing>>
bvars == <<vars, backend>>

BInit ==
    /\ Init
    /\ use \in Uses
    /\ link = "idle" /\ opener = None /\ parked = <<>> /\ line = <<>>
    /\ groups = [f \in Servers |-> <<>>]
    /\ records = [u \in Uids |-> None]
    /\ userAmount = 0 /\ destroyed = FALSE
    /\ cache = [f \in Servers |-> {}] /\ reads = {}
    /\ calls = 0
    /\ out = [s \in Sids |-> 0] /\ arrived = <<>> /\ pushes = 0
    /\ strays = FALSE

-----------------------------------------------------------------------------
(* Calls.                                                                  *)

\* A parked push to the channel refers to the group itself, until it is sent
\* or the group is dropped for being empty.
RefersToGroup(c) == c.op = "push" /\ c.to = None

\* What is written to the socket.
Serialized(c) == IF RefersToGroup(c) THEN [c EXCEPT !.to = groups[Here]] ELSE c

\* Mailstation.dispatch().
Call(c) ==
    /\ calls < MaxCalls
    /\ calls' = calls + 1
    /\ \/ /\ link = "idle"
          /\ link' = "connecting" /\ opener' = c
          /\ UNCHANGED <<parked, line>>
       \/ /\ link \in {"connecting", "stuck"}
          /\ parked' = Append(parked, c)
          /\ UNCHANGED <<link, opener, line>>
       \/ /\ link = "up"
          /\ line' = Append(line, Serialized(c))
          /\ UNCHANGED <<link, opener, parked>>

\* A push is numbered, and knows the users and sessions it is meant for (a
\* history, like whether it is the call that waits for the connection).
Push(op, to, who) ==
    /\ pushes < MaxPushes
    /\ pushes' = pushes + 1
    /\ Call([op |-> op, to |-> to, n |-> pushes + 1, who |-> who, first |-> link = "idle"])
    /\ UNCHANGED delivered

\* The sessions of which a handler can have a backend session.
Known == {s \in Sids : sess[s] # "none"}

\* BackendSession.bind(), unbind() and close(), and kickByUid().
SessionCall ==
    /\ use = "sessions"
    /\ \/ \E s \in Known, u \in Uids, op \in {"bind", "unbind"} :
              Call([op |-> op, sid |-> s, uid |-> u])
       \/ \E s \in Known : Call([op |-> "kick", sid |-> s])
       \/ \E u \in Uids : Call([op |-> "kickByUid", uid |-> u])
    /\ UNCHANGED <<vars, use, channel, cache, reads, pushing>>

SendMessage ==
    /\ use = "sessions"
    /\ \E s \in Known : Push("send", s, {s})
    /\ UNCHANGED <<vars, use, channel, cache, reads>>

\* To the users given, whose lists are new: no channel is referred to.  The uids
\* of one call are bounded to one; the code would push twice to a uid given twice.
PushMessageByUids ==
    /\ use = "sessions"
    /\ \E u \in Uids : Push("push", <<u>>, {u})
    /\ UNCHANGED <<vars, use, channel, cache, reads>>

Broadcast ==
    /\ use = "sessions"
    /\ \E binded \in BOOLEAN :
          Push("broadcast", binded, IF binded THEN Uids ELSE Sids)
    /\ UNCHANGED <<vars, use, channel, cache, reads>>

\* connect() succeeds: flushPending(), and then lazyConnect() returns.
Connected ==
    /\ link = "connecting"
    /\ link' = "up" /\ opener' = None /\ parked' = <<>>
    /\ line' = [i \in DOMAIN parked |-> Serialized(parked[i])] \o <<Serialized(opener)>>
    /\ UNCHANGED <<vars, use, channel, cache, reads, pushing, calls>>

\* It fails: connecting[Here] stays set, and every call is parked for good.
ConnectFailed ==
    /\ link = "connecting"
    /\ link' = "stuck" /\ opener' = None
    /\ parked' = Append(parked, opener)
    /\ UNCHANGED <<vars, use, channel, cache, reads, pushing, line, calls>>

\* The mailbox closes with what is under way; the next call makes a new one.
Disconnected ==
    /\ link = "up"
    /\ link' = "idle" /\ line' = <<>>
    /\ UNCHANGED <<vars, use, channel, cache, reads, pushing, opener, parked, calls>>

-----------------------------------------------------------------------------
(* A channel.                                                              *)

InGroup(u, f) == \E i \in 1 .. Len(groups[f]) : groups[f][i] = u

\* Bound: who the handlers add where, and that with pushes nobody leaves who is not in.
MayAdd(f) == use = "members" \/ (use = "channel" /\ f = Here)
MayLeave(u, f) == use = "members" \/ (use = "channel" /\ InGroup(u, f))

Members == Len(groups[Here]) + Len(groups[There])

\* A push that refers to the group is meant for whoever joins it, too.
Joining(c, u, f) ==
    IF f = Here /\ RefersToGroup(c) THEN [c EXCEPT !.who = @ \union {u}] ELSE c

\* Mutant: a user is added whether or not it is in the group.
AddAgain(u, f) ==
    /\ MayAdd(f)
    /\ ~destroyed
    /\ groups' = [groups EXCEPT ![f] = Append(@, u)]
    /\ records' = [records EXCEPT ![u] = f]
    /\ userAmount' = userAmount + 1
    /\ opener' = IF link = "connecting" THEN Joining(opener, u, f) ELSE opener
    /\ parked' = [i \in DOMAIN parked |-> Joining(parked[i], u, f)]
    /\ UNCHANGED <<vars, use, link, line, calls, destroyed, strays, cache, reads, pushing>>

\* Channel.add().
Add(u, f) ==
    /\ MayAdd(f)
    /\ ~destroyed
    /\ ~InGroup(u, f)
    /\ groups' = [groups EXCEPT ![f] = Append(@, u)]
    /\ records' = [records EXCEPT ![u] = f]
    /\ userAmount' = userAmount + 1
    /\ opener' = IF link = "connecting" THEN Joining(opener, u, f) ELSE opener
    /\ parked' = [i \in DOMAIN parked |-> Joining(parked[i], u, f)]
    /\ UNCHANGED <<vars, use, link, line, calls, destroyed, strays, cache, reads, pushing>>

\* deleteFromArr().
Without(q, u) ==
    IF \E i \in 1 .. Len(q) : q[i] = u THEN Spliced(q, CHOOSE k \in 1 .. Len(q) : q[k] = u) ELSE q

\* An empty group is dropped from the map; what refers to it keeps the empty list.
Leaving(c, f) ==
    IF f = Here /\ groups'[f] = <<>> /\ RefersToGroup(c)
    THEN [c EXCEPT !.to = <<>>]
    ELSE c

\* Mutant: the record of the user stays.
LeaveRecorded(u, f) ==
    /\ MayLeave(u, f)
    /\ Truthy(u)
    /\ groups[f] # <<>>
    /\ groups' = [groups EXCEPT ![f] = Without(@, u)]
    /\ userAmount' = IF userAmount > 0 THEN userAmount - 1 ELSE 0
    /\ strays' = (strays \/ ~InGroup(u, f))
    /\ opener' = IF link = "connecting" THEN Leaving(opener, f) ELSE opener
    /\ parked' = [i \in DOMAIN parked |-> Leaving(parked[i], f)]
    /\ UNCHANGED <<vars, use, link, line, calls, records, destroyed, cache, reads, pushing>>

\* Channel.leave(), which does not ask whether the user was in the group.
Leave(u, f) ==
    /\ MayLeave(u, f)
    /\ Truthy(u)
    /\ groups[f] # <<>>
    /\ groups' = [groups EXCEPT ![f] = Without(@, u)]
    /\ records' = [records EXCEPT ![u] = None]
    /\ userAmount' = IF userAmount > 0 THEN userAmount - 1 ELSE 0
    /\ strays' = (strays \/ ~InGroup(u, f))
    /\ opener' = IF link = "connecting" THEN Leaving(opener, f) ELSE opener
    /\ parked' = [i \in DOMAIN parked |-> Leaving(parked[i], f)]
    /\ UNCHANGED <<vars, use, link, line, calls, destroyed, cache, reads, pushing>>

\* Channel.destroy(); a channel created later under the same id is another one.
Destroy ==
    /\ use \in {"members", "channel"}
    /\ ~destroyed
    /\ destroyed' = TRUE
    /\ UNCHANGED <<vars, use, mailbox, groups, records, userAmount, strays, cache, reads, pushing>>

\* Channel.pushMessage() and ChannelService.sendMessageByGroup().
PushMessage ==
    /\ use = "channel" /\ ~destroyed
    /\ groups[Here] # <<>>
    /\ Push("push", None, {u \in Uids : InGroup(u, Here)})
    /\ UNCHANGED <<vars, use, channel, cache, reads>>

-----------------------------------------------------------------------------
(* A global channel.                                                       *)

GlobalAdd(u, f) ==
    /\ use = "global" /\ f = Here
    /\ u \notin cache[f]
    /\ cache' = [cache EXCEPT ![f] = @ \union {u}]
    /\ UNCHANGED <<vars, use, mailbox, channel, reads, pushing>>

GlobalLeave(u, f) ==
    /\ use = "global" /\ f = Here
    /\ u \in cache[f]
    /\ cache' = [cache EXCEPT ![f] = @ \ {u}]
    /\ UNCHANGED <<vars, use, mailbox, channel, reads, pushing>>

\* One server's set after the other, each awaited.
GlobalDestroy(f) ==
    /\ use = "global" /\ f = Here
    /\ cache[f] # {}
    /\ cache' = [cache EXCEPT ![f] = {}]
    /\ UNCHANGED <<vars, use, mailbox, channel, reads, pushing>>

\* pushMessage() reads the members of a server ...
GlobalRead ==
    /\ cache[Here] # {}
    /\ reads = {}                      \* bound: one at a time
    /\ reads' = {cache[Here]}
    /\ UNCHANGED <<vars, use, mailbox, channel, cache, pushing>>

\* The members as a list, each once.
ListOf(S) ==
    CHOOSE q \in [1 .. Cardinality(S) -> S] : \A i, j \in 1 .. Cardinality(S) : q[i] = q[j] => i = j

\* ... and pushes to them when it has them.
GlobalPush ==
    /\ \E members \in reads :
          Push("push", ListOf(members), members)
    /\ reads' = {}
    /\ UNCHANGED <<vars, use, channel, cache>>

-----------------------------------------------------------------------------
(* The frontend: SessionRemote and ChannelRemote.                          *)

\* The next call arrives.
Taken(op) ==
    /\ link = "up" /\ line # <<>> /\ Head(line).op = op
    /\ line' = Tail(line)
    /\ UNCHANGED <<use, link, opener, parked, calls, channel, cache, reads, pushes>>

\* SessionService.bind() registers the session under the uid.
Bindable(s, u) ==
    /\ s \in sessions /\ ~Truthy(uid[s])
    /\ SingleSession => uidMap[u] = <<>>
    /\ s \notin Listed(u)

RemoteBind ==
    LET c == Head(line) IN
    /\ Taken("bind") /\ Idle
    /\ \/ Bind(c.sid, c.uid)
       \/ ~Bindable(c.sid, c.uid) /\ UNCHANGED vars
    /\ UNCHANGED delivered

RemoteUnbind ==
    LET c == Head(line) IN
    /\ Taken("unbind") /\ Idle
    /\ \/ Unbind(c.sid, c.uid)
       \/ (c.sid \notin sessions \/ ~Truthy(uid[c.sid]) \/ uid[c.sid] # c.uid) /\ UNCHANGED vars
    /\ UNCHANGED delivered

RemoteKick ==
    LET c == Head(line) IN
    /\ Taken("kick") /\ Idle
    /\ \/ KickBySessionId(c.sid)
       \/ c.sid \notin sessions /\ UNCHANGED vars
    /\ UNCHANGED delivered

RemoteKickByUid ==
    LET c == Head(line) IN
    /\ Taken("kickByUid") /\ Idle
    /\ \/ KickByUid(c.uid)
       \/ uidMap[c.uid] = <<>> /\ UNCHANGED vars
    /\ UNCHANGED delivered

\* PushScheduler.schedule() and flush(): at once, and to no closed session.
Schedule(n, copies) ==
    /\ Idle
    /\ out' = [s \in Sids |-> IF sess[s] = "INITED" THEN copies[s] ELSE 0]
    /\ arrived' = Append(arrived, n)
    /\ UNCHANGED vars

\* SessionService.sendMessage().
RemoteSend ==
    LET c == Head(line) IN
    /\ Taken("send")
    /\ Schedule(c.n, [s \in Sids |-> IF s = c.to /\ s \in sessions THEN 1 ELSE 0])

\* How often a session is in the lists of the users.
Occurrences(s, uids) ==
    Cardinality({p \in (DOMAIN uids) \X (1 .. Cardinality(Sids)) :
        p[2] \in DOMAIN uidMap[uids[p[1]]] /\ uidMap[uids[p[1]]][p[2]] = s})

\* ChannelRemote.pushMessage().
RemotePush ==
    LET c == Head(line) IN
    /\ Taken("push")
    /\ Schedule(c.n, [s \in Sids |-> Occurrences(s, c.to)])

\* ChannelRemote.broadcast(); forEachBindedSession() finds no session, for it
\* looks for lists that do not exist.
RemoteBroadcast ==
    LET c == Head(line) IN
    /\ Taken("broadcast")
    /\ Schedule(c.n, [s \in Sids |-> IF ~c.to /\ s \in sessions THEN 1 ELSE 0])

-----------------------------------------------------------------------------
\* The frontend's own steps.
\* Bound: connections end by their client or by a kick, errors are left to
\* FrontendSessions; a channel without pushes needs no connections.
SocketStep(s) ==
    /\ (use # "members" /\ ConnectionAccepted(s)) \/ ClientClosed(s) \/ NextTick(s)
    /\ UNCHANGED backend

\* FrontendSession.bind() and unbind().
LocalCall(s, u) ==
    /\ use # "members"
    /\ Bind(s, u) \/ Unbind(s, u)
    /\ UNCHANGED backend

KickLoopStep == KickLoop /\ UNCHANGED backend

BackendStep ==
    \/ SessionCall \/ SendMessage \/ PushMessageByUids \/ Broadcast
    \/ Connected \/ ConnectFailed \/ Disconnected
    \/ \E u \in Uids, f \in Servers : Add(u, f) \/ Leave(u, f) \/ GlobalAdd(u, f) \/ GlobalLeave(u, f)
    \/ Destroy \/ PushMessage
    \/ \E f \in Servers : GlobalDestroy(f)
    \/ GlobalRead \/ GlobalPush

RemoteStep ==
    \/ RemoteBind \/ RemoteUnbind \/ RemoteKick \/ RemoteKickByUid
    \/ RemoteSend \/ RemotePush \/ RemoteBroadcast

BNext ==
    \/ \E s \in Sids : SocketStep(s)
    \/ \E s \in Sids, u \in Uids : LocalCall(s, u)
    \/ KickLoopStep
    \/ BackendStep
    \/ RemoteStep

BSpec == BInit /\ [][BNext]_bvars

\* As in FrontendSessions; nothing is assumed of the backend or its calls.
BFairSpec ==
    /\ BSpec
    /\ WF_bvars(KickLoopStep)
    /\ \A s \in Sids : SF_bvars(NextTick(s) /\ UNCHANGED backend)

-----------------------------------------------------------------------------
(* Properties.                                                             *)

BTypeOK ==
    /\ use \in Uses
    /\ link \in {"idle", "connecting", "up", "stuck"}
    /\ opener # None => link = "connecting"
    /\ line # <<>> => link = "up"
    /\ groups \in [Servers -> Seq(Uids)] /\ records \in [Uids -> Servers \union {None}]
    /\ userAmount \in Nat /\ destroyed \in BOOLEAN /\ strays \in BOOLEAN
    /\ cache \in [Servers -> SUBSET Uids] /\ reads \subseteq SUBSET Uids
    /\ calls \in 0 .. MaxCalls /\ pushes \in 0 .. MaxPushes

NobodyTwice ==
    \A f \in Servers : \A i, j \in 1 .. Len(groups[f]) : groups[f][i] = groups[f][j] => i = j

RecordsNameGroups == \A u \in Uids : records[u] # None => InGroup(u, records[u])

AmountFits == userAmount <= Members /\ (~strays => userAmount = Members)

\* Nobody is in a group twice, a user's record names a group it is in, and
\* the channel never counts more users than it has: exactly them, unless
\* somebody left a group it was not in.  (channelService.ts add, leave)
ChannelSound == BTypeOK /\ NobodyTwice /\ RecordsNameGroups /\ AmountFits

\* A push reaches a session at most once, and only while it is bound to a user
\* the push is meant for: one that was in the channel between the push and its
\* sending.  Only the push that opened a connection is overtaken by later
\* ones.  (channelService.ts, channelRemote.ts, mailstation.ts dispatch)
PushesSound ==
    [][arrived' # arrived =>
        LET c == Head(line) IN
        /\ \A s \in Sids : out'[s] > 0 =>
              out'[s] = 1 /\ (uid[s] \in c.who \/ s \in c.who)
        /\ \A i \in DOMAIN arrived :
              arrived[i] # c.n /\ (arrived[i] > c.n => c.first)]_bvars
=============================================================================
