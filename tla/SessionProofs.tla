---------------------------- MODULE SessionProofs ----------------------------
(***************************************************************************)
(* Proofs about the sessions of a frontend server and about the backend    *)
(* that is composed with it.  First, for every set of connections and      *)
(* uids and every limit: session table, uid lists and statistics agree,    *)
(* provided that no uid is falsy (with a falsy uid the lists do go wrong). *)
(* Then, for every number of users and calls: what a channel keeps about   *)
(* its members, and what becomes of pushes.                                *)
(***************************************************************************)
EXTENDS BackendServer, FiniteSetTheorems, TLAPS

USE SidsAssumption, NoneAssumption, SingleAssumption, MaxAssumption

-----------------------------------------------------------------------------
(* Lists.                                                                  *)

\* What splice(k, 1) leaves of a list without duplicates.
LEMMA SplicedList ==
    ASSUME NEW S, NEW q \in Seq(S), NEW k \in 1..Len(q),
           \A i, j \in 1..Len(q) : q[i] = q[j] => i = j
    PROVE  /\ Spliced(q, k) \in Seq(S)
           /\ {Spliced(q, k)[i] : i \in 1..Len(Spliced(q, k))}
                = {q[i] : i \in 1..Len(q)} \ {q[k]}
           /\ \A i, j \in 1..Len(Spliced(q, k)) :
                  Spliced(q, k)[i] = Spliced(q, k)[j] => i = j
<1> DEFINE p == Spliced(q, k)
<1>1. /\ Len(q) \in Nat
      /\ \A i \in 1..Len(q) : q[i] \in S
  OBVIOUS
<1>2. p = [i \in 1..(Len(q) - 1) |-> IF i < k THEN q[i] ELSE q[i + 1]]
  BY DEF Spliced
<1>3. p \in Seq(S) /\ Len(p) = Len(q) - 1
  BY <1>1, <1>2
<1>4. \A i \in 1..Len(p) : p[i] = IF i < k THEN q[i] ELSE q[i + 1]
  BY <1>2, <1>3
<1> HIDE DEF p
<1>5. \A i, j \in 1..Len(p) : p[i] = p[j] => i = j
  BY <1>1, <1>3, <1>4
<1>6. \A x : (\E i \in 1..Len(p) : x = p[i]) => (\E i \in 1..Len(q) : x = q[i]) /\ x # q[k]
  BY <1>1, <1>3, <1>4
<1>7. \A j \in 1..Len(q) : q[j] # q[k] => \E i \in 1..Len(p) : q[j] = p[i]
  <2> SUFFICES ASSUME NEW j \in 1..Len(q), q[j] # q[k]
               PROVE  \E i \in 1..Len(p) : q[j] = p[i]
    OBVIOUS
  <2>1. CASE j < k
    BY <1>1, <1>3, <1>4, <2>1
  <2>2. CASE j > k
    <3>1. j - 1 \in 1..Len(p) /\ ~(j - 1 < k) /\ (j - 1) + 1 = j
      BY <1>1, <1>3, <2>2
    <3>2. p[j - 1] = q[j]
      BY <1>4, <3>1
    <3> QED
      BY <3>1, <3>2
  <2> QED
    BY <1>1, <2>1, <2>2
<1>8. {p[i] : i \in 1..Len(p)} = {q[i] : i \in 1..Len(q)} \ {q[k]}
  <2>1. ASSUME NEW x \in {p[i] : i \in 1..Len(p)}
        PROVE  x \in {q[i] : i \in 1..Len(q)} \ {q[k]}
    BY <1>6
  <2>2. ASSUME NEW x \in {q[i] : i \in 1..Len(q)} \ {q[k]}
        PROVE  x \in {p[i] : i \in 1..Len(p)}
    BY <1>7
  <2> QED
    BY <2>1, <2>2
<1> QED
  BY <1>3, <1>5, <1>8 DEF p

\* The lists after the removal of s from the list of u.
LEMMA UnlistedLists ==
    ASSUME TypeOK, NoDuplicates, NEW s \in Sids, NEW u \in Uids,
           uidMap' = Unlisted(s, u)
    PROVE  /\ uidMap' \in [Uids -> Seq(Sids)]
           /\ NoDuplicates'
           /\ \A v \in Uids : Listed(v)' = IF v = u THEN Listed(v) \ {s} ELSE Listed(v)
<1>1. CASE s \notin Listed(u)
  <2>1. uidMap' = uidMap
    BY <1>1 DEF Unlisted
  <2>2. uidMap' \in [Uids -> Seq(Sids)] /\ NoDuplicates'
    BY <2>1 DEF TypeOK, NoDuplicates
  <2>3. \A v \in Uids : Listed(v)' = Listed(v)
    BY <2>1 DEF Listed
  <2>4. Listed(u) \ {s} = Listed(u)
    BY <1>1
  <2> QED
    BY <2>2, <2>3, <2>4
<1>2. CASE s \in Listed(u)
  <2> DEFINE k == CHOOSE i \in 1..Len(uidMap[u]) : uidMap[u][i] = s
  <2>1. uidMap' = [uidMap EXCEPT ![u] = Spliced(uidMap[u], k)]
    BY <1>2 DEF Unlisted
  <2>2. k \in 1..Len(uidMap[u]) /\ uidMap[u][k] = s
    BY <1>2 DEF Listed
  <2> HIDE DEF k
  <2>3. uidMap[u] \in Seq(Sids)
    BY DEF TypeOK
  <2>4. \A i, j \in 1..Len(uidMap[u]) : uidMap[u][i] = uidMap[u][j] => i = j
    BY DEF NoDuplicates
  <2>5. /\ Spliced(uidMap[u], k) \in Seq(Sids)
        /\ {Spliced(uidMap[u], k)[i] : i \in 1..Len(Spliced(uidMap[u], k))} = Listed(u) \ {s}
        /\ \A i, j \in 1..Len(Spliced(uidMap[u], k)) :
               Spliced(uidMap[u], k)[i] = Spliced(uidMap[u], k)[j] => i = j
    BY <2>2, <2>3, <2>4, SplicedList DEF Listed
  <2>6. /\ uidMap'[u] = Spliced(uidMap[u], k)
        /\ \A v \in Uids : v # u => uidMap'[v] = uidMap[v]
    BY <2>1 DEF TypeOK
  <2>7. uidMap' \in [Uids -> Seq(Sids)]
    BY <2>1, <2>5 DEF TypeOK
  <2>8. NoDuplicates'
    BY <2>5, <2>6 DEF NoDuplicates
  <2>9. Listed(u)' = Listed(u) \ {s}
    <3>1. Listed(u)' = {uidMap'[u][i] : i \in 1..Len(uidMap'[u])}
      BY DEF Listed
    <3> QED
      BY <3>1, <2>5, <2>6
  <2>10. ASSUME NEW v \in Uids, v # u
         PROVE  Listed(v)' = Listed(v)
    BY <2>6, <2>10 DEF Listed
  <2> QED
    BY <2>7, <2>8, <2>9, <2>10
<1> QED
  BY <1>1, <1>2

\* The lists after a session is appended to one it is not in.
LEMMA AppendedLists ==
    ASSUME TypeOK, NoDuplicates, NEW s \in Sids, NEW u \in Uids, s \notin Listed(u),
           uidMap' = [uidMap EXCEPT ![u] = Append(@, s)]
    PROVE  /\ uidMap' \in [Uids -> Seq(Sids)]
           /\ NoDuplicates'
           /\ \A v \in Uids : Listed(v)' = IF v = u THEN Listed(v) \cup {s} ELSE Listed(v)
<1> DEFINE q == uidMap[u]
           r == Append(q, s)
<1>1. q \in Seq(Sids) /\ Len(q) \in Nat
  BY DEF TypeOK
<1>2. /\ r \in Seq(Sids) /\ Len(r) = Len(q) + 1 /\ r[Len(q) + 1] = s
      /\ \A i \in 1..Len(q) : r[i] = q[i]
  BY <1>1
<1>3. uidMap'[u] = r /\ \A v \in Uids : v # u => uidMap'[v] = uidMap[v]
  BY DEF TypeOK
<1>4. uidMap' \in [Uids -> Seq(Sids)]
  BY <1>2 DEF TypeOK
<1>5. /\ \A i, j \in 1..Len(q) : q[i] = q[j] => i = j
      /\ \A i \in 1..Len(q) : q[i] # s
  BY DEF NoDuplicates, Listed
<1>8. Listed(u) = {q[i] : i \in 1..Len(q)} /\ Listed(u)' = {r[i] : i \in 1..Len(r)}
  BY <1>3 DEF Listed
<1> HIDE DEF r, q
<1>6. \A i, j \in 1..Len(r) : r[i] = r[j] => i = j
  BY <1>1, <1>2, <1>5
<1>7. {r[i] : i \in 1..Len(r)} = {q[i] : i \in 1..Len(q)} \cup {s}
  BY <1>1, <1>2
<1>9. NoDuplicates'
  BY <1>3, <1>6 DEF NoDuplicates
<1>10. \A v \in Uids : v # u => Listed(v)' = Listed(v)
  BY <1>3 DEF Listed
<1> QED
  BY <1>4, <1>7, <1>8, <1>9, <1>10

-----------------------------------------------------------------------------
(* What the pieces of the actions do to the parts of the invariant.        *)

\* A finite set of sockets stays one when a socket is added or removed.
LEMMA CountedFinite == IsFiniteSet(Counted) /\ Cardinality(Counted) \in Nat
<1>1. Counted \subseteq Sids
  BY DEF Counted
<1> QED
  BY <1>1, FS_Subset, FS_CardinalityType

\* removeLoginedUser keeps the count equal to the number of keys.
LEMMA RemovedLogin ==
    ASSUME IInv, NEW u \in Uids, RemoveLoginedUser(u)
    PROVE  /\ logined' = logined \ {u}
           /\ IsFiniteSet(logined') /\ loginedCount' \in Nat
           /\ loginedCount' = Cardinality(logined')
<1> DEFINE S == logined
<1>1. IsFiniteSet(S) /\ loginedCount = Cardinality(S)
  BY DEF IInv, LoginedHasSession
<1>2. /\ logined' = S \ {u}
      /\ loginedCount' = IF u \in S THEN loginedCount - 1 ELSE loginedCount
  BY DEF RemoveLoginedUser
<1> HIDE DEF S
<1>3. /\ IsFiniteSet(S \ {u})
      /\ Cardinality(S \ {u}) = IF u \in S THEN Cardinality(S) - 1 ELSE Cardinality(S)
  BY <1>1, FS_RemoveElement
<1>4. Cardinality(S \ {u}) \in Nat
  BY <1>3, FS_CardinalityType
<1>5. logined' = S \ {u} /\ loginedCount' = Cardinality(S \ {u})
  BY <1>1, <1>2, <1>3
<1> QED
  BY <1>3, <1>4, <1>5 DEF S

\* So does addLoginedUser.
LEMMA AddedLogin ==
    ASSUME IInv, NEW u \in Uids, AddLoginedUser(u)
    PROVE  /\ logined' = logined \cup {u}
           /\ IsFiniteSet(logined') /\ loginedCount' \in Nat
           /\ loginedCount' = Cardinality(logined')
<1> DEFINE S == logined
<1>1. IsFiniteSet(S) /\ loginedCount = Cardinality(S)
  BY DEF IInv, LoginedHasSession
<1>2. /\ logined' = S \cup {u}
      /\ loginedCount' = IF u \in S THEN loginedCount ELSE loginedCount + 1
  BY DEF AddLoginedUser
<1> HIDE DEF S
<1>3. /\ IsFiniteSet(S \cup {u})
      /\ Cardinality(S \cup {u}) = IF u \in S THEN Cardinality(S) ELSE Cardinality(S) + 1
  BY <1>1, FS_AddElement
<1>4. Cardinality(S \cup {u}) \in Nat
  BY <1>3, FS_CardinalityType
<1>5. logined' = S \cup {u} /\ loginedCount' = Cardinality(S \cup {u})
  BY <1>1, <1>2, <1>3
<1> QED
  BY <1>3, <1>4, <1>5 DEF S

\* The first report of a socket's end, and only the first, gives its
\* connection and its user's login back.
LEMMA Decreased ==
    ASSUME FalsyUids = {}, IInv, NEW s \in Sids, sess[s] # "none",
           DecreaseConnectionCount(s)
    PROVE  /\ left' = [left EXCEPT ![s] = TRUE]
           /\ connCount' \in Nat
           /\ MaxConnections = 0 => connCount' = 0
           /\ MaxConnections # 0 => /\ connCount' = Cardinality(Counted \ {s})
                                    /\ connCount' <= MaxConnections
           /\ logined' \subseteq logined
           /\ uid[s] \in logined' => left[s]
           /\ IsFiniteSet(logined') /\ loginedCount' \in Nat
           /\ loginedCount' = Cardinality(logined')
<1>0. /\ uid[s] \in Uids \cup {None} /\ left \in [Sids -> BOOLEAN] /\ connCount \in Nat
      /\ loginedCount \in Nat /\ IsFiniteSet(logined) /\ loginedCount = Cardinality(logined)
      /\ logined \subseteq Uids
      /\ MaxConnections = 0 => connCount = 0
      /\ MaxConnections # 0 => connCount = Cardinality(Counted) /\ connCount <= MaxConnections
  BY DEF IInv, TypeOK, LoginedHasSession, ConnectionsCounted
<1>1. CASE left[s]
  <2>1. UNCHANGED countVars
    BY <1>1 DEF DecreaseConnectionCount
  <2>2. Counted \ {s} = Counted
    BY <1>1 DEF Counted
  <2>3. left' = [left EXCEPT ![s] = TRUE]
    BY <1>0, <1>1, <2>1 DEF countVars
  <2> QED
    BY <1>0, <1>1, <2>1, <2>2, <2>3 DEF countVars
<1>2. CASE ~left[s]
  <2>1. /\ left' = [left EXCEPT ![s] = TRUE]
        /\ connCount' = IF connCount > 0 THEN connCount - 1 ELSE 0
        /\ \/ Truthy(uid[s]) /\ RemoveLoginedUser(uid[s])
           \/ ~Truthy(uid[s]) /\ UNCHANGED <<logined, loginedCount>>
    BY <1>2 DEF DecreaseConnectionCount
  <2>2. s \in Counted
    BY <1>2 DEF Counted
  <2>3. /\ Cardinality(Counted \ {s}) = Cardinality(Counted) - 1
        /\ Cardinality(Counted \ {s}) \in Nat /\ Cardinality(Counted) \in Nat
    <3> DEFINE S == Counted
    <3>1. IsFiniteSet(S) /\ Cardinality(S) \in Nat /\ s \in S
      BY <2>2, CountedFinite
    <3> HIDE DEF S
    <3>2. IsFiniteSet(S \ {s}) /\ Cardinality(S \ {s}) = Cardinality(S) - 1
      BY <3>1, FS_RemoveElement
    <3>3. Cardinality(S \ {s}) \in Nat
      BY <3>2, FS_CardinalityType
    <3> QED
      BY <3>1, <3>2, <3>3 DEF S
  <2>4. /\ connCount' \in Nat
        /\ MaxConnections = 0 => connCount' = 0
        /\ MaxConnections # 0 => connCount' = Cardinality(Counted \ {s}) /\ connCount' <= MaxConnections
    BY <1>0, <2>1, <2>3
  <2>5. /\ logined' \subseteq logined /\ uid[s] \notin logined'
        /\ IsFiniteSet(logined') /\ loginedCount' \in Nat
        /\ loginedCount' = Cardinality(logined')
    <3>1. CASE Truthy(uid[s]) /\ RemoveLoginedUser(uid[s])
      <4>1. uid[s] \in Uids
        BY <1>0, <3>1 DEF Truthy
      <4> QED
        BY <3>1, <4>1, RemovedLogin
    <3>2. CASE ~Truthy(uid[s]) /\ UNCHANGED <<logined, loginedCount>>
      <4>1. uid[s] = None
        BY <3>2 DEF Truthy
      <4> QED
        BY <1>0, <3>2, <4>1
    <3> QED
      BY <2>1, <3>1, <3>2
  <2> QED
    BY <2>1, <2>4, <2>5
<1> QED
  BY <1>0, <1>1, <1>2

\* InternalSession.close() takes the session out of the table and out of its list.
LEMMA Closed ==
    ASSUME IInv, NEW s \in Sids, s \in sessions, CloseSession(s)
    PROVE  /\ uidMap' \in [Uids -> Seq(Sids)]
           /\ UidMapExact'
<1>1. /\ sessions' = sessions \ {s} /\ uid' = uid /\ uid[s] \in Uids \cup {None}
      /\ uidMap' = UidMapAfterRemove(s)
      /\ TypeOK /\ NoDuplicates
      /\ \A u \in Uids : Listed(u) = {t \in sessions : uid[t] = u}
  BY DEF CloseSession, IInv, TypeOK, UidMapExact
<1>2. CASE uid[s] = None
  <2>1. uidMap' = uidMap
    BY <1>1, <1>2 DEF UidMapAfterRemove
  <2>2. uidMap' \in [Uids -> Seq(Sids)] /\ NoDuplicates'
    BY <1>1, <2>1 DEF TypeOK, NoDuplicates
  <2>3. \A u \in Uids : Listed(u)' = Listed(u)
    BY <2>1 DEF Listed
  <2>4. \A u \in Uids : {t \in sessions' : uid'[t] = u} = {t \in sessions : uid[t] = u}
    BY <1>1, <1>2
  <2> QED
    BY <1>1, <2>2, <2>3, <2>4 DEF UidMapExact
<1>3. CASE uid[s] \in Uids
  <2>1. uidMap' = Unlisted(s, uid[s])
    BY <1>1, <1>3 DEF UidMapAfterRemove
  <2>2. /\ uidMap' \in [Uids -> Seq(Sids)]
        /\ NoDuplicates'
        /\ \A v \in Uids : Listed(v)' = IF v = uid[s] THEN Listed(v) \ {s} ELSE Listed(v)
    BY <1>1, <1>3, <2>1, UnlistedLists
  <2>3. \A v \in Uids : {t \in sessions' : uid'[t] = v}
            = IF v = uid[s] THEN Listed(v) \ {s} ELSE Listed(v)
    BY <1>1
  <2> QED
    BY <2>2, <2>3 DEF UidMapExact
<1> QED
  BY <1>1, <1>2, <1>3

-----------------------------------------------------------------------------
(* The invariant, action by action.                                        *)

LEMMA InitHolds == Init => IInv
<1> SUFFICES ASSUME Init PROVE IInv
  OBVIOUS
<1>1. TypeOK
  BY DEF Init, TypeOK, SockStates
<1>2. /\ \A u \in Uids : Len(uidMap[u]) = 0
      /\ sessions = {}
  BY DEF Init
<1>3. UidMapExact
  BY <1>2 DEF UidMapExact, NoDuplicates, Listed
<1>4. Counted = {} /\ IsFiniteSet(logined) /\ Cardinality(Counted) = 0
      /\ LoginedHasSession
  BY FS_EmptySet DEF Init, Counted, LoginedHasSession
<1>5. ConnectionsCounted
  BY <1>4 DEF Init, ConnectionsCounted
<1> QED
  BY <1>1, <1>3, <1>4, <1>5
  DEF Init, IInv, SessionHasSocket, CloseFollows, SingleSessionHolds


\* The parts of the invariant that the steps start from.
LEMMA Parts ==
    ASSUME IInv
    PROVE  /\ TypeOK /\ UidMapExact /\ NoDuplicates /\ SessionHasSocket /\ CloseFollows
           /\ LoginedHasSession /\ SingleSessionHolds /\ ConnectionsCounted
           /\ IsFiniteSet(logined) /\ loginedCount = Cardinality(logined)
           /\ \A u \in Uids : Listed(u) = {t \in sessions : uid[t] = u}
           /\ \A t \in sessions : t \in Counted
BY DEF IInv, UidMapExact, LoginedHasSession, SessionHasSocket, Counted, TypeOK

LEMMA AcceptedStep ==
    ASSUME IInv, NEW s \in Sids, ConnectionAccepted(s)
    PROVE  IInv'
<1>1. /\ sock' = [sock EXCEPT ![s] = "open"] /\ sess' = [sess EXCEPT ![s] = "INITED"]
      /\ sessions' = sessions \cup {s} /\ sock[s] = "none"
      /\ connCount' = IF MaxConnections = 0 THEN connCount ELSE connCount + 1
      /\ MaxConnections = 0 \/ connCount < MaxConnections
      /\ UNCHANGED <<uid, uidMap, left, logined, loginedCount, ticks, kickUid, kickAt>>
  BY DEF ConnectionAccepted, kickVars
<1>2. sess[s] = "none" /\ uid[s] = None /\ ~left[s] /\ s \notin ticks /\ s \notin sessions
  BY <1>1, Parts DEF CloseFollows, SessionHasSocket
<1>3. TypeOK'
  BY <1>1, Parts DEF TypeOK, SockStates
<1>4. UidMapExact'
  <2>1. \A u \in Uids : {t \in sessions' : uid'[t] = u} = {t \in sessions : uid[t] = u}
    BY <1>1, <1>2
  <2>2. NoDuplicates' /\ \A u \in Uids : Listed(u)' = Listed(u)
    BY <1>1, Parts DEF NoDuplicates, Listed
  <2> QED
    BY <2>1, <2>2, Parts DEF UidMapExact
<1>5. SessionHasSocket' /\ CloseFollows'
  BY <1>1, <1>2, Parts DEF SessionHasSocket, CloseFollows, TypeOK
<1>6. Counted' = Counted \cup {s} /\ s \notin Counted
  BY <1>1, <1>2, Parts DEF Counted, TypeOK
<1>7. LoginedHasSession' /\ IsFiniteSet(logined')
  BY <1>1, <1>6, Parts DEF LoginedHasSession
<1>8. SingleSessionHolds'
  BY <1>1, <1>2, Parts DEF SingleSessionHolds
<1>9. ConnectionsCounted'
  <2> DEFINE S == Counted
  <2>1. IsFiniteSet(S) /\ Cardinality(S) \in Nat /\ s \notin S
    BY <1>6, CountedFinite
  <2>2. Counted' = S \cup {s}
    BY <1>6
  <2>3. MaxConnections # 0 => connCount = Cardinality(S)
    BY Parts DEF ConnectionsCounted
  <2> HIDE DEF S
  <2>4. Cardinality(S \cup {s}) = Cardinality(S) + 1
    BY <2>1, FS_AddElement
  <2>5. MaxConnections # 0 => connCount' = Cardinality(Counted') /\ connCount' <= MaxConnections
    BY <1>1, <2>1, <2>2, <2>3, <2>4
  <2> QED
    BY <1>1, <2>5, Parts DEF ConnectionsCounted
<1> QED
  BY <1>3, <1>4, <1>5, <1>7, <1>8, <1>9 DEF IInv

LEMMA DroppedStep ==
    ASSUME FalsyUids = {}, IInv, NEW s \in Sids, Dropped(s),
           NEW st \in SockStates \ {"none"}, sock' = [sock EXCEPT ![s] = st]
    PROVE  IInv'
<1>1. /\ sess[s] = "INITED" /\ sock[s] = "open" /\ s \in sessions /\ ~left[s]
      /\ sess' = [sess EXCEPT ![s] = "CLOSED"] /\ sessions' = sessions \ {s}
      /\ ticks' = ticks \cup {s}
      /\ UNCHANGED <<uid, kickUid, kickAt>>
  BY Parts DEF Dropped, CloseSession, SessionHasSocket, kickVars
<1>2. /\ left' = [left EXCEPT ![s] = TRUE] /\ connCount' \in Nat
      /\ MaxConnections = 0 => connCount' = 0
      /\ MaxConnections # 0 => connCount' = Cardinality(Counted \ {s}) /\ connCount' <= MaxConnections
      /\ logined' \subseteq logined /\ uid[s] \notin logined'
      /\ IsFiniteSet(logined') /\ loginedCount' \in Nat /\ loginedCount' = Cardinality(logined')
  BY <1>1, Decreased DEF Dropped
<1>3. uidMap' \in [Uids -> Seq(Sids)] /\ UidMapExact'
  BY <1>1, Closed DEF Dropped
<1>4. TypeOK'
  BY <1>1, <1>2, <1>3, Parts DEF TypeOK
<1>5. SessionHasSocket' /\ CloseFollows'
  BY <1>1, <1>2, Parts DEF SessionHasSocket, CloseFollows, TypeOK
<1>6. Counted' = Counted \ {s}
  BY <1>1, <1>2, Parts DEF Counted, TypeOK
<1>7. LoginedHasSession'
  BY <1>1, <1>2, <1>6, Parts DEF LoginedHasSession
<1>8. SingleSessionHolds'
  BY <1>1, Parts DEF SingleSessionHolds
<1>9. ConnectionsCounted'
  BY <1>2, <1>6 DEF ConnectionsCounted
<1> QED
  BY <1>2, <1>3, <1>4, <1>5, <1>7, <1>8, <1>9 DEF IInv

LEMMA NextTickStep ==
    ASSUME FalsyUids = {}, IInv, NEW s \in Sids, NextTick(s)
    PROVE  IInv'
<1>1. /\ ticks' = ticks \ {s} /\ sock' = [sock EXCEPT ![s] = "closed"]
      /\ sess[s] = "CLOSED" /\ s \notin sessions
      /\ UNCHANGED <<sess, sessions, uid, uidMap, kickUid, kickAt>>
  BY Parts DEF NextTick, CloseFollows, SessionHasSocket, sessionVars, kickVars
<1>2. /\ left' = [left EXCEPT ![s] = TRUE] /\ connCount' \in Nat
      /\ MaxConnections = 0 => connCount' = 0
      /\ MaxConnections # 0 => connCount' = Cardinality(Counted \ {s}) /\ connCount' <= MaxConnections
      /\ logined' \subseteq logined
      /\ uid[s] \in logined' => left[s]
      /\ IsFiniteSet(logined') /\ loginedCount' \in Nat /\ loginedCount' = Cardinality(logined')
  <2>1. CASE sock[s] = "open" /\ DecreaseConnectionCount(s)
    BY <1>1, <2>1, Decreased
  <2>2. CASE sock[s] # "open" /\ UNCHANGED countVars
    <3>1. left[s]
      BY <1>1, <2>2, Parts DEF CloseFollows
    <3>2. left' = [left EXCEPT ![s] = TRUE] /\ Counted \ {s} = Counted
      BY <3>1, <2>2, Parts DEF Counted, countVars, TypeOK
    <3> QED
      BY <2>2, <3>1, <3>2, Parts DEF countVars, TypeOK, ConnectionsCounted
  <2> QED
    BY <2>1, <2>2 DEF NextTick
<1>3. TypeOK'
  <2>1. logined' \in SUBSET Uids
    BY <1>2, Parts DEF TypeOK
  <2>2. sock' \in [Sids -> SockStates] /\ left' \in [Sids -> BOOLEAN] /\ ticks' \in SUBSET Sids
    BY <1>1, <1>2, Parts DEF TypeOK, SockStates
  <2> QED
    BY <1>1, <1>2, <2>1, <2>2, Parts DEF TypeOK
<1>4. UidMapExact'
  BY <1>1, Parts DEF UidMapExact, NoDuplicates, Listed
<1>5. SessionHasSocket' /\ CloseFollows'
  BY <1>1, <1>2, Parts DEF SessionHasSocket, CloseFollows, TypeOK
<1>6. Counted' = Counted \ {s}
  BY <1>1, <1>2, Parts DEF Counted, TypeOK
<1>7. LoginedHasSession'
  <2> SUFFICES ASSUME NEW u \in logined' PROVE \E t \in Counted' : uid'[t] = u
    BY <1>2 DEF LoginedHasSession
  <2>1. u \in logined
    BY <1>2
  <2>2. PICK t \in Counted : uid[t] = u
    BY <2>1, Parts DEF LoginedHasSession
  <2>3. t # s
    BY <1>2, <2>2 DEF Counted
  <2> QED
    BY <1>1, <1>6, <2>2, <2>3
<1>8. SingleSessionHolds'
  BY <1>1, Parts DEF SingleSessionHolds
<1>9. ConnectionsCounted'
  BY <1>2, <1>6 DEF ConnectionsCounted
<1> QED
  BY <1>2, <1>3, <1>4, <1>5, <1>7, <1>8, <1>9 DEF IInv

\* A kick closes the session and leaves the rest to the nextTick callback.
LEMMA KickedStep ==
    ASSUME IInv, NEW s \in Sids, s \in sessions, CloseSession(s),
           UNCHANGED <<sock, countVars, kickUid>>, kickAt' \in Nat \ {0}
    PROVE  IInv'
<1>1. /\ sess[s] = "INITED" /\ sock[s] = "open" /\ ~left[s]
      /\ sess' = [sess EXCEPT ![s] = "CLOSED"] /\ sessions' = sessions \ {s}
      /\ ticks' = ticks \cup {s}
      /\ UNCHANGED <<uid, sock, left, connCount, logined, loginedCount, kickUid>>
  BY Parts DEF CloseSession, SessionHasSocket, countVars
<1>3. uidMap' \in [Uids -> Seq(Sids)] /\ UidMapExact'
  BY Closed
<1>4. TypeOK'
  BY <1>1, <1>3, Parts DEF TypeOK
<1>5. SessionHasSocket' /\ CloseFollows'
  BY <1>1, Parts DEF SessionHasSocket, CloseFollows, TypeOK
<1>6. Counted' = Counted
  BY <1>1, Parts DEF Counted, TypeOK
<1>7. LoginedHasSession' /\ IsFiniteSet(logined')
  BY <1>1, <1>6, Parts DEF LoginedHasSession
<1>8. SingleSessionHolds'
  BY <1>1, Parts DEF SingleSessionHolds
<1>9. ConnectionsCounted'
  BY <1>1, <1>6, Parts DEF ConnectionsCounted
<1> QED
  BY <1>3, <1>4, <1>5, <1>7, <1>8, <1>9 DEF IInv

LEMMA BindStep ==
    ASSUME FalsyUids = {}, IInv, NEW s \in Sids, NEW u \in Uids, Bind(s, u)
    PROVE  IInv'
<1>1. /\ s \in sessions /\ s \notin Listed(u) /\ uid[s] = None /\ s \in Counted
      /\ SingleSession => uidMap[u] = <<>>
      /\ uid' = [uid EXCEPT ![s] = u]
      /\ UNCHANGED <<sock, sess, sessions, left, connCount, ticks, kickUid, kickAt>>
  BY Parts DEF Bind, Truthy, kickVars, TypeOK
<1>2. /\ logined' = logined \cup {u} /\ IsFiniteSet(logined')
      /\ loginedCount' \in Nat /\ loginedCount' = Cardinality(logined')
  BY AddedLogin DEF Bind
<1>3. /\ uidMap' \in [Uids -> Seq(Sids)]
      /\ NoDuplicates'
      /\ \A v \in Uids : Listed(v)' = IF v = u THEN Listed(v) \cup {s} ELSE Listed(v)
  BY <1>1, Parts, AppendedLists DEF Bind
<1>4. TypeOK'
  BY <1>1, <1>2, <1>3, Parts DEF TypeOK
<1>5. UidMapExact'
  <2>1. \A v \in Uids : {t \in sessions' : uid'[t] = v}
            = IF v = u THEN Listed(v) \cup {s} ELSE Listed(v)
    BY <1>1, Parts DEF TypeOK
  <2> QED
    BY <1>3, <2>1 DEF UidMapExact
<1>6. SessionHasSocket' /\ CloseFollows'
  BY <1>1, Parts DEF SessionHasSocket, CloseFollows, TypeOK
<1>7. Counted' = Counted
  BY <1>1 DEF Counted
<1>8. LoginedHasSession'
  <2>1. uid'[s] = u /\ \A t \in Sids : t # s => uid'[t] = uid[t]
    BY <1>1, Parts DEF TypeOK
  <2>2. ASSUME NEW v \in logined, v # u
        PROVE  \E t \in Counted : uid'[t] = v
    <3>1. PICK t \in Counted : uid[t] = v
      BY Parts DEF LoginedHasSession
    <3>2. t \in Sids /\ t # s
      BY <1>1, <2>2, <3>1, Parts DEF Counted, TypeOK
    <3> QED
      BY <2>1, <3>1, <3>2
  <2> QED
    BY <1>1, <1>2, <1>7, <2>1, <2>2 DEF LoginedHasSession
<1>9. SingleSessionHolds'
  <2>1. SingleSession => \A t \in sessions : uid[t] # u
    <3> SUFFICES ASSUME SingleSession, NEW t \in sessions, uid[t] = u PROVE FALSE
      OBVIOUS
    <3>1. t \in Listed(u)
      BY Parts
    <3>2. Listed(u) = {}
      BY <1>1 DEF Listed
    <3> QED
      BY <3>1, <3>2
  <2> QED
    BY <1>1, <2>1, Parts DEF SingleSessionHolds, TypeOK
<1>10. ConnectionsCounted'
  BY <1>1, <1>7, Parts DEF ConnectionsCounted
<1> QED
  BY <1>2, <1>4, <1>5, <1>6, <1>8, <1>9, <1>10 DEF IInv

LEMMA UnbindStep ==
    ASSUME IInv, NEW s \in Sids, NEW u \in Uids, Unbind(s, u)
    PROVE  IInv'
<1>1. /\ s \in sessions /\ uid[s] = u
      /\ uid' = [uid EXCEPT ![s] = None] /\ uidMap' = Unlisted(s, u)
      /\ UNCHANGED <<sock, sess, sessions, left, connCount, ticks, kickUid, kickAt>>
  BY DEF Unbind, kickVars
<1>2. /\ logined' = logined \ {u} /\ IsFiniteSet(logined')
      /\ loginedCount' \in Nat /\ loginedCount' = Cardinality(logined')
  BY RemovedLogin DEF Unbind
<1>3. /\ uidMap' \in [Uids -> Seq(Sids)]
      /\ NoDuplicates'
      /\ \A v \in Uids : Listed(v)' = IF v = u THEN Listed(v) \ {s} ELSE Listed(v)
  BY <1>1, Parts, UnlistedLists
<1>4. TypeOK'
  BY <1>1, <1>2, <1>3, Parts DEF TypeOK
<1>5. UidMapExact'
  <2>1. \A v \in Uids : {t \in sessions' : uid'[t] = v}
            = IF v = u THEN Listed(v) \ {s} ELSE Listed(v)
    BY <1>1, Parts DEF TypeOK
  <2> QED
    BY <1>3, <2>1 DEF UidMapExact
<1>6. SessionHasSocket' /\ CloseFollows'
  BY <1>1, Parts DEF SessionHasSocket, CloseFollows, TypeOK
<1>7. Counted' = Counted
  BY <1>1 DEF Counted
<1>8. LoginedHasSession'
  BY <1>1, <1>2, <1>7, Parts DEF LoginedHasSession, TypeOK
<1>9. SingleSessionHolds'
  BY <1>1, Parts DEF SingleSessionHolds, TypeOK
<1>10. ConnectionsCounted'
  BY <1>1, <1>7, Parts DEF ConnectionsCounted
<1> QED
  BY <1>2, <1>4, <1>5, <1>6, <1>8, <1>9, <1>10 DEF IInv

LEMMA NextStep == ASSUME FalsyUids = {} PROVE IInv /\ [Next]_vars => IInv'
<1> SUFFICES ASSUME IInv, [Next]_vars PROVE IInv'
  OBVIOUS
<1>1. ASSUME NEW s \in Sids, ConnectionRefused(s) PROVE IInv'
  <2>1. /\ sock' = [sock EXCEPT ![s] = "closed"] /\ sock[s] = "none" /\ s \notin sessions
        /\ sess[s] = "none"
        /\ UNCHANGED <<sess, sessions, uid, uidMap, left, connCount, logined, loginedCount,
                       ticks, kickUid, kickAt>>
    BY <1>1, Parts DEF ConnectionRefused, sessionVars, countVars, kickVars, SessionHasSocket, CloseFollows
  <2>2. TypeOK' /\ SessionHasSocket' /\ CloseFollows'
    BY <2>1, Parts DEF TypeOK, SockStates, SessionHasSocket, CloseFollows
  <2>3. Counted' = Counted
    BY <2>1 DEF Counted
  <2>4. UidMapExact' /\ SingleSessionHolds' /\ LoginedHasSession' /\ ConnectionsCounted'
    BY <2>1, <2>3, Parts
    DEF UidMapExact, NoDuplicates, Listed, SingleSessionHolds, LoginedHasSession, ConnectionsCounted
  <2> QED
    BY <2>1, <2>2, <2>4, Parts DEF IInv
<1>2. ASSUME NEW s \in Sids, ClientClosed(s) \/ SocketError(s) \/ SocketClosed(s) PROVE IInv'
  <2>1. CASE ClientClosed(s)
    <3>1. Dropped(s) /\ sock' = [sock EXCEPT ![s] = "gone"] /\ "gone" \in SockStates \ {"none"}
      BY <2>1 DEF ClientClosed, SockStates
    <3> QED
      BY <3>1, DroppedStep
  <2>2. CASE SocketError(s)
    <3>1. Dropped(s) /\ sock' = [sock EXCEPT ![s] = "open"] /\ "open" \in SockStates \ {"none"}
      BY <2>2, Parts DEF SocketError, Dropped, SockStates, TypeOK
    <3> QED
      BY <3>1, DroppedStep
  <2>3. CASE SocketClosed(s)
    <3>1. Dropped(s) /\ sock' = [sock EXCEPT ![s] = "closed"] /\ "closed" \in SockStates \ {"none"}
      BY <2>3 DEF SocketClosed, SockStates
    <3> QED
      BY <3>1, DroppedStep
  <2> QED
    BY <1>2, <2>1, <2>2, <2>3
<1>3. ASSUME NEW s \in Sids, KickBySessionId(s) PROVE IInv'
  <2>1. /\ s \in sessions /\ CloseSession(s) /\ kickAt' \in Nat \ {0}
        /\ UNCHANGED <<sock, countVars, kickUid>>
    BY <1>3, Parts DEF KickBySessionId, kickVars, TypeOK
  <2> QED
    BY <2>1, KickedStep
<1>4. ASSUME KickStep PROVE IInv'
  <2> DEFINE s == uidMap[kickUid][kickAt]
  <2>1. /\ kickUid \in Uids /\ kickAt \in 1..Len(uidMap[kickUid])
        /\ UNCHANGED <<sock, countVars, kickUid>> /\ kickAt' \in Nat \ {0}
        /\ \/ sess[s] = "INITED" /\ CloseSession(s)
           \/ sess[s] # "INITED" /\ UNCHANGED <<sessionVars, ticks>>
    BY <1>4, Parts DEF KickStep, TypeOK
  <2>2. s \in Listed(kickUid)
    BY <2>1 DEF Listed
  <2>3. s \in Sids /\ s \in sessions
    BY <2>1, <2>2, Parts DEF TypeOK
  <2> HIDE DEF s
  <2>4. sess[s] = "INITED"
    BY <2>3, Parts DEF SessionHasSocket
  <2> QED
    BY <2>1, <2>3, <2>4, KickedStep
<1>5. ASSUME \/ \E u \in Uids : KickByUid(u)
             \/ KickDone
             \/ UNCHANGED vars
      PROVE  IInv'
  <2>1. /\ UNCHANGED <<sock, sess, sessions, uid, uidMap, left, connCount, logined, loginedCount, ticks>>
        /\ kickUid' \in Uids \cup {None} /\ kickAt' \in Nat \ {0}
    BY <1>5, Parts
    DEF KickByUid, KickDone, vars, sessionVars, countVars, kickVars, TypeOK
  <2>2. TypeOK' /\ SessionHasSocket' /\ CloseFollows'
    BY <2>1, Parts DEF TypeOK, SessionHasSocket, CloseFollows
  <2>3. Counted' = Counted
    BY <2>1 DEF Counted
  <2>4. UidMapExact' /\ SingleSessionHolds' /\ LoginedHasSession' /\ ConnectionsCounted'
    BY <2>1, <2>3, Parts
    DEF UidMapExact, NoDuplicates, Listed, SingleSessionHolds, LoginedHasSession, ConnectionsCounted
  <2> QED
    BY <2>1, <2>2, <2>4, Parts DEF IInv
<1> QED
  BY <1>1, <1>2, <1>3, <1>4, <1>5, AcceptedStep, NextTickStep, BindStep, UnbindStep
  DEF Next, SocketEvent, KickLoop

-----------------------------------------------------------------------------
(* The results.  Each assumes that no uid is falsy.                        *)

\* The inductive invariant holds in every reachable state.
THEOREM Invariance == ASSUME FalsyUids = {} PROVE Spec => []IInv
<1>1. Init => IInv
  BY InitHolds
<1>2. IInv /\ [Next]_vars => IInv'
  BY NextStep
<1> QED
  BY <1>1, <1>2, PTL DEF Spec

\* Every variable keeps its type; loginedCount never falls below zero.
THEOREM TypeCorrect == ASSUME FalsyUids = {} PROVE Spec => []TypeOK
<1>1. IInv => TypeOK
  BY DEF IInv
<1> QED
  BY <1>1, Invariance, PTL

\* The list of a uid holds exactly the registered sessions bound to it.
THEOREM UidMapCorrect == ASSUME FalsyUids = {} PROVE Spec => []UidMapExact
<1>1. IInv => UidMapExact
  BY DEF IInv
<1> QED
  BY <1>1, Invariance, PTL

\* No session outlives its connection.
THEOREM SessionsConnected == ASSUME FalsyUids = {} PROVE Spec => []SessionHasSocket
<1>1. IInv => SessionHasSocket
  BY DEF IInv
<1> QED
  BY <1>1, Invariance, PTL

\* Each connection is counted once and given back once; the limit holds.
THEOREM ConnectionCountExact == ASSUME FalsyUids = {} PROVE Spec => []ConnectionsCounted
<1>1. IInv => ConnectionsCounted
  BY DEF IInv
<1> QED
  BY <1>1, Invariance, PTL

\* Nobody stays logined after the last of their sockets has left.
THEOREM LoginsJustified == ASSUME FalsyUids = {} PROVE Spec => []LoginedHasSession
<1>1. IInv => LoginedHasSession
  BY DEF IInv
<1> QED
  BY <1>1, Invariance, PTL

\* singleSession keeps a user to one session.
THEOREM OneSessionPerUser == ASSUME FalsyUids = {} PROVE Spec => []SingleSessionHolds
<1>1. IInv => SingleSessionHolds
  BY DEF IInv
<1> QED
  BY <1>1, Invariance, PTL

\* The session table, the uid lists and the sockets agree.
THEOREM TablesCorrect == ASSUME FalsyUids = {} PROVE Spec => []TablesAgree
BY TypeCorrect, UidMapCorrect, SessionsConnected, PTL DEF TablesAgree

\* Connections and logins are counted exactly.
THEOREM StatisticsCorrect == ASSUME FalsyUids = {} PROVE Spec => []StatisticsExact
BY ConnectionCountExact, LoginsJustified, PTL DEF StatisticsExact

\* No late call revives a closed session.
THEOREM ClosedIsFinal == ASSUME FalsyUids = {} PROVE Spec => ClosedSessionStaysClosed
<1> DEFINE Final(s) == sess[s] = "CLOSED" =>
               sess'[s] = "CLOSED" /\ s \notin sessions' /\ uid'[s] = uid[s]
<1>1. ASSUME IInv, [Next]_vars, NEW s \in Sids, sess[s] = "CLOSED"
      PROVE  sess'[s] = "CLOSED" /\ s \notin sessions' /\ uid'[s] = uid[s]
  <2>1. s \notin sessions /\ sock[s] # "none"
    BY <1>1, Parts DEF SessionHasSocket, CloseFollows
  <2>2. ASSUME NEW t \in Sids, CloseSession(t) PROVE Final(s)
    BY <1>1, <2>1, <2>2, Parts DEF CloseSession, TypeOK
  <2>3. ASSUME NEW t \in Sids, SocketEvent(t) \/ NextTick(t) \/ KickBySessionId(t) PROVE Final(s)
    BY <1>1, <2>1, <2>2, <2>3, Parts
    DEF SocketEvent, NextTick, KickBySessionId, ConnectionAccepted, ConnectionRefused,
        ClientClosed, SocketError, SocketClosed, Dropped, sessionVars, TypeOK
  <2>4. ASSUME NEW t \in Sids, NEW u \in Uids, Bind(t, u) \/ Unbind(t, u) PROVE Final(s)
    BY <1>1, <2>1, <2>4, Parts DEF Bind, Unbind, TypeOK
  <2>5. ASSUME KickStep PROVE Final(s)
    <3> DEFINE t == uidMap[kickUid][kickAt]
    <3>1. kickUid \in Uids /\ kickAt \in 1..Len(uidMap[kickUid])
      BY <1>1, <2>5, Parts DEF KickStep, TypeOK
    <3>2. t \in Sids
      BY <1>1, <3>1, Parts DEF TypeOK
    <3>3. CloseSession(t) \/ UNCHANGED sessionVars
      BY <2>5 DEF KickStep
    <3> HIDE DEF t
    <3> QED
      BY <1>1, <2>1, <2>2, <3>2, <3>3 DEF sessionVars
  <2>6. ASSUME (\E u \in Uids : KickByUid(u)) \/ KickDone \/ UNCHANGED vars PROVE Final(s)
    BY <1>1, <2>1, <2>6 DEF KickByUid, KickDone, vars, sessionVars
  <2> QED
    BY <1>1, <2>3, <2>4, <2>5, <2>6 DEF Next, KickLoop
<1>2. IInv /\ [Next]_vars => [\A s \in Sids : Final(s)]_vars
  BY <1>1
<1> QED
  BY <1>2, Invariance, PTL DEF Spec, ClosedSessionStaysClosed

-----------------------------------------------------------------------------
(* The channels of a backend server.                                       *)

\* deleteFromArr() takes out the one occurrence there is, and nothing else.
LEMMA WithoutList ==
    ASSUME NEW S, NEW q \in Seq(S), NEW u,
           \A i, j \in 1 .. Len(q) : q[i] = q[j] => i = j
    PROVE  LET r == Without(q, u) IN
           /\ r \in Seq(S)
           /\ \A i, j \in 1 .. Len(r) : r[i] = r[j] => i = j
           /\ \A v : (\E i \in 1 .. Len(r) : r[i] = v) <=> v # u /\ \E i \in 1 .. Len(q) : q[i] = v
           /\ Len(r) = IF \E i \in 1 .. Len(q) : q[i] = u THEN Len(q) - 1 ELSE Len(q)
<1> DEFINE k == CHOOSE k \in 1 .. Len(q) : q[k] = u
<1>1. CASE ~\E i \in 1 .. Len(q) : q[i] = u
  BY <1>1 DEF Without
<1>2. CASE \E i \in 1 .. Len(q) : q[i] = u
  <2>1. k \in 1 .. Len(q) /\ q[k] = u
    BY <1>2
  <2>2. Without(q, u) = Spliced(q, k)
    BY <1>2 DEF Without
  <2> HIDE DEF k
  <2>3. /\ Spliced(q, k) \in Seq(S)
        /\ {Spliced(q, k)[i] : i \in 1 .. Len(Spliced(q, k))} = {q[i] : i \in 1 .. Len(q)} \ {q[k]}
        /\ \A i, j \in 1 .. Len(Spliced(q, k)) : Spliced(q, k)[i] = Spliced(q, k)[j] => i = j
    BY <2>1, SplicedList
  <2>4. Len(Spliced(q, k)) = Len(q) - 1
    <3>1. Len(q) - 1 \in Nat
      BY <2>1
    <3> QED
      BY <3>1 DEF Spliced
  <2>5. \A v : (\E i \in 1 .. Len(Spliced(q, k)) : Spliced(q, k)[i] = v)
                <=> v # u /\ \E i \in 1 .. Len(q) : q[i] = v
    <3> DEFINE sp == Spliced(q, k)
    <3>1. {sp[i] : i \in 1 .. Len(sp)} = {q[i] : i \in 1 .. Len(q)} \ {u}
      BY <2>1, <2>3
    <3> HIDE DEF sp
    <3>2. \A v : v \in {sp[i] : i \in 1 .. Len(sp)} <=> v \in {q[i] : i \in 1 .. Len(q)} \ {u}
      BY <3>1
    <3>3. \A v : (\E i \in 1 .. Len(sp) : sp[i] = v) <=> v # u /\ \E i \in 1 .. Len(q) : q[i] = v
      <4> SUFFICES ASSUME NEW v
                   PROVE  (\E i \in 1 .. Len(sp) : sp[i] = v) <=> v # u /\ \E i \in 1 .. Len(q) : q[i] = v
        OBVIOUS
      <4>1. v \in {sp[i] : i \in 1 .. Len(sp)} <=> \E i \in 1 .. Len(sp) : sp[i] = v
        OBVIOUS
      <4>2. v \in {q[i] : i \in 1 .. Len(q)} <=> \E i \in 1 .. Len(q) : q[i] = v
        OBVIOUS
      <4> QED
        BY <3>2, <4>1, <4>2
    <3> QED
      BY <3>3 DEF sp
  <2> QED
    BY <1>2, <2>2, <2>3, <2>4, <2>5
<1> QED
  BY <1>1, <1>2

\* The members are counted group by group.
LEMMA MembersCounted ==
    ASSUME NEW f \in Servers, NEW d \in Int,
           \A g \in Servers : Len(groups[g]) \in Nat,
           Len(groups[f])' = Len(groups[f]) + d,
           \A g \in Servers : g # f => Len(groups[g])' = Len(groups[g])
    PROVE  Members \in Nat /\ Members' = Members + d
<1> DEFINE a == Len(groups[Here])
           b == Len(groups[There])
<1>1. Members = a + b /\ Members' = a' + b'
  BY DEF Members
<1>2. a \in Nat /\ b \in Nat
  BY DEF Servers
<1>3. (a' = a + d /\ b' = b) \/ (a' = a /\ b' = b + d)
  <2>1. CASE f = Here
    BY <2>1, ServersAssumption DEF Servers
  <2>2. CASE f = There
    BY <2>2, ServersAssumption DEF Servers
  <2> QED
    BY <2>1, <2>2 DEF Servers
<1> HIDE DEF a, b
<1>4. CASE a' = a + d /\ b' = b
  BY <1>1, <1>2, <1>4
<1>5. CASE a' = a /\ b' = b + d
  BY <1>1, <1>2, <1>5
<1> QED
  BY <1>3, <1>4, <1>5

\* So they are at least the members of one group.
LEMMA MembersAtLeast ==
    ASSUME NEW f \in Servers, \A g \in Servers : Len(groups[g]) \in Nat
    PROVE  Len(groups[f]) <= Members
<1> DEFINE a == Len(groups[Here])
           b == Len(groups[There])
<1>1. Members = a + b /\ a \in Nat /\ b \in Nat
  BY DEF Members, Servers
<1>2. Len(groups[f]) = a \/ Len(groups[f]) = b
  BY DEF Servers
<1> HIDE DEF a, b
<1> QED
  BY <1>1, <1>2

-----------------------------------------------------------------------------
\* Everything ChannelSound speaks of, but the mailbox and the bounds.
LEMMA InitSound == BInit => ChannelSound
<1> SUFFICES ASSUME BInit PROVE ChannelSound
  OBVIOUS
<1>1. BTypeOK
  <2>1. groups \in [Servers -> Seq(Uids)] /\ records \in [Uids -> Servers \union {None}]
    BY DEF BInit
  <2>2. cache \in [Servers -> SUBSET Uids] /\ reads \subseteq SUBSET Uids
    BY DEF BInit
  <2>3. calls \in 0 .. MaxCalls /\ pushes \in 0 .. MaxPushes
    BY BoundsAssumption DEF BInit
  <2>4. opener = None /\ line = <<>>
    BY DEF BInit
  <2> QED
    BY <2>1, <2>2, <2>3, <2>4 DEF BInit, BTypeOK
<1>2. \A f \in Servers : Len(groups[f]) = 0
  BY DEF BInit
<1>3. NobodyTwice /\ RecordsNameGroups
  BY <1>2 DEF BInit, NobodyTwice, RecordsNameGroups
<1>4. AmountFits
  BY <1>2 DEF BInit, AmountFits, Members, Servers
<1> QED
  BY <1>1, <1>3, <1>4 DEF ChannelSound

\* A step that leaves the channel alone keeps what is said of it.
LEMMA ChannelKept ==
    ASSUME ChannelSound, UNCHANGED channel, BTypeOK'
    PROVE  ChannelSound'
BY DEF ChannelSound, channel, NobodyTwice, RecordsNameGroups, InGroup, AmountFits, Members

\* A call changes the mailbox and the counters.
LEMMA CallTyped ==
    ASSUME BTypeOK, NEW c, Call(c), UNCHANGED <<use, channel, cache>>, reads' \subseteq SUBSET Uids,
           pushes' \in 0 .. MaxPushes
    PROVE  BTypeOK'
BY BoundsAssumption DEF BTypeOK, Call, channel

\* A push counts itself, too.
LEMMA PushTyped ==
    ASSUME BTypeOK, NEW op, NEW to, NEW who, Push(op, to, who),
           UNCHANGED <<use, channel, cache>>, reads' \subseteq SUBSET Uids
    PROVE  BTypeOK'
<1>1. pushes' \in 0 .. MaxPushes
  BY BoundsAssumption DEF Push, BTypeOK
<1> QED
  BY <1>1, CallTyped DEF Push

\* add() of a user who is not in the group.
LEMMA AddSound ==
    ASSUME ChannelSound, NEW u \in Uids, NEW f \in Servers, Add(u, f)
    PROVE  ChannelSound'
<1> DEFINE q == groups[f]
<1>1. /\ q \in Seq(Uids) /\ ~InGroup(u, f)
      /\ groups' = [groups EXCEPT ![f] = Append(q, u)]
      /\ records' = [records EXCEPT ![u] = f]
      /\ userAmount' = userAmount + 1 /\ strays' = strays
      /\ groups \in [Servers -> Seq(Uids)] /\ records \in [Uids -> Servers \union {None}]
      /\ userAmount \in Nat /\ strays \in BOOLEAN
  BY DEF ChannelSound, BTypeOK, Add
<1>2. /\ Len(Append(q, u)) = Len(q) + 1 /\ Append(q, u) \in Seq(Uids)
      /\ \A i \in 1 .. Len(q) : Append(q, u)[i] = q[i]
      /\ Append(q, u)[Len(q) + 1] = u
  BY <1>1
<1>3. /\ groups' \in [Servers -> Seq(Uids)] /\ groups'[f] = Append(q, u)
      /\ \A g \in Servers : g # f => groups'[g] = groups[g]
  BY <1>1, <1>2
<1>4. BTypeOK'
  <2>1. opener' # None => link' = "connecting"
    BY DEF ChannelSound, BTypeOK, Add
  <2> QED
    BY <1>1, <1>3, <2>1 DEF ChannelSound, BTypeOK, Add, pushing
<1>5. NobodyTwice'
  BY <1>1, <1>2, <1>3 DEF ChannelSound, NobodyTwice, InGroup
<1>6. RecordsNameGroups'
  <2> SUFFICES ASSUME NEW v \in Uids, records'[v] # None PROVE InGroup(v, records[v])'
    BY DEF RecordsNameGroups
  <2>1. CASE v = u
    BY <1>1, <1>2, <1>3, <2>1 DEF InGroup
  <2>2. CASE v # u
    <3>1. records'[v] = records[v] /\ InGroup(v, records[v])
      BY <1>1, <2>2 DEF ChannelSound, RecordsNameGroups
    <3>2. records[v] \in Servers
      BY <1>1, <3>1
    <3> QED
      BY <1>1, <1>2, <1>3, <3>1, <3>2 DEF InGroup
  <2> QED
    BY <2>1, <2>2
<1>7. AmountFits'
  <2>1. \A g \in Servers : Len(groups[g]) \in Nat
    BY <1>1
  <2>2. Members' = Members + 1 /\ Members \in Nat
    <3>2. Len(groups'[f]) = Len(groups[f]) + 1
      BY <1>2, <1>3
    <3>3. \A g \in Servers : g # f => Len(groups'[g]) = Len(groups[g])
      BY <1>3
    <3> QED
      BY <2>1, <3>2, <3>3, MembersCounted
  <2> QED
    BY <1>1, <2>2 DEF ChannelSound, AmountFits
<1> QED
  BY <1>4, <1>5, <1>6, <1>7 DEF ChannelSound

\* leave(), whether or not the user is in the group.
LEMMA LeaveSound ==
    ASSUME ChannelSound, NEW u \in Uids, NEW f \in Servers, Leave(u, f)
    PROVE  ChannelSound'
<1> DEFINE q == groups[f]
           r == Without(q, u)
<1>1. /\ q \in Seq(Uids)
      /\ groups' = [groups EXCEPT ![f] = r]
      /\ records' = [records EXCEPT ![u] = None]
      /\ userAmount' = IF userAmount > 0 THEN userAmount - 1 ELSE 0
      /\ strays' = (strays \/ ~InGroup(u, f))
      /\ groups \in [Servers -> Seq(Uids)] /\ records \in [Uids -> Servers \union {None}]
      /\ userAmount \in Nat /\ strays \in BOOLEAN
  BY DEF ChannelSound, BTypeOK, Leave
<1>2. \A i, j \in 1 .. Len(q) : q[i] = q[j] => i = j
  BY DEF ChannelSound, NobodyTwice
<1>3. /\ r \in Seq(Uids)
      /\ \A i, j \in 1 .. Len(r) : r[i] = r[j] => i = j
      /\ \A v : (\E i \in 1 .. Len(r) : r[i] = v) <=> v # u /\ \E i \in 1 .. Len(q) : q[i] = v
      /\ Len(r) = IF \E i \in 1 .. Len(q) : q[i] = u THEN Len(q) - 1 ELSE Len(q)
  BY <1>1, <1>2, WithoutList
<1> HIDE DEF r
<1>4. /\ groups' \in [Servers -> Seq(Uids)] /\ groups'[f] = r
      /\ \A g \in Servers : g # f => groups'[g] = groups[g]
  BY <1>1, <1>3
<1>5. BTypeOK'
  <2>1. opener' # None => link' = "connecting"
    BY DEF ChannelSound, BTypeOK, Leave
  <2> QED
    BY <1>1, <1>4, <2>1 DEF ChannelSound, BTypeOK, Leave, pushing
<1>6. NobodyTwice'
  BY <1>3, <1>4 DEF ChannelSound, NobodyTwice
<1>7. RecordsNameGroups'
  <2> SUFFICES ASSUME NEW v \in Uids, records'[v] # None PROVE InGroup(v, records[v])'
    BY DEF RecordsNameGroups
  <2>1. v # u /\ records'[v] = records[v] /\ InGroup(v, records[v])
    BY <1>1 DEF ChannelSound, RecordsNameGroups
  <2>2. records[v] \in Servers
    BY <1>1, <2>1
  <2>3. CASE records[v] = f
    <3>1. \E i \in 1 .. Len(q) : q[i] = v
      BY <2>1, <2>3 DEF InGroup
    <3>2. \E i \in 1 .. Len(r) : r[i] = v
      BY <1>3, <2>1, <3>1
    <3> QED
      BY <1>4, <2>1, <2>3, <3>2 DEF InGroup
  <2>4. CASE records[v] # f
    BY <1>4, <2>1, <2>2, <2>4 DEF InGroup
  <2> QED
    BY <2>3, <2>4
<1>8. AmountFits'
  <2>1. \A g \in Servers : Len(groups[g]) \in Nat
    BY <1>1
  <2>2. Members \in Nat /\ Members' = IF InGroup(u, f) THEN Members - 1 ELSE Members
    <3>2. Len(r) = IF InGroup(u, f) THEN Len(q) - 1 ELSE Len(q)
      BY <1>3 DEF InGroup
    <3>3. Len(groups'[f]) = IF InGroup(u, f) THEN Len(groups[f]) - 1 ELSE Len(groups[f])
      BY <1>4, <3>2
    <3>4. \A g \in Servers : g # f => Len(groups'[g]) = Len(groups[g])
      BY <1>4
    <3> DEFINE len == Len(groups[f])
    <3>5. CASE InGroup(u, f)
      <4>1. len' = len - 1 /\ len \in Nat
        BY <2>1, <3>3, <3>5
      <4> HIDE DEF len
      <4>2. len' = len + (0 - 1)
        BY <4>1
      <4>3. 0 - 1 \in Int
        OBVIOUS
      <4>4. Len(groups'[f]) = Len(groups[f]) + (0 - 1)
        BY <4>2 DEF len
      <4>5. Members \in Nat /\ Members' = Members + (0 - 1)
        BY <2>1, <3>4, <4>3, <4>4, MembersCounted
      <4> QED
        BY <3>5, <4>5
    <3>6. CASE ~InGroup(u, f)
      <4>1. len' = len /\ len \in Nat
        BY <2>1, <3>3, <3>6
      <4> HIDE DEF len
      <4>2. len' = len + 0
        BY <4>1
      <4>3. Members \in Nat /\ Members' = Members + 0
        BY <2>1, <3>4, <4>2, MembersCounted DEF len
      <4> QED
        BY <3>6, <4>3
    <3> QED
      BY <3>5, <3>6
  <2>3. InGroup(u, f) => Members > 0
    <3>1. InGroup(u, f) => Len(q) > 0
      BY <2>1 DEF InGroup
    <3> QED
      BY <2>1, <2>2, <3>1, MembersAtLeast
  <2>4. userAmount <= Members /\ (~strays => userAmount = Members)
    BY DEF ChannelSound, AmountFits
  <2>5. CASE InGroup(u, f)
    BY <1>1, <2>2, <2>3, <2>4, <2>5 DEF AmountFits
  <2>6. CASE ~InGroup(u, f)
    <3>1. Members' = Members /\ Members \in Nat
      BY <2>2, <2>6
    <3>2. strays'
      BY <2>6 DEF Leave
    <3>3. userAmount' <= Members
      BY <1>1, <2>4, <3>1
    <3> QED
      BY <3>1, <3>2, <3>3 DEF AmountFits
  <2> QED
    BY <2>5, <2>6
<1> QED
  BY <1>5, <1>6, <1>7, <1>8 DEF ChannelSound

-----------------------------------------------------------------------------
\* Every step keeps the channel's bookkeeping.
LEMMA StepSound == ChannelSound /\ [BNext]_bvars => ChannelSound'
<1> SUFFICES ASSUME ChannelSound, [BNext]_bvars PROVE ChannelSound'
  OBVIOUS
<1>0. BTypeOK
  BY DEF ChannelSound
<1>1. ASSUME UNCHANGED backend PROVE ChannelSound'
  BY <1>1 DEF backend, mailbox, channel, pushing, ChannelSound, BTypeOK, NobodyTwice,
     RecordsNameGroups, InGroup, AmountFits, Members
<1>2. CASE SessionCall
  BY <1>0, <1>2, CallTyped, ChannelKept DEF SessionCall, pushing, BTypeOK
<1>3. CASE SendMessage \/ PushMessageByUids \/ Broadcast \/ PushMessage
  BY <1>0, <1>3, PushTyped, ChannelKept
  DEF SendMessage, PushMessageByUids, Broadcast, PushMessage, BTypeOK
<1>4. CASE GlobalPush
  BY <1>0, <1>4, PushTyped, ChannelKept DEF GlobalPush
<1>5. CASE Connected \/ ConnectFailed \/ Disconnected
  BY <1>0, <1>5, ChannelKept DEF Connected, ConnectFailed, Disconnected, BTypeOK, channel, pushing
<1>6. CASE \E u \in Uids, f \in Servers : Add(u, f) \/ Leave(u, f)
  BY <1>6, AddSound, LeaveSound
<1>7. CASE \/ \E u \in Uids, f \in Servers : GlobalAdd(u, f) \/ GlobalLeave(u, f)
           \/ \E f \in Servers : GlobalDestroy(f)
           \/ GlobalRead
  <2>1. BTypeOK'
    BY <1>0, <1>7 DEF GlobalAdd, GlobalLeave, GlobalDestroy, GlobalRead, BTypeOK, channel, mailbox,
       pushing, Servers
  <2> QED
    BY <1>7, <2>1, ChannelKept DEF GlobalAdd, GlobalLeave, GlobalDestroy, GlobalRead
<1>8. CASE Destroy
  BY <1>8 DEF Destroy, mailbox, pushing, ChannelSound, BTypeOK, NobodyTwice,
     RecordsNameGroups, InGroup, AmountFits, Members
<1>9. CASE RemoteStep
  <2>1. \E op : Taken(op)
    BY <1>9 DEF RemoteStep, RemoteBind, RemoteUnbind, RemoteKick, RemoteKickByUid, RemoteSend,
       RemotePush, RemoteBroadcast
  <2>2. BTypeOK' /\ UNCHANGED channel
    BY <1>0, <2>1 DEF Taken, BTypeOK, channel
  <2> QED
    BY <2>2, ChannelKept
<1> QED
  BY <1>1, <1>2, <1>3, <1>4, <1>5, <1>6, <1>7, <1>8, <1>9
  DEF BNext, BackendStep, SocketStep, LocalCall, KickLoopStep, bvars

\* A channel's groups, records and count agree, for every set of users and
\* whatever the handlers do.  (channelService.ts add, leave)
THEOREM ChannelCorrect == BSpec => []ChannelSound
BY InitSound, StepSound, PTL DEF BSpec

-----------------------------------------------------------------------------
(* Pushes: the calls under way, and what is said of them.                  *)

Numbered == [op : {"send"}, to : Sids, n : 1 .. MaxPushes, who : SUBSET (Sids \union Uids), first : BOOLEAN]
            \union [op : {"push"}, to : Seq(Uids) \union {None}, n : 1 .. MaxPushes,
                    who : SUBSET (Sids \union Uids), first : BOOLEAN]
            \union [op : {"broadcast"}, to : BOOLEAN, n : 1 .. MaxPushes,
                    who : SUBSET (Sids \union Uids), first : BOOLEAN]

CallRecords == [op : {"bind", "unbind"}, sid : Sids, uid : Uids]
               \union [op : {"kick"}, sid : Sids]
               \union [op : {"kickByUid"}, uid : Uids]
               \union Numbered

IsPush(c) == c.op \in {"send", "push", "broadcast"}

\* The calls that will be sent, in their order.
Due == IF link = "up" THEN line ELSE IF link = "connecting" THEN Append(parked, opener) ELSE <<>>

\* A push is meant for those it will be sent to: a list without duplicates, or
\* the members q of the channel, whoever they are when it is sent.
MeantFor(c, q) ==
    /\ c.op = "send" => c.to \in c.who
    /\ c.op = "broadcast" => c.to \/ c.who = Sids
    /\ c.op = "push" =>
          IF c.to = None
          THEN \A i \in 1 .. Len(q) : q[i] \in c.who
          ELSE /\ \A i, j \in 1 .. Len(c.to) : c.to[i] = c.to[j] => i = j
               /\ \A i \in 1 .. Len(c.to) : c.to[i] \in c.who

\* d may come after a push numbered n.
MayFollow(d, n) == d.n # n /\ (n > d.n => d.first)

InOrder(q) ==
    \A i, j \in 1 .. Len(q) : i < j /\ IsPush(q[i]) /\ IsPush(q[j]) => MayFollow(q[j], q[i].n)

NotYet(q) ==
    \A j \in 1 .. Len(q), k \in 1 .. Len(arrived) : IsPush(q[j]) => MayFollow(q[j], arrived[k])

Made(q) == \A i \in 1 .. Len(q) : MeantFor(q[i], groups[Here]) /\ (IsPush(q[i]) => q[i].n <= pushes)

CallsTyped ==
    /\ line \in Seq(CallRecords)
    /\ link = "connecting" =>
          /\ parked \in Seq(CallRecords) /\ opener \in CallRecords
          /\ IsPush(opener) => opener.first
    /\ link \in {"idle", "up"} => parked = <<>>
    /\ arrived \in Seq(1 .. MaxPushes)
    /\ \A k \in 1 .. Len(arrived) : arrived[k] <= pushes

\* What is sent refers to the channel no more.
SentIsFixed == link = "up" => \A i \in 1 .. Len(line) : ~RefersToGroup(line[i])

MembersFinite == IsFiniteSet(cache[Here]) /\ \A members \in reads : IsFiniteSet(members)

CallsSound == CallsTyped /\ SentIsFixed /\ MembersFinite /\ Made(Due) /\ InOrder(Due) /\ NotYet(Due)

SamePush(d, c) == IsPush(d) = IsPush(c) /\ (IsPush(c) => d.n = c.n /\ d.first = c.first)

PushRecords == [op : {"push"}, to : Seq(Uids) \union {None}, n : 1 .. MaxPushes,
                who : SUBSET (Sids \union Uids), first : BOOLEAN]

LEMMA PushIsRecord ==
    ASSUME NEW c \in CallRecords, c.op = "push"
    PROVE  c \in PushRecords
BY DEF CallRecords, Numbered, PushRecords

LEMMA PushRecordIsCall == PushRecords \subseteq CallRecords
BY DEF CallRecords, Numbered, PushRecords

LEMMA PushNumbered ==
    ASSUME NEW c \in CallRecords, IsPush(c)
    PROVE  c.n \in 1 .. MaxPushes /\ c.first \in BOOLEAN
BY DEF CallRecords, Numbered, IsPush

\* What is sent of a call.
LEMMA SerializedSound ==
    ASSUME BTypeOK, NobodyTwice, NEW c \in CallRecords, MeantFor(c, groups[Here])
    PROVE  LET d == Serialized(c) IN
           d \in CallRecords /\ ~RefersToGroup(d) /\ MeantFor(d, groups[Here]) /\ SamePush(d, c)
<1>1. CASE ~RefersToGroup(c)
    BY <1>1 DEF Serialized, SamePush
<1>2. CASE RefersToGroup(c)
    <2> DEFINE d == [c EXCEPT !.to = groups[Here]]
    <2>1. c \in PushRecords /\ c.op = "push" /\ c.to = None
        BY <1>2, PushIsRecord DEF RefersToGroup
    <2>2. groups[Here] \in Seq(Uids) /\ groups[Here] # None
        BY ListsAssumption DEF BTypeOK, Servers
    <2>3. /\ d \in PushRecords /\ d.op = c.op /\ d.n = c.n /\ d.first = c.first
          /\ d.who = c.who /\ d.to = groups[Here]
        BY <2>1, <2>2 DEF PushRecords
    <2> HIDE DEF d
    <2>4. MeantFor(d, groups[Here])
        <3>1. \A i \in 1 .. Len(groups[Here]) : groups[Here][i] \in Uids /\ InGroup(groups[Here][i], Here)
            BY <2>2 DEF InGroup
        <3>2. \A i \in 1 .. Len(groups[Here]) : groups[Here][i] \in c.who
            BY <2>1, <3>1 DEF MeantFor
        <3>3. \A i, j \in 1 .. Len(groups[Here]) : groups[Here][i] = groups[Here][j] => i = j
            BY DEF NobodyTwice, Servers
        <3> QED BY <2>1, <2>2, <2>3, <3>2, <3>3 DEF MeantFor
    <2>5. Serialized(c) = d
        BY <1>2 DEF Serialized, d
    <2> QED BY <2>1, <2>2, <2>3, <2>4, <2>5, PushRecordIsCall DEF RefersToGroup, SamePush, IsPush
<1> QED BY <1>1, <1>2

\* A user who joins is one of those that a push to the channel is meant for.
LEMMA JoiningSound ==
    ASSUME BTypeOK, NEW u \in Uids, NEW f \in Servers, Add(u, f), NEW c \in CallRecords, MeantFor(c, groups[Here])
    PROVE  LET d == Joining(c, u, f) IN
           d \in CallRecords /\ MeantFor(d, groups'[Here]) /\ SamePush(d, c)
<1>1. /\ groups' = [groups EXCEPT ![f] = Append(@, u)]
      /\ groups \in [Servers -> Seq(Uids)] /\ Here \in Servers
    BY DEF Add, BTypeOK, Servers
<1>2. groups'[Here] = IF f = Here THEN Append(groups[Here], u) ELSE groups[Here]
    BY <1>1
<1>3. CASE ~(f = Here /\ RefersToGroup(c))
    <2>1. Joining(c, u, f) = c
        BY <1>3 DEF Joining
    <2>2. MeantFor(c, groups'[Here])
        <3>1. CASE f = Here
            BY <1>3, <3>1 DEF MeantFor, RefersToGroup
        <3>2. CASE f # Here
            BY <1>2, <3>2
        <3> QED BY <3>1, <3>2
    <2> QED BY <2>1, <2>2 DEF SamePush
<1>4. CASE f = Here /\ RefersToGroup(c)
    <2> DEFINE d == [c EXCEPT !.who = c.who \union {u}]
    <2>1. c \in PushRecords /\ c.op = "push" /\ c.to = None
        BY <1>4, PushIsRecord DEF RefersToGroup
    <2>2. /\ d \in PushRecords /\ d.op = c.op /\ d.n = c.n /\ d.first = c.first
          /\ d.who = c.who \union {u} /\ d.to = None
        BY <2>1 DEF PushRecords
    <2> HIDE DEF d
    <2>3. MeantFor(d, groups'[Here])
        <3>1. /\ Len(groups'[Here]) = Len(groups[Here]) + 1
              /\ \A i \in 1 .. Len(groups[Here]) + 1 :
                    groups'[Here][i] = IF i <= Len(groups[Here]) THEN groups[Here][i] ELSE u
              /\ Len(groups[Here]) \in Nat
            BY <1>1, <1>2, <1>4
        <3>2. \A i \in 1 .. Len(groups[Here]) : groups[Here][i] \in c.who
            BY <2>1 DEF MeantFor
        <3>3. \A i \in 1 .. Len(groups'[Here]) : groups'[Here][i] \in c.who \union {u}
            BY <3>1, <3>2
        <3> QED BY <2>1, <2>2, <3>3 DEF MeantFor
    <2>4. Joining(c, u, f) = d
        BY <1>4 DEF Joining, d
    <2> QED BY <2>1, <2>2, <2>3, <2>4, PushRecordIsCall DEF SamePush, IsPush
<1> QED BY <1>3, <1>4

\* One who leaves is not, unless the channel is dropped: then nobody is.
LEMMA LeavingSound ==
    ASSUME BTypeOK, NobodyTwice, NEW u \in Uids, NEW f \in Servers, Leave(u, f),
           NEW c \in CallRecords, MeantFor(c, groups[Here]), NEW d, d = Leaving(c, f)
    PROVE  d \in CallRecords /\ MeantFor(d, groups'[Here]) /\ SamePush(d, c)
<1>1. /\ groups' = [groups EXCEPT ![f] = Without(groups[f], u)]
      /\ groups \in [Servers -> Seq(Uids)] /\ Here \in Servers
    BY DEF Leave, BTypeOK, Servers
<1>2. \A v : InGroup(v, Here)' => InGroup(v, Here)
    <2> DEFINE q == groups[f]
               r == Without(q, u)
    <2>1. q \in Seq(Uids) /\ \A i, j \in 1 .. Len(q) : q[i] = q[j] => i = j
        BY <1>1 DEF NobodyTwice
    <2>2. \A v : (\E i \in 1 .. Len(r) : r[i] = v) <=> v # u /\ \E i \in 1 .. Len(q) : q[i] = v
        BY <2>1, WithoutList
    <2> HIDE DEF r
    <2>3. groups'[Here] = IF f = Here THEN r ELSE groups[Here]
        BY <1>1 DEF r
    <2>4. CASE f = Here
        BY <2>2, <2>3, <2>4 DEF InGroup
    <2>5. CASE f # Here
        BY <2>3, <2>5 DEF InGroup
    <2> QED BY <2>4, <2>5
<1>3. MeantFor(c, groups'[Here])
    <2>1. \A i \in 1 .. Len(groups'[Here]) :
              \E k \in 1 .. Len(groups[Here]) : groups[Here][k] = groups'[Here][i]
        BY <1>2 DEF InGroup
    <2>2. CASE c.op = "push" /\ c.to = None
        <3>1. \A k \in 1 .. Len(groups[Here]) : groups[Here][k] \in c.who
            BY <2>2 DEF MeantFor
        <3> QED BY <2>1, <2>2, <3>1 DEF MeantFor
    <2>3. CASE ~(c.op = "push" /\ c.to = None)
        BY <2>3 DEF MeantFor
    <2> QED BY <2>2, <2>3
<1>4. CASE ~(f = Here /\ groups'[f] = <<>> /\ RefersToGroup(c))
    BY <1>3, <1>4 DEF Leaving, SamePush
<1>5. CASE f = Here /\ groups'[f] = <<>> /\ RefersToGroup(c)
    <2>1. c \in PushRecords /\ c.op = "push"
        BY <1>5, PushIsRecord DEF RefersToGroup
    <2>2. <<>> \in Seq(Uids) /\ Len(<<>>) = 0
        OBVIOUS
    <2>3. <<>> # None
        BY <2>2, ListsAssumption
    <2>4. d = [c EXCEPT !.to = <<>>]
        BY <1>5 DEF Leaving
    <2>5. /\ d \in PushRecords /\ d.op = c.op /\ d.n = c.n /\ d.first = c.first
          /\ d.who = c.who /\ d.to = <<>>
        BY <2>1, <2>2, <2>4 DEF PushRecords
    <2>6. MeantFor(d, groups'[Here])
        BY <2>1, <2>2, <2>3, <2>5 DEF MeantFor
    <2> QED BY <2>1, <2>5, <2>6, PushRecordIsCall DEF SamePush, IsPush
<1> QED BY <1>4, <1>5

LEMMA DueIsList == CallsTyped => Due \in Seq(CallRecords)
BY DEF CallsTyped, Due

\* The calls that are due are rewritten one by one.
LEMMA DueRewritten ==
    ASSUME CallsSound, CallsTyped', SentIsFixed', MembersFinite',
           arrived' = arrived, pushes' = pushes, Len(Due)' = Len(Due),
           \A i \in 1 .. Len(Due) : SamePush(Due[i]', Due[i]) /\ MeantFor(Due[i]', groups'[Here])
    PROVE  CallsSound'
<1>1. Made(Due)'
    BY DEF CallsSound, Made, SamePush
<1>2. InOrder(Due)'
    BY DEF CallsSound, InOrder, MayFollow, SamePush
<1>3. NotYet(Due)'
    BY DEF CallsSound, NotYet, MayFollow, SamePush
<1> QED BY <1>1, <1>2, <1>3 DEF CallsSound

\* A step that leaves calls and channel alone.
LEMMA CallsKept ==
    ASSUME CallsSound, MembersFinite', UNCHANGED <<mailbox, groups, arrived, pushes>>
    PROVE  CallsSound'
<1>1. CallsTyped' /\ SentIsFixed' /\ Due' = Due
    BY DEF CallsSound, CallsTyped, SentIsFixed, Due, mailbox
<1>2. Made(Due)'
    BY <1>1 DEF CallsSound, Made, MeantFor, InGroup
<1>3. InOrder(Due)' /\ NotYet(Due)'
    BY <1>1 DEF CallsSound, InOrder, NotYet
<1> QED BY <1>1, <1>2, <1>3 DEF CallsSound

\* A call is due after the others, if it is late enough.
LEMMA AppendedInOrder ==
    ASSUME NEW q \in Seq(CallRecords), NEW d \in CallRecords, InOrder(q), NotYet(q),
           \A i \in 1 .. Len(q) : IsPush(q[i]) /\ IsPush(d) => MayFollow(d, q[i].n),
           \A k \in 1 .. Len(arrived) : IsPush(d) => MayFollow(d, arrived[k])
    PROVE  InOrder(Append(q, d)) /\ NotYet(Append(q, d))
<1>1. /\ Len(Append(q, d)) = Len(q) + 1 /\ Append(q, d)[Len(q) + 1] = d
      /\ \A i \in 1 .. Len(q) : Append(q, d)[i] = q[i]
      /\ Len(q) \in Nat
    OBVIOUS
<1>2. \A i \in 1 .. Len(q) + 1 : i \in 1 .. Len(q) \/ i = Len(q) + 1
    BY <1>1
<1>3. InOrder(Append(q, d))
    <2> SUFFICES ASSUME NEW i \in 1 .. Len(q) + 1, NEW j \in 1 .. Len(q) + 1, i < j,
                        IsPush(Append(q, d)[i]), IsPush(Append(q, d)[j])
                 PROVE  MayFollow(Append(q, d)[j], Append(q, d)[i].n)
        BY <1>1 DEF InOrder
    <2>1. i \in 1 .. Len(q)
        BY <1>1
    <2>2. CASE j \in 1 .. Len(q)
        BY <1>1, <2>1, <2>2 DEF InOrder
    <2>3. CASE j = Len(q) + 1
        BY <1>1, <2>1, <2>3
    <2> QED BY <1>2, <2>2, <2>3
<1>4. NotYet(Append(q, d))
    BY <1>1, <1>2 DEF NotYet
<1> QED BY <1>3, <1>4

\* A call is made.
LEMMA CallMade ==
    ASSUME BTypeOK, NobodyTwice, CallsSound, NEW c \in CallRecords, Call(c), MeantFor(c, groups[Here]),
           IF IsPush(c)
           THEN c.n = pushes + 1 /\ pushes' = pushes + 1 /\ c.first = (link = "idle")
           ELSE pushes' = pushes,
           MembersFinite', groups' = groups, arrived' = arrived
    PROVE  CallsSound'
<1>1. /\ CallsTyped /\ SentIsFixed /\ Made(Due) /\ InOrder(Due) /\ NotYet(Due)
      /\ pushes \in Nat /\ pushes' \in Nat /\ pushes' >= pushes
      /\ Due \in Seq(CallRecords) /\ Len(Due) \in Nat
    BY DueIsList, BoundsAssumption DEF CallsSound, BTypeOK
<1>2. arrived \in Seq(1 .. MaxPushes) /\ \A k \in 1 .. Len(arrived) : arrived[k] \in Nat /\ arrived[k] <= pushes
    BY <1>1, BoundsAssumption DEF CallsTyped
<1>3. \A d : MeantFor(d, groups'[Here]) = MeantFor(d, groups[Here])
    BY DEF MeantFor, InGroup
<1>4. ASSUME NEW d \in CallRecords, SamePush(d, c), IsPush(c)
      PROVE  /\ \A i \in 1 .. Len(Due) : IsPush(Due[i]) => MayFollow(d, Due[i].n)
             /\ \A k \in 1 .. Len(arrived) : MayFollow(d, arrived[k])
    <2>1. \A i \in 1 .. Len(Due) : IsPush(Due[i]) => Due[i].n \in Nat /\ Due[i].n <= pushes
        BY <1>1, PushNumbered, BoundsAssumption DEF Made
    <2>2. d.n = pushes + 1
        BY <1>4 DEF SamePush
    <2> QED BY <1>1, <1>2, <2>1, <2>2 DEF MayFollow
<1>5. SamePush(c, c)
    BY DEF SamePush
<1>6. CASE link = "idle"
    <2>1. link' = "connecting" /\ opener' = c /\ parked' = parked /\ line' = line /\ parked = <<>>
        BY <1>1, <1>6 DEF Call, CallsTyped
    <2>0. IsPush(c) => c.first
        BY <1>6
    <2>2. CallsTyped' /\ SentIsFixed'
        <3>1. \A k \in 1 .. Len(arrived') : arrived'[k] <= pushes'
            BY <1>1, <1>2
        <3> QED BY <1>1, <2>0, <2>1, <3>1 DEF CallsTyped, SentIsFixed
    <2>3. Due = <<>> /\ Due' = Append(<<>>, c)
        BY <1>6, <2>1 DEF Due
    <2>4. InOrder(Append(<<>>, c)) /\ NotYet(Append(<<>>, c))
        <3>1. <<>> \in Seq(CallRecords)
            OBVIOUS
        <3> QED BY <1>1, <1>4, <1>5, <2>3, <3>1, AppendedInOrder
    <2>5. Made(Due)'
        BY <1>1, <1>3, <2>3 DEF Made
    <2> QED BY <2>2, <2>3, <2>4, <2>5 DEF CallsSound, InOrder, NotYet
<1>7. CASE link = "connecting"
    <2>1. link' = "connecting" /\ opener' = opener /\ parked' = Append(parked, c) /\ line' = line
        BY <1>7 DEF Call
    <2>2. CallsTyped' /\ SentIsFixed'
        BY <1>1, <1>2, <1>7, <2>1 DEF CallsTyped, SentIsFixed
    <2>3. /\ parked \in Seq(CallRecords) /\ opener \in CallRecords
          /\ Due = Append(parked, opener) /\ Due' = Append(Append(parked, c), opener)
        BY <1>1, <1>7, <2>1 DEF Due, CallsTyped
    <2>4. /\ Len(Due) = Len(parked) + 1 /\ Due[Len(parked) + 1] = opener
          /\ \A i \in 1 .. Len(parked) : Due[i] = parked[i] /\ i \in 1 .. Len(Due)
          /\ Len(parked) \in Nat
        BY <2>3
    <2>5. /\ InOrder(parked) /\ NotYet(parked)
          /\ \A i \in 1 .. Len(parked) : IsPush(parked[i]) /\ IsPush(opener) => MayFollow(opener, parked[i].n)
          /\ \A k \in 1 .. Len(arrived) : IsPush(opener) => MayFollow(opener, arrived[k])
        <3>1. InOrder(parked)
            BY <1>1, <2>4 DEF InOrder
        <3>2. NotYet(parked)
            BY <1>1, <2>4 DEF NotYet
        <3>3. \A i \in 1 .. Len(parked) : IsPush(parked[i]) /\ IsPush(opener) => MayFollow(opener, parked[i].n)
            BY <1>1, <2>4 DEF InOrder
        <3>4. \A k \in 1 .. Len(arrived) : IsPush(opener) => MayFollow(opener, arrived[k])
            BY <1>1, <2>4 DEF NotYet
        <3> QED BY <3>1, <3>2, <3>3, <3>4
    <2>6. InOrder(Append(parked, c)) /\ NotYet(Append(parked, c))
        BY <1>4, <1>5, <2>3, <2>4, <2>5, AppendedInOrder
    <2> DEFINE p == Append(parked, c)
    <2>7. /\ p \in Seq(CallRecords) /\ Len(p) = Len(parked) + 1 /\ p[Len(parked) + 1] = c
          /\ \A i \in 1 .. Len(parked) : p[i] = parked[i]
        BY <2>3
    <2>8. IsPush(c) /\ IsPush(opener) => MayFollow(opener, c.n)
        <3> SUFFICES ASSUME IsPush(c), IsPush(opener) PROVE MayFollow(opener, c.n)
            OBVIOUS
        <3>1. opener.n \in Nat /\ opener.n <= pushes
            BY <1>1, <2>3, <2>4, PushNumbered, BoundsAssumption DEF Made
        <3>2. opener.first /\ c.n = pushes + 1
            BY <1>1, <1>7 DEF CallsTyped
        <3> QED BY <1>1, <3>1, <3>2 DEF MayFollow
    <2> HIDE DEF p
    <2>9. InOrder(Append(p, opener)) /\ NotYet(Append(p, opener))
        <3>1. \A i \in 1 .. Len(p) : IsPush(p[i]) /\ IsPush(opener) => MayFollow(opener, p[i].n)
            BY <2>4, <2>5, <2>7, <2>8
        <3> QED BY <2>3, <2>5, <2>6, <2>7, <3>1, AppendedInOrder DEF p
    <2>10. Made(Due)'
        <3>1. /\ Len(Append(p, opener)) = Len(parked) + 2
              /\ \A i \in 1 .. Len(parked) + 2 :
                    Append(p, opener)[i] = IF i <= Len(parked) THEN Due[i]
                                           ELSE IF i = Len(parked) + 1 THEN c ELSE Due[Len(parked) + 1]
            BY <2>3, <2>4, <2>7
        <3>3. ASSUME NEW i \in 1 .. Len(parked) + 2, NEW d, d = Append(p, opener)[i]
              PROVE  MeantFor(d, groups'[Here]) /\ (IsPush(d) => d.n <= pushes')
            <4>1. CASE i = Len(parked) + 1
                BY <1>1, <1>3, <2>4, <3>1, <3>3, <4>1
            <4>2. CASE i # Len(parked) + 1
                <5>1. PICK j \in 1 .. Len(Due) : d = Due[j]
                    BY <2>4, <3>1, <3>3, <4>2
                <5>2. MeantFor(d, groups[Here]) /\ (IsPush(d) => d.n <= pushes)
                    BY <1>1, <5>1 DEF Made
                <5>3. d \in CallRecords
                    BY <1>1, <5>1
                <5> QED BY <1>1, <1>3, <5>2, <5>3, PushNumbered, BoundsAssumption
            <4> QED BY <4>1, <4>2
        <3> QED BY <2>3, <3>1, <3>3 DEF Made, p
    <2> QED BY <2>2, <2>3, <2>9, <2>10 DEF CallsSound, InOrder, NotYet, p
<1>8. CASE link = "stuck"
    <2>1. link' = "stuck" /\ opener' = opener /\ parked' = Append(parked, c) /\ line' = line
        BY <1>8 DEF Call
    <2>2. CallsTyped' /\ SentIsFixed'
        BY <1>1, <1>2, <1>8, <2>1 DEF CallsTyped, SentIsFixed
    <2>3. Due' = <<>>
        BY <2>1 DEF Due
    <2> QED BY <2>2, <2>3 DEF CallsSound, Made, InOrder, NotYet
<1>9. CASE link = "up"
    <2> DEFINE d == Serialized(c)
    <2>1. link' = "up" /\ opener' = opener /\ parked' = parked /\ line' = Append(line, d)
        BY <1>9 DEF Call
    <2>2. d \in CallRecords /\ ~RefersToGroup(d) /\ MeantFor(d, groups[Here]) /\ SamePush(d, c)
        BY SerializedSound
    <2> HIDE DEF d
    <2>3. CallsTyped' /\ SentIsFixed'
        BY <1>1, <1>2, <1>9, <2>1, <2>2 DEF CallsTyped, SentIsFixed
    <2>4. Due = line /\ Due' = Append(Due, d)
        BY <1>9, <2>1 DEF Due
    <2>5. InOrder(Append(Due, d)) /\ NotYet(Append(Due, d))
        <3>1. IsPush(d) => IsPush(c)
            BY <2>2 DEF SamePush
        <3> QED BY <1>1, <1>4, <2>2, <3>1, AppendedInOrder
    <2>6. Made(Due)'
        <3>1. /\ Len(Append(Due, d)) = Len(Due) + 1
              /\ \A i \in 1 .. Len(Due) + 1 : Append(Due, d)[i] = IF i <= Len(Due) THEN Due[i] ELSE d
            BY <1>1, <2>2
        <3>2. ASSUME NEW i \in 1 .. Len(Due) + 1, NEW e, e = Append(Due, d)[i]
              PROVE  MeantFor(e, groups'[Here]) /\ (IsPush(e) => e.n <= pushes')
            <4>1. CASE i = Len(Due) + 1
                BY <1>1, <1>3, <2>2, <3>1, <3>2, <4>1 DEF SamePush
            <4>2. CASE i # Len(Due) + 1
                <5>1. i \in 1 .. Len(Due) /\ e = Due[i]
                    BY <1>1, <3>1, <3>2, <4>2
                <5>2. MeantFor(e, groups[Here]) /\ (IsPush(e) => e.n <= pushes) /\ e \in CallRecords
                    BY <1>1, <5>1 DEF Made
                <5> QED BY <1>1, <1>3, <5>2, PushNumbered, BoundsAssumption
            <4> QED BY <4>1, <4>2
        <3> QED BY <2>4, <3>1, <3>2 DEF Made
    <2> QED BY <2>3, <2>4, <2>5, <2>6 DEF CallsSound, InOrder, NotYet
<1> QED BY <1>6, <1>7, <1>8, <1>9 DEF BTypeOK

LEMMA OneMore ==
    ASSUME NEW S, NEW f \in Seq(S), NEW x \in S
    PROVE  LET g == f \o <<x>> IN
           /\ g \in Seq(S) /\ Len(g) = Len(f) + 1 /\ g[Len(f) + 1] = x
           /\ \A i \in 1 .. Len(f) : g[i] = f[i]
<1>1. <<x>> \in Seq(S) /\ Len(<<x>>) = 1 /\ <<x>>[1] = x
    OBVIOUS
<1> QED BY <1>1

LEMMA ConnectedSound ==
    ASSUME BTypeOK, NobodyTwice, CallsSound, Connected
    PROVE  CallsSound'
<1>1. /\ link = "connecting" /\ link' = "up" /\ parked' = <<>>
      /\ line' = [i \in 1 .. Len(parked) |-> Serialized(parked[i])] \o <<Serialized(opener)>>
      /\ UNCHANGED <<groups, cache, reads, arrived, pushes>>
      /\ parked \in Seq(CallRecords) /\ opener \in CallRecords
    BY DEF Connected, channel, pushing, delivered, CallsSound, CallsTyped
<1>2. /\ Due = Append(parked, opener) /\ Due' = line'
      /\ Len(parked) \in Nat /\ Len(Due) = Len(parked) + 1 /\ Due \in Seq(CallRecords)
    BY <1>1 DEF Due
<1>3. \A i \in 1 .. Len(Due) : MeantFor(Due[i], groups[Here]) /\ Due[i] \in CallRecords
    BY <1>2 DEF CallsSound, Made
<1> DEFINE Ok(i, d) == d \in CallRecords /\ ~RefersToGroup(d) /\ MeantFor(d, groups[Here]) /\ SamePush(d, Due[i])
<1>4. \A i \in 1 .. Len(Due) : Ok(i, Serialized(Due[i]))
    BY <1>3, SerializedSound
<1>5. /\ Len(line') = Len(Due)
      /\ \A i \in 1 .. Len(Due) : line'[i] = Serialized(Due[i])
    <2>1. \A i \in 1 .. Len(parked) : Serialized(parked[i]) \in CallRecords /\ Due[i] = parked[i]
        BY <1>1, <1>2, <1>4
    <2>2. Serialized(opener) \in CallRecords /\ Due[Len(parked) + 1] = opener
        BY <1>1, <1>2, <1>4
    <2> DEFINE f == [i \in 1 .. Len(parked) |-> Serialized(parked[i])]
    <2>3. /\ f \in Seq(CallRecords) /\ Len(f) = Len(parked)
          /\ \A i \in 1 .. Len(parked) : f[i] = Serialized(parked[i])
        BY <1>2, <2>1
    <2> HIDE DEF f
    <2>4. /\ Len(f \o <<Serialized(opener)>>) = Len(parked) + 1
          /\ \A i \in 1 .. Len(parked) : (f \o <<Serialized(opener)>>)[i] = f[i]
          /\ (f \o <<Serialized(opener)>>)[Len(parked) + 1] = Serialized(opener)
        BY <2>2, <2>3, OneMore
    <2>5. line' = f \o <<Serialized(opener)>>
        BY <1>1 DEF f
    <2>6. \A i \in 1 .. Len(Due) : i \in 1 .. Len(parked) \/ i = Len(parked) + 1
        BY <1>2
    <2> QED BY <1>2, <2>1, <2>2, <2>3, <2>4, <2>5, <2>6
<1>6. \A i \in 1 .. Len(Due) : Ok(i, line'[i])
    BY <1>4, <1>5
<1> HIDE DEF Ok
<1>7. line' \in Seq(CallRecords)
    <2>1. \A i \in 1 .. Len(parked) : Serialized(parked[i]) \in CallRecords
        <3>1. \A i \in 1 .. Len(parked) : Due[i] = parked[i] /\ i \in 1 .. Len(Due)
            BY <1>1, <1>2
        <3> QED BY <1>4, <3>1 DEF Ok
    <2>2. Serialized(opener) \in CallRecords
        <3>1. Due[Len(parked) + 1] = opener /\ Len(parked) + 1 \in 1 .. Len(Due)
            BY <1>1, <1>2
        <3> QED BY <1>4, <3>1 DEF Ok
    <2>3. [i \in 1 .. Len(parked) |-> Serialized(parked[i])] \in Seq(CallRecords)
        BY <1>2, <2>1
    <2> QED BY <1>1, <2>2, <2>3
<1>8. CallsTyped'
    BY <1>1, <1>7 DEF CallsSound, CallsTyped
<1>9. SentIsFixed' /\ MembersFinite'
    BY <1>1, <1>5, <1>6 DEF Ok, SentIsFixed, CallsSound, MembersFinite, RefersToGroup
<1>10. \A d : MeantFor(d, groups'[Here]) = MeantFor(d, groups[Here])
    BY <1>1 DEF MeantFor, InGroup
<1>11. \A i \in 1 .. Len(Due) : SamePush(Due[i]', Due[i]) /\ MeantFor(Due[i]', groups'[Here])
    BY <1>2, <1>6, <1>10 DEF Ok
<1> QED BY <1>1, <1>2, <1>5, <1>8, <1>9, <1>11, DueRewritten

LEMMA LostSound ==
    ASSUME CallsSound, ConnectFailed \/ Disconnected
    PROVE  CallsSound'
<1>0. CallsTyped /\ UNCHANGED <<arrived, pushes>> /\ line' \in {line, <<>>}
    BY DEF CallsSound, ConnectFailed, Disconnected, pushing, delivered
<1>1. CallsTyped' /\ Due' = <<>> /\ link' # "up"
    <2>1. CASE ConnectFailed
        <3>1. link' = "stuck" /\ line' = line
            BY <2>1 DEF ConnectFailed
        <3> QED BY <1>0, <3>1 DEF CallsTyped, Due
    <2>2. CASE Disconnected
        BY <1>0, <2>2 DEF Disconnected, CallsTyped, Due
    <2> QED BY <2>1, <2>2
<1>2. MembersFinite'
    BY DEF ConnectFailed, Disconnected, CallsSound, MembersFinite
<1> QED BY <1>1, <1>2 DEF CallsSound, SentIsFixed, Made, InOrder, NotYet

\* Users join or leave while calls wait that refer to the channel.
LEMMA ChannelStepSound ==
    ASSUME BTypeOK, NobodyTwice, CallsSound, NEW u \in Uids, NEW f \in Servers,
           Add(u, f) \/ Leave(u, f)
    PROVE  CallsSound'
<1>1. /\ UNCHANGED <<link, line, cache, reads, arrived, pushes>>
      /\ CallsTyped
    BY DEF Add, Leave, pushing, delivered, CallsSound, CallsTyped
<1> DEFINE Ok(d, c) == d \in CallRecords /\ MeantFor(d, groups'[Here]) /\ SamePush(d, c)
<1>2. ASSUME link = "connecting"
      PROVE  /\ Len(parked) \in Nat /\ parked \in Seq(CallRecords)
             /\ parked' \in Seq(CallRecords) /\ Len(parked') = Len(parked)
             /\ \A i \in 1 .. Len(parked) : Ok(parked'[i], parked[i])
             /\ Ok(opener', opener)
    <2>0. Len(parked) \in Nat /\ parked \in Seq(CallRecords)
        BY <1>1, <1>2 DEF CallsTyped
    <2>1. opener \in CallRecords /\ MeantFor(opener, groups[Here]) /\ \A i \in 1 .. Len(parked) : MeantFor(parked[i], groups[Here])
        <3>1. Due = Append(parked, opener) /\ opener \in CallRecords
            BY <1>1, <1>2 DEF Due, CallsTyped
        <3>2. /\ Len(Due) = Len(parked) + 1 /\ Due[Len(parked) + 1] = opener
              /\ \A i \in 1 .. Len(parked) : Due[i] = parked[i] /\ i \in 1 .. Len(Due)
              /\ Len(parked) + 1 \in 1 .. Len(Due)
            BY <2>0, <3>1
        <3> QED BY <3>1, <3>2 DEF CallsSound, Made
    <2>3. CASE Add(u, f)
        <3>1. opener' = Joining(opener, u, f) /\ parked' = [i \in 1 .. Len(parked) |-> Joining(parked[i], u, f)]
            BY <2>0, <1>2, <2>3 DEF Add
        <3>2. Ok(opener', opener)
            BY <2>1, <2>3, <3>1, JoiningSound
        <3>3. \A i \in 1 .. Len(parked) : Ok(Joining(parked[i], u, f), parked[i])
            BY <2>0, <2>1, <2>3, JoiningSound
        <3> HIDE DEF Ok
        <3>4. \A i \in 1 .. Len(parked) : parked'[i] = Joining(parked[i], u, f)
            BY <3>1
        <3>5. parked' \in Seq(CallRecords) /\ Len(parked') = Len(parked)
            BY <2>0, <3>1, <3>3 DEF Ok
        <3> QED BY <2>0, <3>2, <3>3, <3>4, <3>5
    <2>4. CASE Leave(u, f)
        <3>1. opener' = Leaving(opener, f) /\ parked' = [i \in 1 .. Len(parked) |-> Leaving(parked[i], f)]
            BY <2>0, <1>2, <2>4 DEF Leave
        <3>2. ASSUME NEW e, NEW c \in CallRecords, MeantFor(c, groups[Here]), e = Leaving(c, f) PROVE Ok(e, c)
            BY <2>4, <3>2, LeavingSound
        <3>3. Ok(opener', opener)
            BY <2>1, <3>1, <3>2
        <3>4. \A i \in 1 .. Len(parked) : parked'[i] = Leaving(parked[i], f)
            BY <3>1
        <3> HIDE DEF Ok
        <3>5. \A i \in 1 .. Len(parked) : Ok(parked'[i], parked[i])
            BY <2>0, <2>1, <3>2, <3>4
        <3>6. parked' \in Seq(CallRecords) /\ Len(parked') = Len(parked)
            BY <2>0, <3>1, <3>4, <3>5 DEF Ok
        <3> QED BY <2>0, <3>3, <3>5, <3>6
    <2> QED BY <2>0, <2>3, <2>4
<1>3. CASE link = "connecting"
    <2>1. /\ Len(parked) \in Nat /\ parked \in Seq(CallRecords)
          /\ parked' \in Seq(CallRecords) /\ Len(parked') = Len(parked)
          /\ \A i \in 1 .. Len(parked) : Ok(parked'[i], parked[i])
          /\ Ok(opener', opener) /\ opener' \in CallRecords /\ opener \in CallRecords
          /\ IsPush(opener') => opener'.first
        BY <1>1, <1>2, <1>3 DEF SamePush, CallsTyped
    <2>2. CallsTyped' /\ SentIsFixed' /\ MembersFinite'
        BY <1>1, <1>3, <2>1 DEF CallsTyped, CallsSound, SentIsFixed, MembersFinite
    <2>3. Due = Append(parked, opener) /\ Due' = Append(parked', opener')
        BY <1>1, <1>3 DEF Due
    <2>4. /\ Len(Due) = Len(parked) + 1 /\ Len(Due') = Len(parked) + 1
          /\ Due[Len(parked) + 1] = opener /\ Due'[Len(parked) + 1] = opener'
          /\ \A i \in 1 .. Len(parked) : Due[i] = parked[i] /\ Due'[i] = parked'[i]
          /\ \A i \in 1 .. Len(Due) : i \in 1 .. Len(parked) \/ i = Len(parked) + 1
        BY <2>1, <2>3
    <2> HIDE DEF Ok
    <2>5. \A i \in 1 .. Len(Due) : Ok(Due'[i], Due[i])
        BY <2>1, <2>4
    <2> QED BY <1>1, <2>2, <2>4, <2>5, DueRewritten DEF Ok
<1>4. CASE link = "up"
    <2>1. /\ parked' = <<>> /\ Due = line /\ Due' = line
        BY <1>1, <1>4 DEF Add, Leave, CallsTyped, Due
    <2>2. CallsTyped' /\ SentIsFixed' /\ MembersFinite'
        BY <1>1, <1>4, <2>1 DEF CallsTyped, CallsSound, SentIsFixed, MembersFinite, RefersToGroup
    <2>3. \A i \in 1 .. Len(line) : MeantFor(line[i], groups'[Here])
        <3> SUFFICES ASSUME NEW i \in 1 .. Len(line), NEW c, c = line[i] PROVE MeantFor(c, groups'[Here])
            BY <1>1
        <3>1. MeantFor(c, groups[Here]) /\ ~RefersToGroup(c)
            BY <1>4, <2>1 DEF CallsSound, Made, SentIsFixed
        <3> QED BY <3>1 DEF MeantFor, RefersToGroup
    <2> QED BY <1>1, <2>1, <2>2, <2>3, DueRewritten DEF SamePush
<1>5. CASE link = "idle"
    <2>1. parked' = <<>> /\ Due' = <<>>
        BY <1>1, <1>5 DEF Add, Leave, CallsTyped, Due
    <2>2. CallsTyped' /\ SentIsFixed' /\ MembersFinite'
        BY <1>1, <1>5, <2>1 DEF CallsTyped, CallsSound, SentIsFixed, MembersFinite
    <2> QED BY <2>1, <2>2 DEF CallsSound, Made, InOrder, NotYet
<1>6. CASE link = "stuck"
    <2>1. Due' = <<>>
        BY <1>1, <1>6 DEF Due
    <2>2. CallsTyped' /\ SentIsFixed' /\ MembersFinite'
        BY <1>1, <1>6 DEF CallsTyped, CallsSound, SentIsFixed, MembersFinite
    <2> QED BY <2>1, <2>2 DEF CallsSound, Made, InOrder, NotYet
<1> QED BY <1>3, <1>4, <1>5, <1>6 DEF BTypeOK

\* The next call is taken, and its number noted if it is a push.
LEMMA TakenSound ==
    ASSUME CallsSound, BTypeOK, NEW op, Taken(op), groups' = groups,
           \/ arrived' = arrived
           \/ IsPush(Head(line)) /\ arrived' = Append(arrived, Head(line).n)
    PROVE  CallsSound'
<1>1. /\ link = "up" /\ line # <<>> /\ line' = Tail(line) /\ Due = line /\ Due' = Tail(line)
      /\ UNCHANGED <<link, opener, parked, cache, reads, pushes>>
      /\ line \in Seq(CallRecords)
    BY DEF Taken, Due, channel, CallsSound, CallsTyped
<1>2. /\ Len(line) \in Nat /\ Len(line) > 0 /\ Len(Tail(line)) = Len(line) - 1 /\ Head(line) = line[1]
      /\ Tail(line) \in Seq(CallRecords)
      /\ \A i \in 1 .. Len(line) - 1 : Tail(line)[i] = line[i + 1] /\ i + 1 \in 1 .. Len(line)
      /\ 1 \in 1 .. Len(line) /\ line[1] \in CallRecords
    BY <1>1
<1> DEFINE n == line[1].n
<1>3. IsPush(line[1]) => n \in 1 .. MaxPushes /\ n <= pushes
    BY <1>1, <1>2, PushNumbered DEF CallsSound, Made
<1> HIDE DEF n
<1>4. /\ arrived \in Seq(1 .. MaxPushes) /\ arrived' \in Seq(1 .. MaxPushes)
      /\ \A k \in 1 .. Len(arrived') : arrived'[k] <= pushes
      /\ \A k \in 1 .. Len(arrived') :
            \/ k \in 1 .. Len(arrived) /\ arrived'[k] = arrived[k]
            \/ IsPush(line[1]) /\ arrived'[k] = n
    <2>1. arrived \in Seq(1 .. MaxPushes) /\ \A k \in 1 .. Len(arrived) : arrived[k] <= pushes
        BY DEF CallsSound, CallsTyped
    <2>2. CASE arrived' = arrived
        BY <2>1, <2>2
    <2>3. CASE IsPush(line[1]) /\ arrived' = Append(arrived, n)
        <3>1. /\ Len(arrived') = Len(arrived) + 1 /\ arrived' \in Seq(1 .. MaxPushes)
              /\ \A k \in 1 .. Len(arrived) + 1 : arrived'[k] = IF k <= Len(arrived) THEN arrived[k] ELSE n
              /\ Len(arrived) \in Nat
            BY <1>3, <2>1, <2>3
        <3> QED BY <1>3, <2>1, <2>3, <3>1
    <2> QED BY <1>2, <2>2, <2>3 DEF n
<1>5. CallsTyped' /\ SentIsFixed' /\ MembersFinite'
    <2>1. CallsTyped'
        BY <1>1, <1>2, <1>4 DEF CallsSound, CallsTyped
    <2>2. SentIsFixed'
        BY <1>1, <1>2 DEF CallsSound, SentIsFixed, RefersToGroup
    <2> QED BY <1>1, <2>1, <2>2 DEF CallsSound, MembersFinite
<1>6. Made(Due)'
    BY <1>1, <1>2 DEF CallsSound, Made
<1>7. InOrder(Due)'
    <2> SUFFICES ASSUME NEW i \in 1 .. Len(line) - 1, NEW j \in 1 .. Len(line) - 1, i < j,
                        IsPush(line[i + 1]), IsPush(line[j + 1])
                 PROVE  MayFollow(line[j + 1], line[i + 1].n)
        BY <1>1, <1>2 DEF InOrder
    <2>1. i + 1 \in 1 .. Len(line) /\ j + 1 \in 1 .. Len(line) /\ i + 1 < j + 1
        BY <1>2
    <2> QED BY <1>1, <2>1 DEF CallsSound, InOrder
<1>8. NotYet(Due)'
    <2> SUFFICES ASSUME NEW j \in 1 .. Len(line) - 1, NEW k \in 1 .. Len(arrived'), IsPush(line[j + 1])
                 PROVE  MayFollow(line[j + 1], arrived'[k])
        BY <1>1, <1>2 DEF NotYet
    <2>1. j + 1 \in 1 .. Len(line) /\ 1 < j + 1
        BY <1>2
    <2>2. CASE k \in 1 .. Len(arrived) /\ arrived'[k] = arrived[k]
        BY <1>1, <2>1, <2>2 DEF CallsSound, NotYet
    <2>3. CASE IsPush(line[1]) /\ arrived'[k] = n
        BY <1>1, <1>2, <2>1, <2>3 DEF CallsSound, InOrder, n
    <2> QED BY <1>4, <2>2, <2>3
<1> QED BY <1>5, <1>6, <1>7, <1>8 DEF CallsSound

\* The members of a global channel as a list.
LEMMA ListOfSound ==
    ASSUME NEW S, IsFiniteSet(S)
    PROVE  /\ ListOf(S) \in Seq(S)
           /\ \A i, j \in 1 .. Len(ListOf(S)) : ListOf(S)[i] = ListOf(S)[j] => i = j
<1> DEFINE n == Cardinality(S)
           Once(q) == \A i, j \in 1 .. n : q[i] = q[j] => i = j
<1>1. n \in Nat /\ ExistsBijection(1 .. n, S)
    BY FS_CardinalityType
<1>2. \E q \in [1 .. n -> S] : Once(q)
    BY <1>1 DEF ExistsBijection, Bijection, Injection, IsInjective
<1>3. ListOf(S) = CHOOSE q \in [1 .. n -> S] : Once(q)
    BY DEF ListOf
<1> HIDE DEF Once, n
<1>4. ListOf(S) \in [1 .. n -> S] /\ Once(ListOf(S))
    BY <1>2, <1>3
<1> QED BY <1>1, <1>4 DEF Once

\* A session is in the lists of different users at most once, for a user of its own.
LEMMA OccursOnce ==
    ASSUME TypeOK, UidMapExact, NEW s \in Sids, NEW q \in Seq(Uids),
           \A i, j \in 1 .. Len(q) : q[i] = q[j] => i = j
    PROVE  \/ Occurrences(s, q) = 0
           \/ Occurrences(s, q) = 1 /\ \E i \in 1 .. Len(q) : q[i] = uid[s]
<1> DEFINE X == {p \in (DOMAIN q) \X (1 .. Cardinality(Sids)) :
                    p[2] \in DOMAIN uidMap[q[p[1]]] /\ uidMap[q[p[1]]][p[2]] = s}
<1>1. Occurrences(s, q) = Cardinality(X)
    BY DEF Occurrences
<1>2. ASSUME NEW p \in X
      PROVE  /\ p[1] \in 1 .. Len(q) /\ q[p[1]] \in Uids /\ q[p[1]] = uid[s]
             /\ p[2] \in 1 .. Len(uidMap[uid[s]]) /\ uidMap[uid[s]][p[2]] = s
             /\ p = <<p[1], p[2]>>
    <2>1. /\ p[1] \in 1 .. Len(q) /\ q[p[1]] \in Uids /\ p = <<p[1], p[2]>>
          /\ p[2] \in DOMAIN uidMap[q[p[1]]] /\ uidMap[q[p[1]]][p[2]] = s
        OBVIOUS
    <2>2. DOMAIN uidMap[q[p[1]]] = 1 .. Len(uidMap[q[p[1]]])
        BY <2>1 DEF TypeOK
    <2>3. s \in Listed(q[p[1]])
        BY <2>1, <2>2 DEF Listed
    <2>4. q[p[1]] = uid[s]
        BY <2>1, <2>3 DEF UidMapExact
    <2> QED BY <2>1, <2>2, <2>4
<1> HIDE DEF X
<1>3. CASE X = {}
    BY <1>1, <1>3, FS_EmptySet
<1>4. ASSUME NEW p \in X PROVE X = {p} /\ \E i \in 1 .. Len(q) : q[i] = uid[s]
    <2>1. ASSUME NEW r \in X PROVE r = p
        <3>1. r[1] = p[1]
            BY <1>2
        <3>2. r[2] = p[2]
            BY <1>2 DEF UidMapExact, NoDuplicates
        <3> QED BY <1>2, <3>1, <3>2
    <2> QED BY <1>2, <2>1
<1> QED BY <1>1, <1>3, <1>4, FS_Singleton

LEMMA PushMade ==
    ASSUME BTypeOK, NobodyTwice, CallsSound, NEW op, NEW to, NEW who \in SUBSET (Sids \union Uids),
           Push(op, to, who), MembersFinite', groups' = groups,
           \/ op = "send" /\ to \in Sids /\ to \in who
           \/ op = "broadcast" /\ to \in BOOLEAN /\ (to \/ who = Sids)
           \/ op = "push" /\ to = None /\ \A i \in 1 .. Len(groups[Here]) : groups[Here][i] \in who
           \/ /\ op = "push" /\ to \in Seq(Uids)
              /\ \A i, j \in 1 .. Len(to) : to[i] = to[j] => i = j
              /\ \A i \in 1 .. Len(to) : to[i] \in who
    PROVE  CallsSound'
<1> DEFINE c == [op |-> op, to |-> to, n |-> pushes + 1, who |-> who, first |-> link = "idle"]
<1>1. /\ pushes < MaxPushes /\ pushes' = pushes + 1 /\ Call(c) /\ arrived' = arrived
      /\ pushes + 1 \in 1 .. MaxPushes
    BY BoundsAssumption DEF Push, delivered, BTypeOK
<1>2. c.op = op /\ c.to = to /\ c.who = who /\ c.n = pushes + 1 /\ c.first = (link = "idle")
    OBVIOUS
<1>3. (link = "idle") \in BOOLEAN
    OBVIOUS
<1>4. c \in CallRecords
    <2>1. CASE op = "send"
        <3>1. c \in [op : {"send"}, to : Sids, n : 1 .. MaxPushes, who : SUBSET (Sids \union Uids), first : BOOLEAN]
            BY <1>1, <1>3, <2>1
        <3> HIDE DEF c
        <3> QED BY <3>1 DEF CallRecords, Numbered
    <2>2. CASE op = "broadcast"
        <3>1. c \in [op : {"broadcast"}, to : BOOLEAN, n : 1 .. MaxPushes, who : SUBSET (Sids \union Uids), first : BOOLEAN]
            BY <1>1, <1>3, <2>2
        <3> HIDE DEF c
        <3> QED BY <3>1 DEF CallRecords, Numbered
    <2>3. CASE op = "push"
        <3>1. c \in PushRecords
            BY <1>1, <1>3, <2>3 DEF PushRecords
        <3> HIDE DEF c
        <3> QED BY <3>1, PushRecordIsCall
    <2> QED BY <2>1, <2>2, <2>3
<1>5. IsPush(c)
    BY <1>2 DEF IsPush
<1> HIDE DEF c
<1>6. MeantFor(c, groups[Here])
    <2>1. CASE op # "push"
        BY <1>2, <2>1 DEF MeantFor
    <2>2. CASE op = "push" /\ to = None /\ \A i \in 1 .. Len(groups[Here]) : groups[Here][i] \in who
        BY <1>2, <2>2 DEF MeantFor
    <2>3. CASE /\ op = "push" /\ to \in Seq(Uids)
               /\ \A i, j \in 1 .. Len(to) : to[i] = to[j] => i = j
               /\ \A i \in 1 .. Len(to) : to[i] \in who
        <3>1. to # None
            BY <2>3, ListsAssumption
        <3> QED BY <1>2, <2>3, <3>1 DEF MeantFor
    <2> QED BY <2>1, <2>2, <2>3
<1> QED BY <1>1, <1>2, <1>4, <1>5, <1>6, CallMade

\* A call of a backend session.
LEMMA SessionCallSound ==
    ASSUME BTypeOK, NobodyTwice, CallsSound, SessionCall
    PROVE  CallsSound'
<1>1. /\ UNCHANGED <<groups, arrived, pushes>> /\ MembersFinite'
    BY DEF SessionCall, channel, pushing, delivered, CallsSound, MembersFinite
<1>2. ASSUME NEW c \in CallRecords, Call(c), c.op \in {"bind", "unbind", "kick", "kickByUid"}
      PROVE  CallsSound'
    <2>1. ~IsPush(c) /\ MeantFor(c, groups[Here])
        BY <1>2 DEF IsPush, MeantFor
    <2> QED BY <1>1, <1>2, <2>1, CallMade
<1>3. ASSUME NEW s \in Known, NEW u \in Uids, NEW op \in {"bind", "unbind"},
             Call([op |-> op, sid |-> s, uid |-> u])
      PROVE  CallsSound'
    <2>1. [op |-> op, sid |-> s, uid |-> u] \in CallRecords
        BY <1>3 DEF CallRecords, Known
    <2> QED BY <1>2, <1>3, <2>1
<1>4. ASSUME NEW s \in Known, Call([op |-> "kick", sid |-> s]) PROVE CallsSound'
    <2>1. [op |-> "kick", sid |-> s] \in CallRecords
        BY <1>4 DEF CallRecords, Known
    <2> QED BY <1>2, <1>4, <2>1
<1>5. ASSUME NEW u \in Uids, Call([op |-> "kickByUid", uid |-> u]) PROVE CallsSound'
    <2>1. [op |-> "kickByUid", uid |-> u] \in CallRecords
        BY <1>5 DEF CallRecords
    <2> QED BY <1>2, <1>5, <2>1
<1> QED BY <1>3, <1>4, <1>5 DEF SessionCall

LEMMA PushStepSound ==
    ASSUME BTypeOK, NobodyTwice, CallsSound,
           SendMessage \/ PushMessageByUids \/ Broadcast \/ PushMessage \/ GlobalPush
    PROVE  CallsSound'
<1>1. groups' = groups /\ MembersFinite'
    BY DEF SendMessage, PushMessageByUids, Broadcast, PushMessage, GlobalPush, channel, CallsSound, MembersFinite
<1>2. CASE SendMessage
    <2>1. PICK s \in Known : Push("send", s, {s})
        BY <1>2 DEF SendMessage
    <2>2. s \in Sids /\ {s} \in SUBSET (Sids \union Uids)
        BY DEF Known
    <2> QED BY <1>1, <2>1, <2>2, PushMade
<1>3. CASE PushMessageByUids
    <2>1. PICK u \in Uids : Push("push", <<u>>, {u})
        BY <1>3 DEF PushMessageByUids
    <2>2. {u} \in SUBSET (Sids \union Uids) /\ <<u>> \in Seq(Uids) /\ Len(<<u>>) = 1 /\ <<u>>[1] = u
        OBVIOUS
    <2>3. /\ \A i, j \in 1 .. Len(<<u>>) : <<u>>[i] = <<u>>[j] => i = j
          /\ \A i \in 1 .. Len(<<u>>) : <<u>>[i] \in {u}
        BY <2>2
    <2> QED BY <1>1, <2>1, <2>2, <2>3, PushMade
<1>4. CASE Broadcast
    <2>1. PICK binded \in BOOLEAN : Push("broadcast", binded, IF binded THEN Uids ELSE Sids)
        BY <1>4 DEF Broadcast
    <2>2. (IF binded THEN Uids ELSE Sids) \in SUBSET (Sids \union Uids)
        OBVIOUS
    <2> QED BY <1>1, <2>1, <2>2, PushMade
<1>5. CASE PushMessage
    <2> DEFINE who == {u \in Uids : InGroup(u, Here)}
    <2>1. Push("push", None, who)
        BY <1>5 DEF PushMessage
    <2>2. who \in SUBSET (Sids \union Uids)
        OBVIOUS
    <2>3. \A i \in 1 .. Len(groups[Here]) : groups[Here][i] \in who
        BY DEF BTypeOK, Servers, InGroup
    <2> QED BY <1>1, <2>1, <2>2, <2>3, PushMade
<1>6. CASE GlobalPush
    <2>1. PICK members \in reads : Push("push", ListOf(members), members)
        BY <1>6 DEF GlobalPush
    <2>2. members \in SUBSET (Sids \union Uids) /\ members \subseteq Uids /\ IsFiniteSet(members)
        BY DEF BTypeOK, CallsSound, MembersFinite
    <2> DEFINE q == ListOf(members)
    <2>3. q \in Seq(members) /\ \A i, j \in 1 .. Len(q) : q[i] = q[j] => i = j
        BY <2>2, ListOfSound
    <2> HIDE DEF q
    <2>4. q \in Seq(Uids) /\ \A i \in 1 .. Len(q) : q[i] \in members
        BY <2>2, <2>3
    <2> QED BY <1>1, <2>1, <2>2, <2>3, <2>4, PushMade DEF q
<1> QED BY <1>2, <1>3, <1>4, <1>5, <1>6

LEMMA CallsInit == BInit => CallsSound
<1> SUFFICES ASSUME BInit PROVE CallsSound
    OBVIOUS
<1>1. /\ link = "idle" /\ parked = <<>> /\ line = <<>> /\ arrived = <<>> /\ reads = {}
      /\ cache[Here] = {}
    BY DEF BInit, Servers
<1>2. CallsTyped
    <2>1. line \in Seq(CallRecords) /\ arrived \in Seq(1 .. MaxPushes) /\ Len(arrived) = 0
        BY <1>1
    <2> QED BY <1>1, <2>1 DEF CallsTyped
<1>3. Due = <<>> /\ Len(<<>>) = 0
    BY <1>1 DEF Due
<1> QED BY <1>1, <1>2, <1>3, FS_EmptySet DEF CallsSound, SentIsFixed, MembersFinite, Made, InOrder, NotYet

LEMMA CallsStep == ChannelSound /\ CallsSound /\ [BNext]_bvars => CallsSound'
<1> SUFFICES ASSUME ChannelSound, CallsSound, [BNext]_bvars PROVE CallsSound'
    OBVIOUS
<1>0. BTypeOK /\ NobodyTwice /\ MembersFinite
    BY DEF ChannelSound, CallsSound
<1>1. ASSUME UNCHANGED backend PROVE CallsSound'
    BY <1>0, <1>1, CallsKept DEF backend, channel, pushing, delivered, MembersFinite
<1>2. CASE SessionCall
    BY <1>0, <1>2, SessionCallSound
<1>3. CASE SendMessage \/ PushMessageByUids \/ Broadcast \/ PushMessage \/ GlobalPush
    BY <1>0, <1>3, PushStepSound
<1>4. CASE Connected \/ ConnectFailed \/ Disconnected
    BY <1>0, <1>4, ConnectedSound, LostSound
<1>5. CASE \E u \in Uids, f \in Servers : Add(u, f) \/ Leave(u, f)
    BY <1>0, <1>5, ChannelStepSound
<1>6. CASE Destroy
    BY <1>0, <1>6, CallsKept DEF Destroy, pushing, delivered, MembersFinite
<1>7. ASSUME NEW u \in Uids, NEW f \in Servers, GlobalAdd(u, f) \/ GlobalLeave(u, f) \/ GlobalDestroy(f)
      PROVE  CallsSound'
    <2>1. /\ UNCHANGED <<mailbox, groups, arrived, pushes>> /\ reads' = reads
          /\ cache'[Here] \in {cache[Here] \union {u}, cache[Here] \ {u}, {}}
        BY <1>0, <1>7 DEF GlobalAdd, GlobalLeave, GlobalDestroy, channel, pushing, delivered, BTypeOK, Servers
    <2>2. MembersFinite'
        <3> DEFINE S == cache[Here]
        <3>1. IsFiniteSet(S) /\ \A members \in reads : IsFiniteSet(members)
            BY <1>0 DEF MembersFinite
        <3> HIDE DEF S
        <3>2. IsFiniteSet(S \union {u}) /\ IsFiniteSet(S \ {u}) /\ IsFiniteSet({})
            BY <3>1, FS_AddElement, FS_RemoveElement, FS_EmptySet
        <3>3. IsFiniteSet(cache'[Here])
            BY <2>1, <3>2 DEF S
        <3> QED BY <2>1, <3>1, <3>3 DEF MembersFinite
    <2> QED BY <1>0, <2>1, <2>2, CallsKept
<1>8. ASSUME NEW f \in Servers, GlobalDestroy(f) PROVE CallsSound'
    <2>1. UNCHANGED <<mailbox, groups, arrived, pushes>> /\ reads' = reads /\ cache'[Here] = {}
        BY <1>0, <1>8 DEF GlobalDestroy, channel, pushing, delivered, BTypeOK, Servers
    <2> QED BY <1>0, <2>1, CallsKept, FS_EmptySet DEF MembersFinite
<1>9. CASE GlobalRead
    BY <1>0, <1>9, CallsKept DEF GlobalRead, channel, pushing, delivered, MembersFinite
<1>10. CASE RemoteStep
    <2>1. /\ \E op : Taken(op)
          /\ groups' = groups
          /\ \/ arrived' = arrived
             \/ IsPush(Head(line)) /\ arrived' = Append(arrived, Head(line).n)
        BY <1>10 DEF RemoteStep, RemoteBind, RemoteUnbind, RemoteKick, RemoteKickByUid, RemoteSend,
           RemotePush, RemoteBroadcast, Taken, Schedule, delivered, channel, IsPush
    <2> QED BY <1>0, <2>1, TakenSound
<1> QED
    BY <1>1, <1>2, <1>3, <1>4, <1>5, <1>6, <1>7, <1>8, <1>9, <1>10
    DEF BNext, BackendStep, SocketStep, LocalCall, KickLoopStep, bvars
-----------------------------------------------------------------------------
(* The frontend does what it does alone, and pushes reach whom they should. *)

\* A step of the composition is a step of the frontend, or leaves it alone.
LEMMA FrontendStep == BTypeOK /\ CallsSound /\ [BNext]_bvars => [Next]_vars
<1> SUFFICES ASSUME BTypeOK, CallsSound, [BNext]_bvars PROVE [Next]_vars
    OBVIOUS
<1>1. ASSUME NEW op, Taken(op) PROVE Head(line) \in CallRecords /\ Head(line).op = op
    BY <1>1 DEF Taken, CallsSound, CallsTyped
<1>2. CASE UNCHANGED bvars
    BY <1>2 DEF bvars
<1>3. ASSUME NEW s \in Sids, SocketStep(s) PROVE [Next]_vars
    BY <1>3 DEF SocketStep, Next, SocketEvent
<1>4. ASSUME NEW s \in Sids, NEW u \in Uids, LocalCall(s, u) PROVE [Next]_vars
    BY <1>4 DEF LocalCall, Next
<1>5. CASE KickLoopStep
    BY <1>5 DEF KickLoopStep, Next
<1>6. CASE BackendStep
    BY <1>6 DEF BackendStep, SessionCall, SendMessage, PushMessageByUids, Broadcast, Connected,
       ConnectFailed, Disconnected, Add, Leave, GlobalAdd, GlobalLeave, Destroy, PushMessage,
       GlobalDestroy, GlobalRead, GlobalPush
<1>7. CASE RemoteBind
    <2>1. Head(line) \in CallRecords /\ Head(line).op = "bind"
        BY <1>1, <1>7 DEF RemoteBind
    <2>2. Head(line).sid \in Sids /\ Head(line).uid \in Uids
        BY <2>1 DEF CallRecords, Numbered
    <2> QED BY <1>7, <2>2 DEF RemoteBind, Next
<1>8. CASE RemoteUnbind
    <2>1. Head(line) \in CallRecords /\ Head(line).op = "unbind"
        BY <1>1, <1>8 DEF RemoteUnbind
    <2>2. Head(line).sid \in Sids /\ Head(line).uid \in Uids
        BY <2>1 DEF CallRecords, Numbered
    <2> QED BY <1>8, <2>2 DEF RemoteUnbind, Next
<1>9. CASE RemoteKick
    <2>1. Head(line) \in CallRecords /\ Head(line).op = "kick"
        BY <1>1, <1>9 DEF RemoteKick
    <2>2. Head(line).sid \in Sids
        BY <2>1 DEF CallRecords, Numbered
    <2> QED BY <1>9, <2>2 DEF RemoteKick, Next
<1>10. CASE RemoteKickByUid
    <2>1. Head(line) \in CallRecords /\ Head(line).op = "kickByUid"
        BY <1>1, <1>10 DEF RemoteKickByUid
    <2>2. Head(line).uid \in Uids
        BY <2>1 DEF CallRecords, Numbered
    <2> QED BY <1>10, <2>2 DEF RemoteKickByUid, Next
<1>11. CASE RemoteSend \/ RemotePush \/ RemoteBroadcast
    BY <1>11 DEF RemoteSend, RemotePush, RemoteBroadcast, Schedule
<1> QED
    BY <1>2, <1>3, <1>4, <1>5, <1>6, <1>7, <1>8, <1>9, <1>10, <1>11 DEF BNext, RemoteStep

\* Whatever backend servers ask for, the sessions of the frontend only make the
\* steps of FrontendSessions, so what is proved of it there holds here as well.
\* (sessionRemote.ts, channelRemote.ts: they call the session service)
THEOREM BackendKeepsSessions == BSpec => Spec
<1>1. BInit => Init /\ BTypeOK
    BY InitSound DEF BInit, ChannelSound
<1>2. ChannelSound /\ CallsSound /\ [BNext]_bvars => [Next]_vars
    BY FrontendStep DEF ChannelSound
<1> QED
    BY <1>1, <1>2, InitSound, StepSound, CallsInit, CallsStep, PTL DEF BSpec, Spec

\* A push that is taken is a call that is due.
LEMMA PushTaken ==
    ASSUME CallsSound, NEW op \in {"send", "push", "broadcast"}, Taken(op)
    PROVE  LET c == Head(line) IN
           /\ c \in CallRecords /\ c.op = op /\ ~RefersToGroup(c) /\ MeantFor(c, groups[Here])
           /\ \A i \in DOMAIN arrived : arrived[i] # c.n /\ (arrived[i] > c.n => c.first)
<1>1. /\ Due = line /\ line \in Seq(CallRecords) /\ line # <<>> /\ arrived \in Seq(1 .. MaxPushes)
      /\ Head(line).op = op
    BY DEF Taken, Due, CallsSound, CallsTyped
<1>2. 1 \in 1 .. Len(line) /\ Head(line) = line[1] /\ line[1] \in CallRecords /\ IsPush(line[1])
    BY <1>1 DEF IsPush
<1>3. \A k \in 1 .. Len(arrived) : MayFollow(line[1], arrived[k])
    BY <1>1, <1>2 DEF CallsSound, NotYet
<1>4. ~RefersToGroup(line[1]) /\ MeantFor(line[1], groups[Here])
    BY <1>1, <1>2 DEF CallsSound, SentIsFixed, Made, Taken
<1> QED BY <1>1, <1>2, <1>3, <1>4 DEF MayFollow

\* The steps that take a push.
LEMMA PushStep ==
    ASSUME IInv, BTypeOK, CallsSound, [BNext]_bvars, arrived' # arrived
    PROVE  LET c == Head(line) IN
           /\ \A s \in Sids : out'[s] > 0 =>
                 out'[s] = 1 /\ (uid[s] \in c.who \/ s \in c.who)
           /\ \A i \in DOMAIN arrived :
                 arrived[i] # c.n /\ (arrived[i] > c.n => c.first)
<1> DEFINE c == Head(line)
<1>1. RemoteSend \/ RemotePush \/ RemoteBroadcast
    <2>1. ~UNCHANGED backend
        BY DEF backend, pushing, delivered
    <2>2. ~BackendStep
        BY DEF BackendStep, SessionCall, SendMessage, PushMessageByUids, Broadcast, Connected,
           ConnectFailed, Disconnected, Add, Leave, GlobalAdd, GlobalLeave, Destroy, PushMessage,
           GlobalDestroy, GlobalRead, GlobalPush, Push, pushing, delivered
    <2>3. ~(RemoteBind \/ RemoteUnbind \/ RemoteKick \/ RemoteKickByUid)
        BY DEF RemoteBind, RemoteUnbind, RemoteKick, RemoteKickByUid, delivered
    <2> QED BY <2>1, <2>2, <2>3 DEF BNext, SocketStep, LocalCall, KickLoopStep, RemoteStep, bvars
<1>2. CASE RemoteSend
    <2>1. Taken("send")
        BY <1>2 DEF RemoteSend
    <2>2. c.op = "send" /\ c.to \in c.who
        BY <2>1, PushTaken DEF MeantFor
    <2>3. \A s \in Sids : out'[s] \in {0, 1} /\ (out'[s] = 1 => s = c.to)
        BY <1>2 DEF RemoteSend, Schedule
    <2> QED BY <2>1, <2>2, <2>3, PushTaken
<1>3. CASE RemotePush
    <2>1. Taken("push")
        BY <1>3 DEF RemotePush
    <2>2. c \in CallRecords /\ c.op = "push" /\ ~RefersToGroup(c) /\ MeantFor(c, groups[Here])
        BY <2>1, PushTaken
    <2>3. /\ c.to \in Seq(Uids)
          /\ \A i, j \in 1 .. Len(c.to) : c.to[i] = c.to[j] => i = j
          /\ \A i \in 1 .. Len(c.to) : c.to[i] \in c.who
        <3>1. c.to # None
            BY <2>2 DEF RefersToGroup
        <3>2. c.to \in Seq(Uids)
            BY <2>2, <3>1, PushIsRecord DEF PushRecords
        <3> QED BY <2>2, <3>1, <3>2 DEF MeantFor
    <2>4. \A s \in Sids : out'[s] = 0 \/ out'[s] = Occurrences(s, c.to)
        BY <1>3 DEF RemotePush, Schedule
    <2>5. \A s \in Sids : out'[s] = 0 \/ (out'[s] = 1 /\ uid[s] \in c.who)
        <3>1. TypeOK /\ UidMapExact
            BY DEF IInv
        <3> HIDE DEF c
        <3> QED BY <2>3, <2>4, <3>1, OccursOnce
    <2> QED BY <2>1, <2>5, PushTaken
<1>4. CASE RemoteBroadcast
    <2>1. Taken("broadcast")
        BY <1>4 DEF RemoteBroadcast
    <2>2. c.op = "broadcast" /\ (c.to \/ c.who = Sids)
        BY <2>1, PushTaken DEF MeantFor
    <2>3. \A s \in Sids : out'[s] = 0 \/ (out'[s] = 1 /\ ~c.to)
        BY <1>4 DEF RemoteBroadcast, Schedule
    <2> QED BY <2>1, <2>2, <2>3, PushTaken
<1> QED BY <1>1, <1>2, <1>3, <1>4

\* With uids that are not falsy, for any number of sessions, users, calls and
\* pushes: a push reaches a session at most once, and only one of a user it is
\* meant for; no push is taken twice, and none is overtaken but the one that
\* opened the connection.  (channelService.ts, channelRemote.ts, mailstation.ts
\* dispatch)
THEOREM PushesCorrect == ASSUME FalsyUids = {} PROVE BSpec => PushesSound
<1> DEFINE BInv == IInv /\ ChannelSound /\ CallsSound
           Arrival ==
               arrived' # arrived =>
                   LET c == Head(line) IN
                   /\ \A s \in Sids : out'[s] > 0 =>
                         out'[s] = 1 /\ (uid[s] \in c.who \/ s \in c.who)
                   /\ \A i \in DOMAIN arrived :
                         arrived[i] # c.n /\ (arrived[i] > c.n => c.first)
<1>1. BInit => BInv
    BY InitHolds, InitSound, CallsInit DEF BInit
<1>2. BInv /\ [BNext]_bvars => BInv'
    <2> SUFFICES ASSUME BInv, [BNext]_bvars PROVE BInv'
        OBVIOUS
    <2>1. [Next]_vars
        BY FrontendStep DEF ChannelSound
    <2> QED BY <2>1, NextStep, StepSound, CallsStep
<1>3. BInv /\ [BNext]_bvars => [Arrival]_bvars
    <2> SUFFICES ASSUME BInv, [BNext]_bvars, arrived' # arrived PROVE Arrival
        OBVIOUS
    <2> QED BY PushStep DEF ChannelSound
<1> QED
    BY <1>1, <1>2, <1>3, PTL DEF BSpec, PushesSound
=============================================================================
