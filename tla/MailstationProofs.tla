-------------------------- MODULE MailstationProofs --------------------------
(***************************************************************************)
(* Proofs that the safety invariants of Mailstation hold for every set of  *)
(* calls, server ids and infos, every queue size and every set of faults.  *)
(***************************************************************************)
EXTENDS Mailstation, FiniteSetTheorems, TLAPS

USE PendingSizeAssumption, RetriesAssumption, MaxSyncsAssumption, NoneAssumption

-----------------------------------------------------------------------------
(* Type correctness.                                                       *)

LEMMA TypeInit == Init => TypeOK
<1> SUFFICES ASSUME Init PROVE TypeOK
  OBVIOUS
<1> USE DEF Init
<1>1. state \in {"INITED", "STARTED", "CLOSED"} /\ fetching \in BOOLEAN /\ closeAll \in {"off", "armed", "done"}
  OBVIOUS
<1>2. servers \in [Ids -> Infos \cup {None}] /\ syncs \in 0..MaxSyncs /\ mailboxes \in [Ids -> Calls \cup {None}]
  OBVIOUS
<1>3. connecting \in [Ids -> BOOLEAN] /\ pendings \in [Ids -> SUBSET Calls]
  OBVIOUS
<1>4. phase \in [Calls -> Phases] /\ attempt \in [Calls -> Attempts] /\ info \in [Calls -> Infos \cup {None}]
  BY DEF Phases, Attempts
<1>5. pc \in [Calls -> Pcs] /\ target \in [Calls -> Ids]
  BY DEF Pcs
<1>6. tries \in [Calls -> 0..Retries] /\ via \in [Calls -> Calls \cup {None}]
  OBVIOUS
<1> QED
  BY <1>1, <1>2, <1>3, <1>4, <1>5, <1>6 DEF TypeOK

LEMMA TypeStation == TypeOK /\ Station => TypeOK'
<1> SUFFICES ASSUME TypeOK, Station PROVE TypeOK'
  OBVIOUS
<1> USE DEF TypeOK, registryVars, stationVars, boxVars, callVars
<1>1. CASE Start
  BY <1>1 DEF Start
<1>2. CASE StopNow
  BY <1>2 DEF StopNow, CloseAllMailboxes, Shut, Phases
<1>3. CASE StopGracefully
  BY <1>3 DEF StopGracefully
<1>4. CASE GraceTimeout
  BY <1>4 DEF GraceTimeout, CloseAllMailboxes, Shut, Phases
<1>5. ASSUME NEW new \in [Ids -> Infos \cup {None}], ServersChanged(new) \/ ServersFetched(new)
      PROVE TypeOK'
  <2>1. SyncServers(new) /\ state' = state /\ fetching' \in BOOLEAN
    BY <1>5 DEF ServersChanged, ServersFetched, SyncServers
  <2>2. phase' \in [Calls -> Phases]
    BY <2>1 DEF SyncServers, Shut, Phases
  <2>3. mailboxes' \in [Ids -> Calls \cup {None}]
    BY <2>1 DEF SyncServers
  <2> QED
    BY <2>1, <2>2, <2>3 DEF SyncServers
<1> QED
  BY <1>1, <1>2, <1>3, <1>4, <1>5 DEF Station

LEMMA TypeDispatch == \A c \in Calls : TypeOK /\ Dispatch(c) => TypeOK'
<1> SUFFICES ASSUME NEW c \in Calls, TypeOK, Dispatch(c) PROVE TypeOK'
  OBVIOUS
<1> USE DEF TypeOK, registryVars, stationVars, boxVars, Pcs
<1>1. CASE DispatchRejected(c)
  BY <1>1 DEF DispatchRejected, Settle
<1>2. CASE DispatchParked(c)
  BY <1>2 DEF DispatchParked, AddToPending
<1>3. CASE DispatchSent(c)
  BY <1>3 DEF DispatchSent
<1>4. CASE DispatchConnecting(c)
  BY <1>4 DEF DispatchConnecting, CreateMailbox, Phases, Attempts
<1>5. CASE DispatchUnknown(c)
  BY <1>5 DEF DispatchUnknown
<1> QED
  BY <1>1, <1>2, <1>3, <1>4, <1>5 DEF Dispatch

LEMMA TypeRetryAnswer == \A c \in Calls : TypeOK /\ (RetryWake(c) \/ Answer(c)) => TypeOK'
<1> SUFFICES ASSUME NEW c \in Calls, TypeOK, RetryWake(c) \/ Answer(c) PROVE TypeOK'
  OBVIOUS
<1> USE DEF TypeOK, registryVars, stationVars, boxVars, Pcs
<1>1. CASE RetryGivesUp(c)
  BY <1>1 DEF RetryGivesUp, Settle
<1>2. CASE RetryMisses(c)
  BY <1>2 DEF RetryMisses
<1>3. CASE RetryFinds(c)
  <2>1. CASE AddToPending(c) /\ UNCHANGED <<connecting, mailboxes, boxVars>>
    BY <1>3, <2>1 DEF RetryFinds, AddToPending
  <2>2. CASE CreateMailbox(c)
    BY <1>3, <2>2 DEF RetryFinds, CreateMailbox, Phases, Attempts
  <2> QED
    BY <1>3, <2>1, <2>2 DEF RetryFinds, LazyConnect
<1>4. CASE Reply(c)
  BY <1>4 DEF Reply, Settle
<1>5. CASE ReplyServerClosed(c)
  BY <1>5 DEF ReplyServerClosed, Settle, Shut, ForgottenBy, Phases
<1>6. CASE InvokeTimeout(c)
  BY <1>6 DEF InvokeTimeout, Settle
<1> QED
  BY <1>1, <1>2, <1>3, <1>4, <1>5, <1>6 DEF RetryWake, Answer

LEMMA TypeMailboxEvent == \A m \in Calls : TypeOK /\ MailboxEvent(m) => TypeOK'
<1> SUFFICES ASSUME NEW m \in Calls, TypeOK, MailboxEvent(m) PROVE TypeOK'
  OBVIOUS
<1> USE DEF TypeOK, registryVars, stationVars, callVars, Phases, Attempts, Pcs
<1>1. CASE Connected(m)
  BY <1>1 DEF Connected
<1>2. CASE LateOpen(m)
  BY <1>2 DEF LateOpen
<1>3. CASE ConnectRefused(m)
  BY <1>3 DEF ConnectRefused, Shut
<1>4. CASE ConnectTimeout(m)
  BY <1>4 DEF ConnectTimeout, AddToPending
<1>5. CASE LocalClose(m)
  BY <1>5 DEF LocalClose, Shut, ForgottenBy
<1>6. CASE SocketClosed(m)
  BY <1>6 DEF SocketClosed, Settle
<1>7. CASE ConnectionLost(m)
  BY <1>7 DEF ConnectionLost, Shut, ForgottenBy, Settle
<1> QED
  BY <1>1, <1>2, <1>3, <1>4, <1>5, <1>6, <1>7 DEF MailboxEvent

LEMMA TypeStep == TypeOK /\ [Next]_vars => TypeOK'
<1> SUFFICES ASSUME TypeOK, [Next]_vars PROVE TypeOK'
  OBVIOUS
<1>1. CASE UNCHANGED vars
  BY <1>1 DEF TypeOK, vars, registryVars, stationVars, boxVars, callVars
<1> QED
  BY <1>1, TypeStation, TypeDispatch, TypeRetryAnswer, TypeMailboxEvent DEF Next

\* Every variable keeps its type, for all constants that meet the assumptions.
THEOREM TypeCorrect == Spec => []TypeOK
BY TypeInit, TypeStep, PTL DEF Spec

-----------------------------------------------------------------------------
(* The inductive invariant.  Each lemma is one kind of step; within it, one *)
(* step per action.                                                         *)

LEMMA InvInit == Init => IInv
BY TypeInit DEF Init, IInv, BoxOfCall, MapHoldsLiveMailbox, SentOverConnected,
   FreshMailbox, OneAttempt, FlushHasMailbox, ParkedWhileConnecting, NoOrphanedRequest

\* A call that parks itself under a connecting id keeps the facts about calls.
LEMMA InvParks ==
    ASSUME IInv, TypeOK', NEW c \in Calls, pc[c] \in {"idle", "retry"},
           connecting[target[c]], AddToPending(c),
           UNCHANGED <<servers, mailboxes, connecting, boxVars, target, via>>
    PROVE  IInv'
<1> USE DEF IInv, TypeOK, boxVars
<1>1. \A d \in Calls : d # c => pc'[d] = pc[d]
  BY DEF AddToPending
<1>2. pc'[c] \in {"parked", "dropped"}
  BY DEF AddToPending
<1>3. BoxOfCall'
  BY <1>1, <1>2 DEF BoxOfCall
<1>4. MapHoldsLiveMailbox' /\ FreshMailbox' /\ OneAttempt' /\ FlushHasMailbox'
  BY DEF MapHoldsLiveMailbox, FreshMailbox, OneAttempt, FlushHasMailbox
<1>5. SentOverConnected' /\ NoOrphanedRequest'
  BY <1>1, <1>2 DEF SentOverConnected, NoOrphanedRequest
<1>6. ParkedWhileConnecting'
  BY <1>1, <1>2 DEF ParkedWhileConnecting, AddToPending
<1> QED
  BY <1>3, <1>4, <1>5, <1>6

\* A call that creates its mailbox does so under an id nobody connects to.
LEMMA InvCreates ==
    ASSUME IInv, TypeOK', NEW c \in Calls, pc[c] \in {"idle", "retry"},
           ~connecting[target[c]], CreateMailbox(c), servers[target[c]] # None,
           UNCHANGED <<servers, target, via>>
    PROVE  IInv'
<1> USE DEF IInv, TypeOK, CreateMailbox
<1>1. attempt[c] = "none" /\ phase[c] = "none"
  BY DEF BoxOfCall
<1>2. BoxOfCall'
  BY DEF BoxOfCall
<1>3. MapHoldsLiveMailbox'
  BY <1>1 DEF MapHoldsLiveMailbox
<1>4. FreshMailbox'
  BY <1>1 DEF FreshMailbox, MapHoldsLiveMailbox
<1>5. OneAttempt'
  BY DEF OneAttempt
<1>6. FlushHasMailbox'
  BY DEF FlushHasMailbox, OneAttempt
<1>7. SentOverConnected' /\ NoOrphanedRequest'
  BY <1>1 DEF SentOverConnected, NoOrphanedRequest
<1>8. ParkedWhileConnecting'
  BY DEF ParkedWhileConnecting
<1> QED
  BY <1>2, <1>3, <1>4, <1>5, <1>6, <1>7, <1>8

LEMMA InvDispatch == \A c \in Calls : IInv /\ TypeOK' /\ Dispatch(c) => IInv'
<1> SUFFICES ASSUME NEW c \in Calls, IInv, TypeOK', Dispatch(c) PROVE IInv'
  OBVIOUS
<1> USE DEF IInv, TypeOK, registryVars, stationVars, boxVars
<1>1. CASE DispatchRejected(c)
  BY <1>1 DEF DispatchRejected, Settle, BoxOfCall, MapHoldsLiveMailbox, SentOverConnected,
     FreshMailbox, OneAttempt, FlushHasMailbox, ParkedWhileConnecting, NoOrphanedRequest
<1>2. CASE DispatchParked(c)
  BY <1>2, InvParks DEF DispatchParked
<1>3. CASE DispatchSent(c)
  <2> USE <1>3 DEF DispatchSent
  <2>1. LET m == mailboxes[target[c]]
        IN  m \in Calls /\ target[m] = target[c] /\ attempt[m] = "ok" /\ phase[m] = "open"
    BY DEF MapHoldsLiveMailbox, OneAttempt
  <2>2. SentOverConnected' /\ NoOrphanedRequest'
    BY <2>1 DEF SentOverConnected, NoOrphanedRequest
  <2>3. BoxOfCall' /\ ParkedWhileConnecting'
    BY DEF BoxOfCall, ParkedWhileConnecting
  <2>4. MapHoldsLiveMailbox' /\ FreshMailbox' /\ OneAttempt' /\ FlushHasMailbox'
    BY DEF MapHoldsLiveMailbox, FreshMailbox, OneAttempt, FlushHasMailbox
  <2> QED
    BY <2>2, <2>3, <2>4
<1>4. CASE DispatchConnecting(c)
  BY <1>4, InvCreates DEF DispatchConnecting
<1>5. CASE DispatchUnknown(c)
  BY <1>5 DEF DispatchUnknown, BoxOfCall, MapHoldsLiveMailbox, SentOverConnected,
     FreshMailbox, OneAttempt, FlushHasMailbox, ParkedWhileConnecting, NoOrphanedRequest
<1> QED
  BY <1>1, <1>2, <1>3, <1>4, <1>5 DEF Dispatch

LEMMA InvRetry == \A c \in Calls : IInv /\ TypeOK' /\ RetryWake(c) => IInv'
<1> SUFFICES ASSUME NEW c \in Calls, IInv, TypeOK', RetryWake(c) PROVE IInv'
  OBVIOUS
<1> USE DEF IInv, TypeOK, registryVars, stationVars, boxVars
<1>1. CASE RetryGivesUp(c)
  BY <1>1 DEF RetryGivesUp, Settle, BoxOfCall, MapHoldsLiveMailbox, SentOverConnected,
     FreshMailbox, OneAttempt, FlushHasMailbox, ParkedWhileConnecting, NoOrphanedRequest
<1>2. CASE RetryMisses(c)
  BY <1>2 DEF RetryMisses, BoxOfCall, MapHoldsLiveMailbox, SentOverConnected,
     FreshMailbox, OneAttempt, FlushHasMailbox, ParkedWhileConnecting, NoOrphanedRequest
<1>3. CASE RetryFinds(c)
  BY <1>3, InvParks, InvCreates DEF RetryFinds, LazyConnect
<1> QED
  BY <1>1, <1>2, <1>3 DEF RetryWake

\* Settling sent calls, whatever the reason, keeps the facts about calls.
LEMMA InvSettles ==
    ASSUME IInv, TypeOK', NEW S, \A c \in S : c \in Calls /\ pc[c] = "sent",
           pc' = Settle(S),
           UNCHANGED <<servers, mailboxes, connecting, pendings, boxVars, target, via>>
    PROVE  IInv'
BY DEF IInv, TypeOK, boxVars, Settle, BoxOfCall, MapHoldsLiveMailbox, SentOverConnected,
   FreshMailbox, OneAttempt, FlushHasMailbox, ParkedWhileConnecting, NoOrphanedRequest

\* Closing an open mailbox m also removes from the map whatever it closes, and
\* leaves no connection attempt of its own behind.
LEMMA InvCloses ==
    ASSUME IInv, TypeOK', NEW m \in Calls, phase[m] = "open",
           NEW S, \A c \in S : c \in Calls /\ pc[c] = "sent",
           pc' = Settle(S),
           mailboxes' = ForgottenBy(m),
           \/ phase' = Shut(ClosedWith(m))
           \/ (phase' = [Shut(ClosedWith(m)) EXCEPT ![m] = "closed"] /\ S = SentVia(m)),
           UNCHANGED <<servers, connecting, pendings, attempt, info, target, via>>
    PROVE  IInv'
<1> USE DEF IInv, TypeOK
<1>1. attempt[m] \in {"ok", "failed"}
  BY DEF BoxOfCall, Attempts
<1>0. m \in ClosedWith(m) /\ Live(m)
  BY DEF ClosedWith, Live
<1>a. \A n \in Calls : Shut(ClosedWith(m))[n] =
                         IF n \in ClosedWith(m) /\ Live(n) THEN "closing" ELSE phase[n]
  BY DEF Shut
<1>b. Shut(ClosedWith(m)) \in [Calls -> Phases]
  BY <1>a DEF Shut, Phases
<1>2. \A n \in Calls : phase'[n] = phase[n]
                       \/ (n \in ClosedWith(m) /\ Live(n) /\ phase'[n] \in {"closing", "closed"})
  <2>1. CASE phase' = Shut(ClosedWith(m))
    BY <1>a, <2>1
  <2>2. CASE phase' = [Shut(ClosedWith(m)) EXCEPT ![m] = "closed"]
    BY <1>0, <1>a, <1>b, <2>2
  <2> QED
    BY <2>1, <2>2
<1>3. \A n \in Calls : phase'[n] = "closed" => phase[n] = "closed" \/ (n = m /\ S = SentVia(m))
  <2>1. CASE phase' = Shut(ClosedWith(m))
    BY <1>a, <2>1
  <2>2. CASE phase' = [Shut(ClosedWith(m)) EXCEPT ![m] = "closed"] /\ S = SentVia(m)
    BY <1>a, <1>b, <2>2
  <2> QED
    BY <2>1, <2>2
<1>4. \A n \in Calls : (phase'[n] = "none") <=> (phase[n] = "none")
  BY <1>2 DEF Live
<1>5. \A i \in Ids : mailboxes'[i] # None =>
         mailboxes'[i] = mailboxes[i] /\ phase'[mailboxes[i]] = phase[mailboxes[i]]
  <2> SUFFICES ASSUME NEW i \in Ids, mailboxes'[i] # None
               PROVE  mailboxes'[i] = mailboxes[i] /\ phase'[mailboxes[i]] = phase[mailboxes[i]]
    OBVIOUS
  <2>1. mailboxes'[i] = mailboxes[i] /\ ~(Listening(m) /\ target[m] = i)
    BY DEF ForgottenBy
  <2>2. mailboxes[i] \in Calls /\ target[mailboxes[i]] = i /\ attempt[mailboxes[i]] \in {"pending", "ok"}
    BY <2>1 DEF MapHoldsLiveMailbox
  <2>3. mailboxes[i] \notin ClosedWith(m)
    <3>1. mailboxes[i] # m
      BY <1>1, <2>1, <2>2 DEF Listening
    <3>2. Listening(m) /\ mailboxes[target[m]] # None => target[mailboxes[target[m]]] = target[m]
      BY DEF MapHoldsLiveMailbox
    <3> QED
      BY <2>1, <2>2, <3>1, <3>2 DEF ClosedWith
  <2> QED
    BY <1>2, <2>1, <2>2, <2>3
<1>6. \A c \in Calls : pc'[c] = pc[c] \/ (pc[c] = "sent" /\ pc'[c] = "settled")
  BY DEF Settle
<1>7. BoxOfCall'
  BY <1>2, <1>4, <1>6 DEF BoxOfCall
<1>8. MapHoldsLiveMailbox' /\ FreshMailbox'
  BY <1>5 DEF MapHoldsLiveMailbox, FreshMailbox
<1>9. OneAttempt'
  BY DEF OneAttempt
<1>10. FlushHasMailbox'
  <2> SUFFICES ASSUME NEW n \in Calls, attempt[n] = "pending", phase'[n] = "opening"
               PROVE  mailboxes'[target[n]] = n
    BY DEF FlushHasMailbox
  <2>1. phase[n] = "opening" /\ mailboxes[target[n]] = n
    BY <1>2 DEF FlushHasMailbox
  <2>2. ~(Listening(m) /\ target[m] = target[n])
    <3>1. n # m
      BY <1>1
    <3>2. n \notin ClosedWith(m)
      BY <1>a, <1>b, <2>1, <3>1 DEF Live
    <3> QED
      BY <2>1, <3>2 DEF ClosedWith
  <2> QED
    BY <2>1, <2>2 DEF ForgottenBy
<1>11. SentOverConnected'
  BY <1>6 DEF SentOverConnected
<1>12. NoOrphanedRequest'
  <2> SUFFICES ASSUME NEW c \in Calls, pc'[c] = "sent"
               PROVE  phase'[via[c]] \in {"open", "closing"} /\ target[via[c]] = target[c]
    BY DEF NoOrphanedRequest
  <2>1. pc[c] = "sent" /\ c \notin S
    BY <1>6 DEF Settle
  <2>2. via[c] \in Calls /\ phase[via[c]] \in {"open", "closing"} /\ target[via[c]] = target[c]
    BY <2>1 DEF SentOverConnected, NoOrphanedRequest
  <2>3. phase'[via[c]] # "closed"
    BY <1>3, <2>1, <2>2 DEF SentVia
  <2> QED
    BY <1>2, <2>2, <2>3
<1>13. ParkedWhileConnecting'
  BY <1>6 DEF ParkedWhileConnecting
<1> QED
  BY <1>7, <1>8, <1>9, <1>10, <1>11, <1>12, <1>13

LEMMA InvAnswer == \A c \in Calls : IInv /\ TypeOK' /\ Answer(c) => IInv'
<1> SUFFICES ASSUME NEW c \in Calls, IInv, TypeOK', Answer(c) PROVE IInv'
  OBVIOUS
<1>1. CASE Reply(c)
  BY <1>1, InvSettles DEF Reply, registryVars
<1>2. CASE ReplyServerClosed(c)
  <2>1. via[c] \in Calls
    BY <1>2 DEF ReplyServerClosed, IInv, SentOverConnected
  <2> DEFINE S == {c}
             m == via[c]
  <2>2. \A d \in S : d \in Calls /\ pc[d] = "sent"
    BY <1>2 DEF ReplyServerClosed
  <2>3. /\ m \in Calls
        /\ phase[m] = "open"
        /\ pc' = Settle(S)
        /\ mailboxes' = ForgottenBy(m)
        /\ phase' = Shut(ClosedWith(m))
        /\ UNCHANGED <<servers, connecting, pendings, attempt, info, target, via>>
    BY <1>2, <2>1 DEF ReplyServerClosed, registryVars
  <2> HIDE DEF S, m
  <2> QED
    BY <2>2, <2>3, InvCloses
<1>3. CASE InvokeTimeout(c)
  BY <1>3, InvSettles DEF InvokeTimeout, registryVars
<1> QED
  BY <1>1, <1>2, <1>3 DEF Answer

\* Closing a set of mailboxes that all come from the map, of which the entries
\* the station listens to are deleted: removeOldMailboxes and closeAll.
LEMMA InvShuts ==
    ASSUME IInv, TypeOK', NEW Gone \in SUBSET Ids, NEW Hit \in SUBSET Ids, Gone \subseteq Hit,
           phase' = Shut({mailboxes[i] : i \in Hit} \ {None}),
           mailboxes' = [i \in Ids |-> IF i \in Gone THEN None ELSE mailboxes[i]],
           \A i \in Hit \ Gone : mailboxes[i] # None => attempt[mailboxes[i]] = "pending",
           \A i \in Ids \ Gone : mailboxes[i] # None => servers'[i] = servers[i],
           UNCHANGED <<connecting, pendings, attempt, info, callVars>>
    PROVE  IInv'
<1> USE DEF IInv, TypeOK, callVars
<1> DEFINE S == {mailboxes[i] : i \in Hit} \ {None}
<1>1. \A n \in Calls : n \in S => mailboxes[target[n]] = n /\ target[n] \in Hit
  BY DEF MapHoldsLiveMailbox
<1>2. \A n \in Calls : phase'[n] = IF n \in S /\ Live(n) THEN "closing" ELSE phase[n]
  BY DEF Shut
<1> HIDE DEF S
<1>3. BoxOfCall'
  BY <1>2 DEF BoxOfCall, Live
<1>4. MapHoldsLiveMailbox'
  <2> SUFFICES ASSUME NEW i \in Ids, mailboxes'[i] # None
               PROVE  LET m == mailboxes[i]
                      IN  /\ target[m] = i
                          /\ attempt[m] \in {"pending", "ok"}
                          /\ attempt[m] = "ok" => phase'[m] = "open"
                          /\ info[m] # None
    BY DEF MapHoldsLiveMailbox
  <2>1. mailboxes[i] \in Calls /\ i \notin Gone
    OBVIOUS
  <2>2. target[mailboxes[i]] = i /\ attempt[mailboxes[i]] \in {"pending", "ok"}
        /\ (attempt[mailboxes[i]] = "ok" => phase[mailboxes[i]] = "open")
        /\ info[mailboxes[i]] # None
    BY <2>1 DEF MapHoldsLiveMailbox
  <2>3. attempt[mailboxes[i]] = "ok" => mailboxes[i] \notin S
    BY <1>1, <2>1, <2>2
  <2> QED
    BY <1>2, <2>1, <2>2, <2>3
<1>5. FreshMailbox'
  BY DEF FreshMailbox
<1>6. OneAttempt'
  BY DEF OneAttempt
<1>7. FlushHasMailbox'
  <2> SUFFICES ASSUME NEW n \in Calls, attempt[n] = "pending", phase'[n] = "opening"
               PROVE  mailboxes'[target[n]] = n
    BY DEF FlushHasMailbox
  <2>1. phase[n] = "opening" /\ n \notin S
    BY <1>2 DEF Live
  <2>2. mailboxes[target[n]] = n
    BY <2>1 DEF FlushHasMailbox
  <2>3. target[n] \notin Gone
    BY <2>1, <2>2 DEF S
  <2> QED
    BY <2>2, <2>3
<1>8. SentOverConnected' /\ ParkedWhileConnecting'
  BY DEF SentOverConnected, ParkedWhileConnecting
<1>9. NoOrphanedRequest'
  BY <1>2 DEF NoOrphanedRequest, SentOverConnected
<1> QED
  BY <1>3, <1>4, <1>5, <1>6, <1>7, <1>8, <1>9

\* closeAll() is such a step: an entry that stays belongs to a pending attempt.
LEMMA InvCloseAll == IInv /\ TypeOK' /\ CloseAllMailboxes => IInv'
<1> SUFFICES ASSUME IInv, TypeOK', CloseAllMailboxes PROVE IInv'
  OBVIOUS
<1> USE DEF IInv, TypeOK, CloseAllMailboxes, registryVars
<1> DEFINE Gone == {i \in Ids : mailboxes[i] # None /\ Live(mailboxes[i]) /\ Listening(mailboxes[i])}
<1>1. mailboxes' = [i \in Ids |-> IF i \in Gone THEN None ELSE mailboxes[i]]
  OBVIOUS
<1>2. \A i \in Ids \ Gone : mailboxes[i] # None => attempt[mailboxes[i]] = "pending"
  BY DEF MapHoldsLiveMailbox, Live, Listening
<1>3. Gone \in SUBSET Ids /\ Ids \in SUBSET Ids
  OBVIOUS
<1> HIDE DEF Gone
<1> QED
  BY <1>1, <1>2, <1>3, InvShuts

LEMMA InvStation == IInv /\ TypeOK' /\ Station => IInv'
<1> SUFFICES ASSUME IInv, TypeOK', Station PROVE IInv'
  OBVIOUS
<1> USE DEF registryVars, boxVars, callVars
<1>1. CASE Start \/ StopGracefully
  BY <1>1 DEF Start, StopGracefully, IInv, BoxOfCall, MapHoldsLiveMailbox, SentOverConnected,
     FreshMailbox, OneAttempt, FlushHasMailbox, ParkedWhileConnecting, NoOrphanedRequest
<1>2. CASE StopNow \/ GraceTimeout
  BY <1>2, InvCloseAll DEF StopNow, GraceTimeout
<1>3. ASSUME NEW new \in [Ids -> Infos \cup {None}], ServersChanged(new) \/ ServersFetched(new)
      PROVE IInv'
  <2> DEFINE Gone == Outdated(new)
  <2>1. Gone \in SUBSET Ids
    BY DEF Outdated
  <2>2. \A i \in Ids \ Gone : mailboxes[i] # None => servers'[i] = servers[i]
    BY <1>3 DEF ServersChanged, ServersFetched, SyncServers, Outdated, FreshMailbox, MapHoldsLiveMailbox, IInv, TypeOK
  <2> QED
    BY <1>3, <2>1, <2>2, InvShuts DEF ServersChanged, ServersFetched, SyncServers
<1> QED
  BY <1>1, <1>2, <1>3 DEF Station

LEMMA InvMailboxEvent == \A m \in Calls : IInv /\ TypeOK' /\ MailboxEvent(m) => IInv'
<1> SUFFICES ASSUME NEW m \in Calls, IInv, TypeOK', MailboxEvent(m) PROVE IInv'
  OBVIOUS
<1> USE DEF IInv, TypeOK, registryVars, callVars
<1>1. CASE Connected(m)
  <2> USE <1>1 DEF Connected, SentByFlush, RejectedByFlush
  <2> DEFINE i == target[m]
  <2>1. mailboxes[i] = m /\ i \in Ids /\ connecting[i]
    BY DEF FlushHasMailbox, OneAttempt
  <2>2. \A c \in Calls : c \in pendings[i] => pc[c] = "parked" /\ target[c] = i
    BY DEF ParkedWhileConnecting
  <2>3. \A c \in Calls :
           \/ c # m /\ c \notin pendings[i] /\ pc'[c] = pc[c] /\ via'[c] = via[c]
           \/ c \in pendings[i] /\ pc'[c] = "settled"
           \/ c \in pendings[i] \cup {m} /\ pc'[c] = "sent" /\ via'[c] = m
    BY <2>1
  <2>4. BoxOfCall'
    BY <2>2, <2>3 DEF BoxOfCall
  <2>5. MapHoldsLiveMailbox' /\ FreshMailbox'
    BY DEF MapHoldsLiveMailbox, FreshMailbox
  <2>6. OneAttempt' /\ FlushHasMailbox'
    BY DEF OneAttempt, FlushHasMailbox
  <2>7. SentOverConnected' /\ NoOrphanedRequest'
    BY <2>2, <2>3 DEF SentOverConnected, NoOrphanedRequest, BoxOfCall
  <2>8. ParkedWhileConnecting'
    BY <2>2, <2>3 DEF ParkedWhileConnecting
  <2> QED
    BY <2>4, <2>5, <2>6, <2>7, <2>8
<1>2. CASE LateOpen(m)
  BY <1>2 DEF LateOpen, BoxOfCall, MapHoldsLiveMailbox, SentOverConnected,
     FreshMailbox, OneAttempt, FlushHasMailbox, ParkedWhileConnecting, NoOrphanedRequest
<1>3. CASE ConnectRefused(m)
  BY <1>3 DEF ConnectRefused, Shut, Live, BoxOfCall, MapHoldsLiveMailbox, SentOverConnected,
     FreshMailbox, OneAttempt, FlushHasMailbox, ParkedWhileConnecting, NoOrphanedRequest
<1>4. CASE ConnectTimeout(m)
  <2> USE <1>4 DEF ConnectTimeout
  <2>1. \A c \in Calls : c # m => pc'[c] = pc[c]
    BY DEF AddToPending
  <2>2. pc[m] = "connect" /\ pc'[m] \in {"parked", "dropped"}
    BY DEF AddToPending, BoxOfCall
  <2>3. BoxOfCall'
    BY <2>1, <2>2 DEF BoxOfCall
  <2>4. MapHoldsLiveMailbox' /\ FreshMailbox' /\ OneAttempt'
    BY DEF MapHoldsLiveMailbox, FreshMailbox, OneAttempt
  <2>5. FlushHasMailbox'
    BY DEF FlushHasMailbox, OneAttempt
  <2>6. SentOverConnected' /\ NoOrphanedRequest'
    BY <2>1, <2>2 DEF SentOverConnected, NoOrphanedRequest
  <2>7. /\ connecting[target[m]] /\ connecting' = connecting /\ target' = target
        /\ m \notin pendings[target[m]]
    BY <2>2 DEF OneAttempt, ParkedWhileConnecting
  <2>8. \A c \in Calls : pc'[c] = "parked" => c \in pendings'[target'[c]]
    <3>1. CASE pc' = [pc EXCEPT ![m] = "dropped"] /\ UNCHANGED pendings
      BY <2>2, <2>7, <3>1 DEF ParkedWhileConnecting
    <3>2. CASE /\ pc' = [pc EXCEPT ![m] = "parked"]
               /\ pendings' = [pendings EXCEPT ![target[m]] = @ \cup {m}]
      BY <2>7, <3>2 DEF ParkedWhileConnecting
    <3> QED
      BY <3>1, <3>2 DEF AddToPending
  <2>9. \A j \in Ids : \A c \in pendings'[j] :
           pc'[c] = "parked" /\ target'[c] = j /\ connecting'[j]
    <3>1. CASE pc' = [pc EXCEPT ![m] = "dropped"] /\ UNCHANGED pendings
      BY <2>2, <2>7, <3>1 DEF ParkedWhileConnecting
    <3>2. CASE /\ pc' = [pc EXCEPT ![m] = "parked"]
               /\ pendings' = [pendings EXCEPT ![target[m]] = @ \cup {m}]
      BY <2>7, <3>2 DEF ParkedWhileConnecting
    <3> QED
      BY <3>1, <3>2 DEF AddToPending
  <2>10. ParkedWhileConnecting'
    BY <2>8, <2>9, Zenon DEF ParkedWhileConnecting
  <2> QED
    BY <2>3, <2>4, <2>5, <2>6, <2>10
<1>5. CASE LocalClose(m)
  <2>1. pc' = Settle({})
    BY <1>5 DEF LocalClose, Settle
  <2> QED
    BY <1>5, <2>1, InvCloses DEF LocalClose
<1>6. CASE SocketClosed(m)
  BY <1>6 DEF SocketClosed, Settle, SentVia, BoxOfCall, MapHoldsLiveMailbox, SentOverConnected,
     FreshMailbox, OneAttempt, FlushHasMailbox, ParkedWhileConnecting, NoOrphanedRequest
<1>7. CASE ConnectionLost(m)
  <2> DEFINE S == SentVia(m)
  <2>1. \A c \in S : c \in Calls /\ pc[c] = "sent"
    BY DEF SentVia
  <2>2. /\ phase[m] = "open"
        /\ pc' = Settle(S) /\ S = SentVia(m)
        /\ mailboxes' = ForgottenBy(m)
        /\ phase' = [Shut(ClosedWith(m)) EXCEPT ![m] = "closed"]
        /\ UNCHANGED <<servers, connecting, pendings, attempt, info, target, via>>
    BY <1>7 DEF ConnectionLost
  <2> HIDE DEF S
  <2> QED
    BY <2>1, <2>2, InvCloses
<1> QED
  BY <1>1, <1>2, <1>3, <1>4, <1>5, <1>6, <1>7 DEF MailboxEvent

LEMMA InvStep == IInv /\ [Next]_vars => IInv'
<1> SUFFICES ASSUME IInv, [Next]_vars PROVE IInv'
  OBVIOUS
<1>1. TypeOK'
  BY TypeStep DEF IInv
<1>2. CASE UNCHANGED vars
  BY <1>2 DEF vars, stationVars, registryVars, boxVars, callVars, IInv, TypeOK, BoxOfCall,
     MapHoldsLiveMailbox, SentOverConnected, FreshMailbox, OneAttempt, FlushHasMailbox,
     ParkedWhileConnecting, NoOrphanedRequest
<1> QED
  BY <1>1, <1>2, InvStation, InvDispatch, InvRetry, InvAnswer, InvMailboxEvent DEF Next

THEOREM Invariance == Spec => []IInv
BY InvInit, InvStep, PTL DEF Spec

\* What the invariant gives: a mailbox dispatch() uses at once is connected.
THEOREM MailboxUsable == Spec => []UsableMailbox
<1>1. IInv => UsableMailbox
  BY DEF IInv, TypeOK, UsableMailbox, MapHoldsLiveMailbox, OneAttempt
<1> QED
  BY <1>1, Invariance, PTL

\* The map never holds a connection to a server the registry has replaced.
THEOREM MailboxFresh == Spec => []FreshMailbox
BY Invariance, PTL DEF IInv

\* The connecting flags are a lock around connect().
THEOREM ConnectExclusive == Spec => []OneAttempt
BY Invariance, PTL DEF IInv

\* flushPending always finds the mailbox that has just connected.
THEOREM FlushFindsMailbox == Spec => []FlushHasMailbox
BY Invariance, PTL DEF IInv

\* Queues exist only under ids that are marked as connecting.
THEOREM QueuesAwaited == Spec => []ParkedWhileConnecting
BY Invariance, PTL DEF IInv

\* No request outlives the socket that must answer or reject it.
THEOREM RequestsOwned == Spec => []NoOrphanedRequest
BY Invariance, PTL DEF IInv

\* The map, the connecting flags and the registry agree, for every instance.
THEOREM MailboxesAgree == Spec => []MailboxesSound
BY MailboxUsable, MailboxFresh, ConnectExclusive, PTL DEF MailboxesSound

\* A stopped station sends none of the calls parked in it: flushPending
\* re-dispatches them into the state check.
THEOREM StoppedStationKeepsParked == Spec => ParkedNotSentAfterStop
<1> DEFINE Kept == \A c \in Calls : state = "CLOSED" /\ pc[c] = "parked" => pc'[c] # "sent"
<1>1. IInv /\ [Next]_vars => [Kept]_vars
  <2> SUFFICES ASSUME IInv, Next, NEW c \in Calls, state = "CLOSED", pc[c] = "parked"
               PROVE  pc'[c] # "sent"
    OBVIOUS
  <2> USE DEF IInv, TypeOK
  <2>1. CASE Station
    BY <2>1 DEF Station, Start, StopNow, StopGracefully, GraceTimeout, ServersChanged, ServersFetched,
       SyncServers, CloseAllMailboxes, callVars
  <2>2. ASSUME NEW d \in Calls, Dispatch(d) PROVE pc'[c] # "sent"
    BY <2>2 DEF Dispatch, DispatchRejected, DispatchParked, DispatchSent, DispatchConnecting,
       DispatchUnknown, AddToPending, CreateMailbox, Settle
  <2>3. ASSUME NEW d \in Calls, RetryWake(d) PROVE pc'[c] # "sent"
    BY <2>3 DEF RetryWake, RetryGivesUp, RetryMisses, RetryFinds, LazyConnect, AddToPending,
       CreateMailbox, Settle
  <2>4. ASSUME NEW d \in Calls, Answer(d) PROVE pc'[c] # "sent"
    BY <2>4 DEF Answer, Reply, ReplyServerClosed, InvokeTimeout, Settle
  <2>5. ASSUME NEW m \in Calls, MailboxEvent(m) PROVE pc'[c] # "sent"
    <3>1. CASE Connected(m)
      <4>1. c # m
        BY <3>1 DEF Connected, BoxOfCall
      <4>2. SentByFlush(target[m]) = {}
        BY DEF SentByFlush, RejectedByFlush
      <4> QED
        BY <3>1, <4>1, <4>2 DEF Connected
    <3>2. CASE ConnectTimeout(m)
      BY <3>2 DEF ConnectTimeout, AddToPending
    <3> QED
      BY <2>5, <3>1, <3>2 DEF MailboxEvent, LateOpen, ConnectRefused, LocalClose, SocketClosed,
         ConnectionLost, Settle, callVars
  <2> QED
    BY <2>1, <2>2, <2>3, <2>4, <2>5 DEF Next
<1>2. [][Kept]_vars <=> ParkedNotSentAfterStop
  BY DEF ParkedNotSentAfterStop
<1> QED
  BY <1>1, <1>2, Invariance, PTL DEF Spec

-----------------------------------------------------------------------------
(* The size of the queues.                                                 *)

QueueFinite == \A i \in Ids : IsFiniteSet(pendings[i])

\* addToPending adds to a queue only while its size is at most PendingSize.
LEMMA QueueGrowth ==
    ASSUME TypeOK, QueueFinite, PendingBound, NEW c \in Calls, AddToPending(c)
    PROVE  QueueFinite' /\ PendingBound'
<1> USE DEF TypeOK, QueueFinite, PendingBound, AddToPending
<1> DEFINE Q == pendings[target[c]]
<1>1. CASE UNCHANGED pendings
  BY <1>1
<1>2. CASE Cardinality(Q) <= PendingSize /\ pendings' = [pendings EXCEPT ![target[c]] = Q \cup {c}]
  <2>1. IsFiniteSet(Q) /\ Cardinality(Q) \in Nat
    BY FS_CardinalityType
  <2>2. IsFiniteSet(Q \cup {c}) /\ Cardinality(Q \cup {c}) <= Cardinality(Q) + 1
    <3>1. /\ IsFiniteSet(Q \cup {c})
          /\ Cardinality(Q \cup {c}) = IF c \in Q THEN Cardinality(Q) ELSE Cardinality(Q) + 1
      BY <2>1, FS_AddElement
    <3> HIDE DEF Q
    <3> QED
      BY <2>1, <3>1
  <2>3. Cardinality(Q \cup {c}) \in Nat
    BY <2>2, FS_CardinalityType
  <2>4. Cardinality(Q \cup {c}) <= PendingSize + 1
    BY <1>2, <2>1, <2>2, <2>3
  <2>5. \A i \in Ids : pendings'[i] = IF i = target[c] THEN Q \cup {c} ELSE pendings[i]
    BY <1>2
  <2> HIDE DEF Q
  <2> QED
    BY <2>2, <2>4, <2>5
<1> QED
  BY <1>1, <1>2

LEMMA QueueStep == TypeOK /\ QueueFinite /\ PendingBound /\ [Next]_vars => QueueFinite' /\ PendingBound'
<1> SUFFICES ASSUME TypeOK, QueueFinite, PendingBound, [Next]_vars
             PROVE  QueueFinite' /\ PendingBound'
  OBVIOUS
<1>1. CASE UNCHANGED pendings
  BY <1>1 DEF QueueFinite, PendingBound
<1>2. ASSUME NEW c \in Calls, AddToPending(c) PROVE QueueFinite' /\ PendingBound'
  BY <1>2, QueueGrowth
<1>3. ASSUME NEW m \in Calls, Connected(m) PROVE QueueFinite' /\ PendingBound'
  BY <1>3, FS_EmptySet DEF Connected, QueueFinite, PendingBound, TypeOK
<1>4. \/ UNCHANGED pendings
      \/ \E c \in Calls : AddToPending(c)
      \/ \E m \in Calls : Connected(m)
  BY DEF Next, vars, Station, Start, StopNow, StopGracefully, GraceTimeout, ServersChanged, ServersFetched,
     SyncServers, CloseAllMailboxes, Dispatch, DispatchRejected, DispatchParked, DispatchSent,
     DispatchConnecting, DispatchUnknown, RetryWake, RetryGivesUp, RetryMisses, RetryFinds,
     LazyConnect, CreateMailbox, Answer, Reply, ReplyServerClosed, InvokeTimeout, MailboxEvent,
     LateOpen, ConnectRefused, ConnectTimeout, LocalClose, SocketClosed, ConnectionLost
<1> QED
  BY <1>1, <1>2, <1>3, <1>4

\* A pending queue never holds more than PendingSize + 1 calls.
THEOREM QueuesBounded == Spec => []PendingBound
<1>1. Init => QueueFinite /\ PendingBound
  BY FS_EmptySet DEF Init, QueueFinite, PendingBound
<1> QED
  BY <1>1, QueueStep, TypeCorrect, PTL DEF Spec

\* Parked calls are bounded and awaited, and a connect() finds its mailbox.
THEOREM QueuesCorrect == Spec => []QueuesSound
BY QueuesAwaited, QueuesBounded, FlushFindsMailbox, PTL DEF QueuesSound
=============================================================================
