-------------------------- MODULE RPCChannelProofs --------------------------
(***************************************************************************)
(* Proofs about the calls over an RPC channel, for every set of mailboxes  *)
(* and every number of calls: a pending call has its timer, a caller gets  *)
(* the value of its own call, and the refinement of RPCCalls.              *)
(***************************************************************************)
EXTENDS RPCChannel, FiniteSetTheorems, SequenceTheorems, TLAPS

USE MaxCallsAssumption, NoneAssumption

-----------------------------------------------------------------------------
(* The inductive invariant.                                                *)

\* The calls made are those with an id below curId, and no more messages are
\* buffered than calls were made.
IdsInOrder ==
    \A m \in Mailboxes :
        /\ \A k \in Ids : result[<<m, k>>] # "none" <=> k < curId[m]
        /\ buffered[m] <= curId[m]

\* A package with a value names the call whose service computed it by its id.
TruePackages(m) ==
    {p \in Package : p.kind = "ok" => p.of = <<m, p.id>> /\ p.of \in ran}

AnswersTrue ==
    \A m \in Mailboxes :
        /\ toClient[m] \in Seq(Seq(TruePackages(m)))
        /\ m \in DOMAIN msgQueues => msgQueues[m] \in Seq(TruePackages(m))

\* A frame on its way to the acceptor carries a call that was made and not yet
\* served, or only messages without ids; no call is in two frames.
NewFrame(m, frames, i) ==
    \/ frames[i] \in Seq({None})
    \/ \E k \in Ids :
          /\ frames[i] = <<k>>
          /\ result[<<m, k>>] # "none" /\ <<m, k>> \notin ran
          /\ \A j \in 1 .. Len(frames) : frames[j] = <<k>> => j = i

FramesNew ==
    \A m \in Mailboxes : \A i \in 1 .. Len(toServer[m]) : NewFrame(m, toServer[m], i)

\* Services run for calls that were made.
ServicesOfCalls ==
    /\ running \subseteq ran
    /\ \A c \in ran : result[c] # "none"

\* A call is rejected by the loss of a connection only when no answer can come.
LostAreClosed == \A c \in Calls : result[c] = "disconnected" => sock[c[1]] = "closed"

\* A mailbox is not closed before its socket.
ClosedLate == \A m \in Mailboxes : sock[m] \in {"none", "connecting"} => ~closed[m]

IInv ==
    /\ TypeOK /\ PendingHasTimer /\ AnswersOwnCall /\ ConnectedSocket
    /\ IdsInOrder /\ AnswersTrue /\ FramesNew /\ ServicesOfCalls /\ LostAreClosed /\ ClosedLate

-----------------------------------------------------------------------------
(* Lemmas about packages and frames.                                       *)

LEMMA TruePackagesGrow ==
    ASSUME NEW m, ran \subseteq ran'
    PROVE  TruePackages(m) \subseteq TruePackages(m)'
BY DEF TruePackages

LEMMA SeqSeqMonotonic ==
    ASSUME NEW S, NEW T, S \subseteq T
    PROVE  Seq(S) \subseteq Seq(T) /\ Seq(Seq(S)) \subseteq Seq(Seq(T))
<1>1. Seq(S) \subseteq Seq(T)
    BY SeqMonotonic
<1> QED BY <1>1, SeqMonotonic

\* What is true of a package stays true as services are started.
LEMMA AnswersKept ==
    ASSUME AnswersTrue, ran \subseteq ran', UNCHANGED <<toClient, msgQueues>>
    PROVE  AnswersTrue'
<1> SUFFICES ASSUME NEW m \in Mailboxes
    PROVE  /\ toClient'[m] \in Seq(Seq(TruePackages(m)'))
           /\ m \in DOMAIN msgQueues' => msgQueues'[m] \in Seq(TruePackages(m)')
    BY DEF AnswersTrue
<1>1. TruePackages(m) \subseteq TruePackages(m)'
    BY TruePackagesGrow
<1> QED BY <1>1, SeqSeqMonotonic DEF AnswersTrue

\* A frame on its way stays new as long as no service is started.
LEMMA FramesKept ==
    ASSUME FramesNew, ran' = ran, toServer' = toServer,
           \A c \in Calls : result[c] # "none" => result'[c] # "none"
    PROVE  FramesNew'
<1> SUFFICES ASSUME NEW m \in Mailboxes, NEW i \in 1 .. Len(toServer[m])
    PROVE  NewFrame(m, toServer[m], i)'
    BY DEF FramesNew
<1>1. NewFrame(m, toServer[m], i)
    BY DEF FramesNew
<1>2. \A k \in Ids : <<m, k>> \in Calls
    BY DEF Calls
<1> QED BY <1>1, <1>2 DEF NewFrame

-----------------------------------------------------------------------------
(* The connection and its keepalive clock.                                 *)

ConnectStep(m) ==
    \/ Connect(m) \/ ConnectTimeout(m) \/ Opened(m) \/ LocalClose(m)
    \/ Tick(m) \/ Pong(m) \/ FallSilent(m) \/ Accept(m)

\* None of these steps touches a call, a frame or a queue.
LEMMA CallsKept ==
    ASSUME NEW m \in Mailboxes, ConnectStep(m)
    PROVE  /\ bufferMsg' = bufferMsg /\ buffered' = buffered /\ curId' = curId
           /\ requests' = requests /\ timers' = timers /\ result' = result /\ answer' = answer
           /\ msgQueues' = msgQueues /\ interval' = interval /\ stopped' = stopped
           /\ running' = running /\ ran' = ran /\ toServer' = toServer /\ toClient' = toClient
BY DEF ConnectStep, Connect, ConnectTimeout, Opened, LocalClose, Tick, Pong, FallSilent, Accept, mailbox, acceptor

LEMMA ConnectStepSound ==
    ASSUME IInv, NEW m \in Mailboxes, ConnectStep(m)
    PROVE  IInv'
<1>1. /\ sock \in [Mailboxes -> {"none", "connecting", "open", "closing", "closed"}]
      /\ connected \in [Mailboxes -> BOOLEAN] /\ closed \in [Mailboxes -> BOOLEAN]
      /\ connTimer \in [Mailboxes -> BOOLEAN]
      /\ ping \in [Mailboxes -> {"never", "sent", "answered"}] /\ age \in [Mailboxes -> 0 .. 2]
      /\ mute \subseteq Mailboxes /\ sockets \subseteq Mailboxes
      /\ ssock \in [Mailboxes -> {"none", "open", "terminated", "closed"}]
      /\ ConnectedSocket /\ ClosedLate
    BY DEF IInv, TypeOK
<1>2. TypeOK'
    <2>1. /\ sock' \in [Mailboxes -> {"none", "connecting", "open", "closing", "closed"}]
          /\ connected' \in [Mailboxes -> BOOLEAN] /\ closed' \in [Mailboxes -> BOOLEAN]
          /\ connTimer' \in [Mailboxes -> BOOLEAN]
        BY <1>1 DEF ConnectStep, Connect, ConnectTimeout, Opened, LocalClose, Tick, Pong, FallSilent, Accept, Close, mailbox
    <2>2. /\ mute' \subseteq Mailboxes /\ sockets' \subseteq Mailboxes
          /\ ssock' \in [Mailboxes -> {"none", "open", "terminated", "closed"}]
        BY <1>1 DEF ConnectStep, Connect, ConnectTimeout, Opened, LocalClose, Tick, Pong, FallSilent, Accept, acceptor
    <2>3. ping' \in [Mailboxes -> {"never", "sent", "answered"}] /\ age' \in [Mailboxes -> 0 .. 2]
        BY <1>1 DEF ConnectStep, Connect, ConnectTimeout, Opened, LocalClose, Tick, Pong, FallSilent, Accept, mailbox
    <2> QED BY <2>1, <2>2, <2>3, CallsKept DEF IInv, TypeOK
<1>3. PendingHasTimer' /\ AnswersOwnCall' /\ IdsInOrder' /\ ServicesOfCalls'
    BY CallsKept DEF IInv, PendingHasTimer, AnswersOwnCall, IdsInOrder, ServicesOfCalls
<1>4. AnswersTrue' /\ FramesNew'
    <2>1. AnswersTrue'
        BY CallsKept, AnswersKept DEF IInv
    <2>2. FramesNew'
        BY CallsKept, FramesKept DEF IInv
    <2> QED BY <2>1, <2>2
<1>5. ConnectedSocket' /\ ClosedLate'
    <2>1. CASE Connect(m) \/ ConnectTimeout(m) \/ Opened(m)
        BY <1>1, <2>1 DEF ConnectedSocket, ClosedLate, Connect, ConnectTimeout, Opened
    <2>2. CASE LocalClose(m) \/ Tick(m)
        BY <1>1, <2>2 DEF ConnectedSocket, ClosedLate, LocalClose, Tick, Close
    <2>3. CASE Pong(m) \/ FallSilent(m) \/ Accept(m)
        BY <1>1, <2>3 DEF ConnectedSocket, ClosedLate, Pong, FallSilent, Accept, mailbox
    <2> QED BY <2>1, <2>2, <2>3 DEF ConnectStep
<1>6. LostAreClosed'
    <2>1. \A n \in Mailboxes : sock[n] = "closed" => sock'[n] = "closed"
        BY <1>1 DEF ConnectedSocket, ConnectStep, Connect, ConnectTimeout, Opened, LocalClose, Tick, Pong, FallSilent, Accept, Close, mailbox
    <2> QED BY <2>1, CallsKept DEF IInv, LostAreClosed, Calls
<1> QED BY <1>2, <1>3, <1>4, <1>5, <1>6 DEF IInv

-----------------------------------------------------------------------------
(* Calls that are made, given up, or lost.                                 *)

LEMMA SocketClosedSound ==
    ASSUME IInv, NEW m \in Mailboxes, SocketClosed(m)
    PROVE  IInv'
<1>1. /\ sock' = [sock EXCEPT ![m] = "closed"] /\ connected' = [connected EXCEPT ![m] = FALSE]
      /\ closed' = [closed EXCEPT ![m] = TRUE] /\ toClient' = [toClient EXCEPT ![m] = <<>>]
      /\ result' = [c \in Calls |-> IF c \in requests \intersect Of(m) /\ result[c] = "pending"
                                    THEN "disconnected" ELSE result[c]]
      /\ connTimer' = connTimer /\ bufferMsg' = bufferMsg /\ buffered' = buffered /\ curId' = curId
      /\ requests' = requests /\ timers' = timers /\ answer' = answer /\ ping' = ping /\ age' = age
      /\ mute' = mute /\ ssock' = ssock /\ sockets' = sockets /\ msgQueues' = msgQueues
      /\ interval' = interval /\ stopped' = stopped /\ running' = running /\ ran' = ran
      /\ toServer' = toServer
    BY DEF SocketClosed, Close, acceptor
<1>2. /\ \A c \in Calls : result'[c] # "none" <=> result[c] # "none"
      /\ \A c \in Calls : result'[c] \in {"ok", "pending"} => result'[c] = result[c]
    BY <1>1
<1>3. TypeOK'
    <2>1. sock' \in [Mailboxes -> {"none", "connecting", "open", "closing", "closed"}]
          /\ connected' \in [Mailboxes -> BOOLEAN] /\ closed' \in [Mailboxes -> BOOLEAN]
        BY <1>1 DEF IInv, TypeOK
    <2>2. result' \in [Calls -> {"none", "pending", "ok", "error", "timeout", "disconnected"}]
        BY <1>1 DEF IInv, TypeOK
    <2>3. toClient' \in [Mailboxes -> Seq(Seq(Package))]
        BY <1>1 DEF IInv, TypeOK
    <2> QED BY <1>1, <2>1, <2>2, <2>3 DEF IInv, TypeOK
<1>4. PendingHasTimer' /\ AnswersOwnCall'
    BY <1>1, <1>2 DEF IInv, TypeOK, PendingHasTimer, AnswersOwnCall
<1>5. IdsInOrder'
    BY <1>1, <1>2 DEF IInv, IdsInOrder, Calls
<1>6. AnswersTrue'
    <2> SUFFICES ASSUME NEW n \in Mailboxes
        PROVE  /\ toClient'[n] \in Seq(Seq(TruePackages(n)'))
               /\ n \in DOMAIN msgQueues' => msgQueues'[n] \in Seq(TruePackages(n)')
        BY DEF AnswersTrue
    <2>1. TruePackages(n) \subseteq TruePackages(n)'
        BY <1>1, TruePackagesGrow
    <2>2. toClient'[n] \in Seq(Seq(TruePackages(n)))
        BY <1>1 DEF IInv, AnswersTrue, TypeOK
    <2> QED BY <1>1, <2>1, <2>2, SeqSeqMonotonic DEF IInv, AnswersTrue
<1>7. FramesNew'
    BY <1>1, <1>2, FramesKept DEF IInv
<1>8. ConnectedSocket' /\ ServicesOfCalls' /\ LostAreClosed' /\ ClosedLate'
    <2>1. ConnectedSocket' /\ ClosedLate'
        BY <1>1 DEF IInv, TypeOK, ConnectedSocket, ClosedLate
    <2>2. ServicesOfCalls'
        BY <1>1, <1>2 DEF IInv, TypeOK, ServicesOfCalls
    <2>3. LostAreClosed'
        BY <1>1 DEF IInv, TypeOK, LostAreClosed, Of, Calls
    <2> QED BY <2>1, <2>2, <2>3
<1> QED BY <1>3, <1>4, <1>5, <1>6, <1>7, <1>8 DEF IInv

LEMMA RequestTimeoutSound ==
    ASSUME IInv, NEW c \in Calls, RequestTimeout(c)
    PROVE  IInv'
<1>1. /\ timers' = timers \ {c} /\ requests' = requests \ {c}
      /\ result' = [result EXCEPT ![c] = IF @ = "pending" THEN "timeout" ELSE @]
      /\ sock' = sock /\ connected' = connected /\ closed' = closed
      /\ connTimer' = connTimer /\ bufferMsg' = bufferMsg /\ buffered' = buffered /\ curId' = curId
      /\ answer' = answer /\ ping' = ping /\ age' = age
      /\ mute' = mute /\ ssock' = ssock /\ sockets' = sockets /\ msgQueues' = msgQueues
      /\ interval' = interval /\ stopped' = stopped /\ running' = running /\ ran' = ran
      /\ toServer' = toServer /\ toClient' = toClient
    BY DEF RequestTimeout, acceptor
<1>2. result' \in [Calls -> {"none", "pending", "ok", "error", "timeout", "disconnected"}]
    BY <1>1 DEF IInv, TypeOK
<1>3. /\ \A d \in Calls : result'[d] # "none" <=> result[d] # "none"
      /\ \A d \in Calls : result'[d] \in {"ok", "pending", "disconnected"} => result'[d] = result[d]
      /\ \A d \in Calls \ {c} : result'[d] = result[d]
      /\ result'[c] # "pending"
    BY <1>1 DEF IInv, TypeOK
<1>4. TypeOK'
    BY <1>1, <1>2 DEF IInv, TypeOK
<1>5. PendingHasTimer' /\ AnswersOwnCall' /\ LostAreClosed'
    BY <1>1, <1>3 DEF IInv, TypeOK, PendingHasTimer, AnswersOwnCall, LostAreClosed
<1>6. IdsInOrder' /\ ServicesOfCalls'
    BY <1>1, <1>3 DEF IInv, TypeOK, IdsInOrder, ServicesOfCalls, Calls
<1>7. AnswersTrue' /\ FramesNew'
    BY <1>1, <1>3, AnswersKept, FramesKept DEF IInv
<1>8. ConnectedSocket' /\ ClosedLate'
    BY <1>1 DEF IInv, ConnectedSocket, ClosedLate
<1> QED BY <1>4, <1>5, <1>6, <1>7, <1>8 DEF IInv

-----------------------------------------------------------------------------
(* Calls that are made.                                                    *)

\* Ids do not run out: as many calls as a mailbox has made are counted.
LEMMA IdFree ==
    ASSUME TypeOK, IdsInOrder, NEW m \in Mailboxes,
           Cardinality({d \in Calls : result[d] # "none"}) < MaxCalls
    PROVE  curId[m] \in Ids
<1> DEFINE Made == {d \in Calls : result[d] # "none"}
           id == [k \in Ids |-> <<m, k>>]
<1> SUFFICES ASSUME curId[m] \notin Ids PROVE FALSE
    OBVIOUS
<1>1. curId[m] = MaxCalls
    BY DEF TypeOK, Ids
<1>2. IsFiniteSet(Made)
    <2>1. IsFiniteSet(Ids)
        BY FS_Interval DEF Ids
    <2>2. IsFiniteSet(Calls)
        BY <2>1, MailboxesAssumption, FS_Product DEF Calls
    <2> QED BY <2>2, FS_Subset
<1>3. id \in Injection(Ids, Made)
    <2>1. \A k \in Ids : <<m, k>> \in Made
        BY <1>1 DEF IdsInOrder, Calls, Ids
    <2> QED BY <2>1 DEF Injection, IsInjective
<1>4. Cardinality(Ids) <= Cardinality(Made)
    BY <1>2, <1>3, FS_Injection
<1>5. Cardinality(Ids) = MaxCalls
    BY FS_Interval DEF Ids
<1>6. Cardinality(Made) \in Nat
    BY <1>2, FS_CardinalityType
<1> QED BY <1>4, <1>5, <1>6

\* The frame of a call that is made is new, and so are those before it.
LEMMA FrameAppended ==
    ASSUME IInv, NEW m \in Mailboxes, NEW k \in Ids, k = curId[m],
           toServer' = [toServer EXCEPT ![m] = Append(@, <<k>>)],
           result' = [result EXCEPT ![<<m, k>>] = "pending"], ran' = ran
    PROVE  FramesNew'
<1> SUFFICES ASSUME NEW n \in Mailboxes, NEW i \in 1 .. Len(toServer[n])'
    PROVE  NewFrame(n, toServer[n], i)'
    BY DEF FramesNew
<1>1. <<m, k>> \in Calls /\ result[<<m, k>>] = "none" /\ <<m, k>> \notin ran
    BY DEF IInv, TypeOK, IdsInOrder, ServicesOfCalls, Calls
<1>2. /\ \A c \in Calls : result[c] # "none" => result'[c] # "none"
      /\ result'[<<m, k>>] = "pending"
    BY <1>1 DEF IInv, TypeOK
<1>3. toServer[m] \in Seq(Seq(Ids \union {None})) /\ toServer'[m] = Append(toServer[m], <<k>>)
    BY DEF IInv, TypeOK
<1>4. /\ Len(toServer'[m]) = Len(toServer[m]) + 1 /\ Len(toServer[m]) \in Nat
      /\ \A j \in 1 .. Len(toServer[m]) : toServer'[m][j] = toServer[m][j]
      /\ toServer'[m][Len(toServer[m]) + 1] = <<k>>
    BY <1>3
<1>5. \A j \in 1 .. Len(toServer[m]) : toServer[m][j] # <<k>>
    <2> SUFFICES ASSUME NEW j \in 1 .. Len(toServer[m]), toServer[m][j] = <<k>> PROVE FALSE
        OBVIOUS
    <2>1. NewFrame(m, toServer[m], j)
        BY DEF IInv, FramesNew
    <2>2. <<k>> \notin Seq({None})
        BY NoneAssumption
    <2>3. PICK d \in Ids : <<k>> = <<d>> /\ result[<<m, d>>] # "none"
        BY <2>1, <2>2 DEF NewFrame
    <2> QED BY <1>1, <2>3
<1>6. CASE n # m
    <2>1. toServer'[n] = toServer[n]
        BY <1>6 DEF IInv, TypeOK
    <2>2. NewFrame(n, toServer[n], i)
        BY <2>1 DEF IInv, FramesNew
    <2>3. \A j \in Ids : <<n, j>> \in Calls
        BY DEF Calls
    <2> QED BY <1>2, <2>1, <2>2, <2>3 DEF NewFrame
<1>7. CASE n = m /\ i = Len(toServer[m]) + 1
    <2>1. \A j \in 1 .. Len(toServer'[m]) : toServer'[m][j] = <<k>> => j = i
        BY <1>4, <1>5, <1>7
    <2>2. toServer'[m][i] = <<k>> /\ result'[<<m, k>>] # "none" /\ <<m, k>> \notin ran'
        BY <1>1, <1>2, <1>4, <1>7
    <2> QED BY <1>7, <2>1, <2>2, Zenon DEF NewFrame
<1>8. CASE n = m /\ i \in 1 .. Len(toServer[m])
    <2>1. NewFrame(m, toServer[m], i)
        BY <1>8 DEF IInv, FramesNew
    <2>2. CASE toServer[m][i] \in Seq({None})
        BY <1>4, <1>8, <2>2 DEF NewFrame
    <2>3. CASE toServer[m][i] \notin Seq({None})
        <3>1. PICK d \in Ids :
                  /\ toServer[m][i] = <<d>>
                  /\ result[<<m, d>>] # "none" /\ <<m, d>> \notin ran
                  /\ \A j \in 1 .. Len(toServer[m]) : toServer[m][j] = <<d>> => j = i
            BY <2>1, <2>3 DEF NewFrame
        <3>2. result'[<<m, d>>] # "none" /\ <<m, d>> \notin ran'
            BY <1>2, <3>1 DEF Calls
        <3>3. <<k>> # <<d>>
            BY <1>1, <3>1
        <3>4. \A j \in 1 .. Len(toServer'[m]) : toServer'[m][j] = <<d>> => j = i
            BY <1>4, <3>1, <3>3
        <3> QED BY <1>4, <1>8, <3>1, <3>2, <3>4 DEF NewFrame
    <2> QED BY <2>2, <2>3
<1> QED BY <1>4, <1>6, <1>7, <1>8

LEMMA SendSound ==
    ASSUME IInv, NEW m \in Mailboxes, Send(m)
    PROVE  IInv'
<1> DEFINE c == <<m, curId[m]>>
<1>1. /\ connected[m] /\ ~closed[m]
      /\ curId' = [curId EXCEPT ![m] = @ + 1]
      /\ requests' = requests \union {c} /\ timers' = timers \union {c}
      /\ result' = [result EXCEPT ![c] = "pending"]
      /\ \/ bufferMsg[m] /\ buffered' = [buffered EXCEPT ![m] = @ + 1] /\ toServer' = toServer
         \/ ~bufferMsg[m] /\ toServer' = [toServer EXCEPT ![m] = Append(@, <<curId[m]>>)] /\ buffered' = buffered
      /\ sock' = sock /\ connected' = connected /\ closed' = closed
      /\ connTimer' = connTimer /\ bufferMsg' = bufferMsg
      /\ answer' = answer /\ ping' = ping /\ age' = age
      /\ mute' = mute /\ ssock' = ssock /\ sockets' = sockets /\ msgQueues' = msgQueues
      /\ interval' = interval /\ stopped' = stopped /\ running' = running /\ ran' = ran
      /\ toClient' = toClient
    BY DEF Send, acceptor
<1>2. curId[m] \in Ids /\ c \in Calls
    <2>1. Cardinality({d \in Calls : result[d] # "none"}) < MaxCalls
        BY DEF Send
    <2> QED BY <2>1, IdFree DEF IInv, Calls
<1>3. result[c] = "none" /\ curId[m] \in Nat /\ curId[m] < MaxCalls
    BY <1>2 DEF IInv, IdsInOrder, Ids
<1>4. result' \in [Calls -> {"none", "pending", "ok", "error", "timeout", "disconnected"}]
    BY <1>1 DEF IInv, TypeOK
<1>5. /\ \A d \in Calls : result[d] # "none" => result'[d] # "none"
      /\ \A d \in Calls \ {c} : result'[d] = result[d]
      /\ result'[c] = "pending"
    BY <1>1, <1>2 DEF IInv, TypeOK
<1>6. TypeOK'
    <2>1. curId' \in [Mailboxes -> 0 .. MaxCalls]
        BY <1>1, <1>3 DEF IInv, TypeOK
    <2>2. buffered' \in [Mailboxes -> 0 .. MaxCalls]
        <3>1. buffered \in [Mailboxes -> 0 .. MaxCalls] /\ buffered[m] <= curId[m]
            BY DEF IInv, TypeOK, IdsInOrder
        <3> QED BY <1>1, <1>3, <3>1
    <2>3. toServer' \in [Mailboxes -> Seq(Seq(Ids \union {None}))]
        <3>1. toServer \in [Mailboxes -> Seq(Seq(Ids \union {None}))]
            BY DEF IInv, TypeOK
        <3>2. <<curId[m]>> \in Seq(Ids \union {None})
            BY <1>2
        <3>3. Append(toServer[m], <<curId[m]>>) \in Seq(Seq(Ids \union {None}))
            BY <3>1, <3>2, AppendProperties
        <3> QED BY <1>1, <3>1, <3>3
    <2> QED BY <1>1, <1>2, <1>4, <2>1, <2>2, <2>3 DEF IInv, TypeOK
<1>7. PendingHasTimer' /\ AnswersOwnCall' /\ LostAreClosed'
    <2>1. PendingHasTimer' /\ LostAreClosed'
        BY <1>1, <1>2, <1>5 DEF IInv, PendingHasTimer, LostAreClosed
    <2>2. AnswersOwnCall'
        BY <1>1, <1>5 DEF IInv, AnswersOwnCall
    <2> QED BY <2>1, <2>2
<1>8. IdsInOrder'
    <2> SUFFICES ASSUME NEW n \in Mailboxes
        PROVE  (\A k \in Ids : result'[<<n, k>>] # "none" <=> k < curId'[n]) /\ buffered'[n] <= curId'[n]
        BY DEF IdsInOrder
    <2>1. curId[n] \in 0 .. MaxCalls /\ buffered[n] \in 0 .. MaxCalls
        BY DEF IInv, TypeOK
    <2>2. \A k \in Ids : <<n, k>> \in Calls /\ k \in Nat
        BY DEF Calls, Ids
    <2>3. CASE n = m
        <3>1. curId'[n] = curId[n] + 1 /\ buffered'[n] \in {buffered[n], buffered[n] + 1}
            BY <1>1, <2>3 DEF IInv, TypeOK
        <3> QED BY <1>5, <2>1, <2>2, <2>3, <3>1 DEF IInv, IdsInOrder
    <2>4. CASE n # m
        <3>1. curId'[n] = curId[n] /\ buffered'[n] = buffered[n]
            BY <1>1, <2>4 DEF IInv, TypeOK
        <3> QED BY <1>5, <2>1, <2>2, <2>4, <3>1 DEF IInv, IdsInOrder
    <2> QED BY <2>3, <2>4
<1>9. AnswersTrue' /\ ServicesOfCalls'
    BY <1>1, <1>5, AnswersKept DEF IInv, TypeOK, ServicesOfCalls
<1>10. FramesNew'
    <2>1. CASE bufferMsg[m]
        BY <1>1, <1>5, <2>1, FramesKept DEF IInv
    <2>2. CASE ~bufferMsg[m]
        BY <1>1, <1>2, <2>2, FrameAppended
    <2> QED BY <2>1, <2>2
<1>11. ConnectedSocket' /\ ClosedLate'
    BY <1>1 DEF IInv, ConnectedSocket, ClosedLate
<1> QED BY <1>6, <1>7, <1>8, <1>9, <1>10, <1>11 DEF IInv

LEMMA FlushSound ==
    ASSUME IInv, NEW m \in Mailboxes, Flush(m)
    PROVE  IInv'
<1> DEFINE frame == [k \in 1 .. buffered[m] |-> None]
<1>1. /\ toServer' = [toServer EXCEPT ![m] = Append(@, frame)]
      /\ buffered' = [buffered EXCEPT ![m] = 0]
      /\ sock' = sock /\ connected' = connected /\ closed' = closed
      /\ connTimer' = connTimer /\ bufferMsg' = bufferMsg /\ curId' = curId
      /\ requests' = requests /\ timers' = timers /\ result' = result
      /\ answer' = answer /\ ping' = ping /\ age' = age
      /\ mute' = mute /\ ssock' = ssock /\ sockets' = sockets /\ msgQueues' = msgQueues
      /\ interval' = interval /\ stopped' = stopped /\ running' = running /\ ran' = ran
      /\ toClient' = toClient
    BY DEF Flush, acceptor
<1>2. buffered[m] \in Nat
    BY DEF IInv, TypeOK
<1>3. frame \in Seq({None})
    BY <1>2, IsASeq
<1>4. frame \in Seq(Ids \union {None})
    BY <1>3, SeqMonotonic
<1>5. toServer[m] \in Seq(Seq(Ids \union {None})) /\ toServer'[m] = Append(toServer[m], frame)
    BY <1>1 DEF IInv, TypeOK
<1>6. /\ Len(toServer'[m]) = Len(toServer[m]) + 1 /\ Len(toServer[m]) \in Nat
      /\ \A j \in 1 .. Len(toServer[m]) : toServer'[m][j] = toServer[m][j]
      /\ toServer'[m][Len(toServer[m]) + 1] = frame
      /\ toServer'[m] \in Seq(Seq(Ids \union {None}))
    BY <1>4, <1>5, AppendProperties
<1>7. TypeOK'
    <2>1. toServer' \in [Mailboxes -> Seq(Seq(Ids \union {None}))]
        BY <1>1, <1>5, <1>6 DEF IInv, TypeOK
    <2>2. buffered' \in [Mailboxes -> 0 .. MaxCalls]
        BY <1>1 DEF IInv, TypeOK
    <2> QED BY <1>1, <2>1, <2>2 DEF IInv, TypeOK
<1>8. PendingHasTimer' /\ AnswersOwnCall' /\ ServicesOfCalls' /\ LostAreClosed'
    BY <1>1 DEF IInv, PendingHasTimer, AnswersOwnCall, ServicesOfCalls, LostAreClosed
<1>9. IdsInOrder'
    BY <1>1 DEF IInv, TypeOK, IdsInOrder
<1>10. AnswersTrue' /\ ConnectedSocket' /\ ClosedLate'
    BY <1>1, AnswersKept DEF IInv, ConnectedSocket, ClosedLate
<1>11. FramesNew'
    <2> SUFFICES ASSUME NEW n \in Mailboxes, NEW i \in 1 .. Len(toServer[n])'
        PROVE  NewFrame(n, toServer[n], i)'
        BY DEF FramesNew
    <2>1. CASE n # m
        <3>1. toServer'[n] = toServer[n]
            BY <1>1, <2>1 DEF IInv, TypeOK
        <3>2. NewFrame(n, toServer[n], i)
            BY <3>1 DEF IInv, FramesNew
        <3> QED BY <1>1, <3>1, <3>2 DEF NewFrame
    <2>2. CASE n = m /\ i = Len(toServer[m]) + 1
        BY <1>3, <1>6, <2>2 DEF NewFrame
    <2>3. CASE n = m /\ i \in 1 .. Len(toServer[m])
        <3>1. NewFrame(m, toServer[m], i)
            BY <2>3 DEF IInv, FramesNew
        <3>2. CASE toServer[m][i] \in Seq({None})
            BY <1>6, <2>3, <3>2 DEF NewFrame
        <3>3. CASE toServer[m][i] \notin Seq({None})
            <4>1. PICK d \in Ids :
                      /\ toServer[m][i] = <<d>>
                      /\ result[<<m, d>>] # "none" /\ <<m, d>> \notin ran
                      /\ \A j \in 1 .. Len(toServer[m]) : toServer[m][j] = <<d>> => j = i
                BY <3>1, <3>3 DEF NewFrame
            <4>2. \A j \in 1 .. Len(toServer'[m]) : toServer'[m][j] = <<d>> => j = i
                <5>1. frame # <<d>>
                    BY <1>3, <3>3, <4>1
                <5>2. \A j \in 1 .. Len(toServer'[m]) : j \in 1 .. Len(toServer[m]) \/ j = Len(toServer[m]) + 1
                    BY <1>6
                <5> HIDE DEF frame
                <5> QED BY <1>6, <4>1, <5>1, <5>2
            <4> QED BY <1>1, <1>6, <2>3, <4>1, <4>2 DEF NewFrame
        <3> QED BY <3>2, <3>3
    <2> QED BY <1>6, <2>1, <2>2, <2>3
<1> QED BY <1>7, <1>8, <1>9, <1>10, <1>11 DEF IInv

-----------------------------------------------------------------------------
(* Answers that arrive.                                                    *)

\* The packages of a frame are true, and the calls it settles are in the table.
\* A frame settles calls that are in the table, each with a value only if its
\* own service gave it.
LEMMA ReceiveSettles ==
    ASSUME IInv, NEW m \in Mailboxes, Receive(m)
    PROVE  \E calls \in SUBSET requests :
              /\ timers' = timers \ calls /\ requests' = requests \ calls
              /\ result' = [c \in Calls |-> result'[c]] /\ answer' = [c \in Calls |-> answer'[c]]
              /\ \A c \in calls : /\ c[1] = m
                                  /\ result'[c] \in {"ok", "error"}
                                  /\ answer'[c] \in Calls \union {None}
                                  /\ result'[c] = "ok" => answer'[c] = c /\ c \in ran
              /\ \A c \in Calls \ calls : result'[c] = result[c] /\ answer'[c] = answer[c]
<1> DEFINE frame == Head(toClient[m])
           found == {k \in DOMAIN frame : frame[k].id # None /\ <<m, frame[k].id>> \in requests}
           For(c) == CHOOSE k \in found : frame[k].id = c[2]
           calls == {<<m, frame[k].id>> : k \in found}
<1>1. /\ toClient[m] # <<>>
      /\ timers' = timers \ calls /\ requests' = requests \ calls
      /\ result' = [c \in Calls |-> IF c \in calls
                                    THEN (IF frame[For(c)].kind = "ok" THEN "ok" ELSE "error") ELSE result[c]]
      /\ answer' = [c \in Calls |-> IF c \in calls THEN frame[For(c)].of ELSE answer[c]]
    BY DEF Receive
<1>2. frame \in Seq(TruePackages(m))
    <2>1. toClient[m] \in Seq(Seq(TruePackages(m)))
        BY DEF IInv, AnswersTrue
    <2> QED BY <1>1, <2>1, HeadTailProperties
<1>3. \A k \in DOMAIN frame : frame[k] \in TruePackages(m)
    BY <1>2, ElementOfSeq, LenProperties
<1>4. \A c \in calls : c \in requests
    <2> SUFFICES ASSUME NEW k \in found PROVE <<m, frame[k].id>> \in requests
        OBVIOUS
    <2> QED OBVIOUS
<1>5. \A c \in calls : For(c) \in found /\ frame[For(c)].id = c[2] /\ c = <<m, frame[For(c)].id>>
    <2> SUFFICES ASSUME NEW c \in calls
        PROVE  For(c) \in found /\ frame[For(c)].id = c[2] /\ c = <<m, frame[For(c)].id>>
        OBVIOUS
    <2>1. PICK k \in found : c = <<m, frame[k].id>>
        OBVIOUS
    <2>2. frame[k].id = c[2]
        BY <2>1
    <2>3. For(c) \in found /\ frame[For(c)].id = c[2]
        BY <2>2
    <2> QED BY <2>1, <2>3
<1>6. \A c \in calls : frame[For(c)] \in TruePackages(m)
    BY <1>3, <1>5
<1>7. \A c \in calls : /\ c \in Calls /\ c \in requests
                       /\ result'[c] \in {"ok", "error"}
                       /\ answer'[c] \in Calls \union {None}
                       /\ result'[c] = "ok" => answer'[c] = c /\ c \in ran
    <2> SUFFICES ASSUME NEW c \in calls
        PROVE  /\ c \in Calls /\ c \in requests
               /\ result'[c] \in {"ok", "error"}
               /\ answer'[c] \in Calls \union {None}
               /\ result'[c] = "ok" => answer'[c] = c /\ c \in ran
        OBVIOUS
    <2>1. c \in requests /\ c \in Calls
        BY <1>4 DEF IInv, TypeOK
    <2>2. /\ result'[c] = IF frame[For(c)].kind = "ok" THEN "ok" ELSE "error"
          /\ answer'[c] = frame[For(c)].of
        BY <1>1, <2>1
    <2>3. /\ frame[For(c)].of \in Calls \union {None}
          /\ frame[For(c)].kind = "ok" => frame[For(c)].of = <<m, frame[For(c)].id>> /\ frame[For(c)].of \in ran
        BY <1>6 DEF TruePackages, Package
    <2> QED BY <1>5, <2>1, <2>2, <2>3
<1>8. \A c \in Calls \ calls : result'[c] = result[c] /\ answer'[c] = answer[c]
    BY <1>1
<1> HIDE DEF frame, found, For, calls
<1>9. \A c \in calls : c[1] = m
    BY <1>5
<1>10. calls \in SUBSET requests
    BY <1>7
<1>11. result' = [c \in Calls |-> result'[c]] /\ answer' = [c \in Calls |-> answer'[c]]
    BY <1>1
<1> QED BY <1>1, <1>7, <1>8, <1>9, <1>10, <1>11

LEMMA ReceiveSound ==
    ASSUME IInv, NEW m \in Mailboxes, Receive(m)
    PROVE  IInv'
<1>1. /\ sock[m] \in {"open", "closing"} /\ toClient[m] # <<>>
      /\ toClient' = [toClient EXCEPT ![m] = Tail(@)]
      /\ \/ Close(m, "closing")
         \/ UNCHANGED <<sock, connected, closed>>
      /\ connTimer' = connTimer /\ bufferMsg' = bufferMsg /\ buffered' = buffered /\ curId' = curId
      /\ ping' = ping /\ age' = age
      /\ mute' = mute /\ ssock' = ssock /\ sockets' = sockets /\ msgQueues' = msgQueues
      /\ interval' = interval /\ stopped' = stopped /\ running' = running /\ ran' = ran
      /\ toServer' = toServer
    BY DEF Receive, acceptor
<1>2. Tail(toClient[m]) \in Seq(Seq(TruePackages(m)))
    <2>1. toClient[m] \in Seq(Seq(TruePackages(m)))
        BY DEF IInv, AnswersTrue
    <2> QED BY <1>1, <2>1, HeadTailProperties
<1>3. PICK calls \in SUBSET requests :
              /\ timers' = timers \ calls /\ requests' = requests \ calls
              /\ result' = [c \in Calls |-> result'[c]] /\ answer' = [c \in Calls |-> answer'[c]]
              /\ \A c \in calls : /\ c[1] = m
                                  /\ result'[c] \in {"ok", "error"}
                                  /\ answer'[c] \in Calls \union {None}
                                  /\ result'[c] = "ok" => answer'[c] = c /\ c \in ran
              /\ \A c \in Calls \ calls : result'[c] = result[c] /\ answer'[c] = answer[c]
    BY ReceiveSettles
<1>4. timers' = timers \ calls /\ requests' = requests \ calls
    BY <1>3
<1>5. \A c \in requests : c \in Calls
    BY DEF IInv, TypeOK
<1>7. \A c \in calls : /\ c \in Calls /\ c \in requests
                       /\ result'[c] \in {"ok", "error"}
                       /\ answer'[c] \in Calls \union {None}
                       /\ result'[c] = "ok" => answer'[c] = c /\ c \in ran
    BY <1>3, <1>5
<1>8. \A c \in Calls \ calls : result'[c] = result[c] /\ answer'[c] = answer[c]
    BY <1>3
<1>9. TypeOK'
    <2>1. /\ sock' \in [Mailboxes -> {"none", "connecting", "open", "closing", "closed"}]
          /\ connected' \in [Mailboxes -> BOOLEAN] /\ closed' \in [Mailboxes -> BOOLEAN]
        BY <1>1 DEF IInv, TypeOK, Close
    <2>2. result' \in [Calls -> {"none", "pending", "ok", "error", "timeout", "disconnected"}]
        <3>1. \A c \in Calls : result'[c] \in {"none", "pending", "ok", "error", "timeout", "disconnected"}
            BY <1>7, <1>8 DEF IInv, TypeOK
        <3> QED BY <1>3, <3>1
    <2>3. answer' \in [Calls -> Calls \union {None}]
        <3>1. \A c \in Calls : answer'[c] \in Calls \union {None}
            BY <1>7, <1>8 DEF IInv, TypeOK
        <3> QED BY <1>3, <3>1
    <2>4. toClient' \in [Mailboxes -> Seq(Seq(Package))]
        <3>1. toClient \in [Mailboxes -> Seq(Seq(Package))]
            BY DEF IInv, TypeOK
        <3>2. Tail(toClient[m]) \in Seq(Seq(Package))
            BY <1>1, <3>1, HeadTailProperties
        <3> QED BY <1>1, <3>1, <3>2
    <2> QED BY <1>1, <1>4, <2>1, <2>2, <2>3, <2>4 DEF IInv, TypeOK
<1>10. PendingHasTimer' /\ AnswersOwnCall' /\ LostAreClosed'
    <2>1. PendingHasTimer'
        BY <1>4, <1>7, <1>8 DEF IInv, TypeOK, PendingHasTimer
    <2>2. AnswersOwnCall'
        BY <1>1, <1>7, <1>8 DEF IInv, AnswersOwnCall
    <2>3. \A n \in Mailboxes : sock[n] = "closed" => sock'[n] = "closed"
        BY <1>1 DEF IInv, TypeOK, Close
    <2>4. LostAreClosed'
        BY <1>7, <1>8, <2>3 DEF IInv, LostAreClosed, Calls
    <2> QED BY <2>1, <2>2, <2>4
<1>11. \A c \in Calls : result'[c] # "none" <=> result[c] # "none"
    BY <1>7, <1>8 DEF IInv, PendingHasTimer
<1>12. IdsInOrder' /\ ServicesOfCalls'
    BY <1>1, <1>11 DEF IInv, TypeOK, IdsInOrder, ServicesOfCalls, Calls
<1>13. FramesNew'
    BY <1>1, <1>11, FramesKept DEF IInv
<1>14. AnswersTrue'
    <2> SUFFICES ASSUME NEW n \in Mailboxes
        PROVE  /\ toClient'[n] \in Seq(Seq(TruePackages(n)'))
               /\ n \in DOMAIN msgQueues' => msgQueues'[n] \in Seq(TruePackages(n)')
        BY DEF AnswersTrue
    <2>1. TruePackages(n) \subseteq TruePackages(n)'
        BY <1>1, TruePackagesGrow
    <2>2. toClient'[n] \in Seq(Seq(TruePackages(n)))
        BY <1>1, <1>2 DEF IInv, AnswersTrue, TypeOK
    <2> QED BY <1>1, <2>1, <2>2, SeqSeqMonotonic DEF IInv, AnswersTrue
<1>15. ConnectedSocket' /\ ClosedLate'
    <2>1. /\ sock \in [Mailboxes -> {"none", "connecting", "open", "closing", "closed"}]
          /\ connected \in [Mailboxes -> BOOLEAN] /\ closed \in [Mailboxes -> BOOLEAN]
          /\ ConnectedSocket /\ ClosedLate
        BY DEF IInv, TypeOK
    <2> QED BY <1>1, <2>1 DEF ConnectedSocket, ClosedLate, Close
<1> QED BY <1>9, <1>10, <1>12, <1>13, <1>14, <1>15 DEF IInv

-----------------------------------------------------------------------------
(* The acceptor.                                                           *)

\* What processMsg() does at its end with packages that are true.
LEMMA RespondSound ==
    ASSUME IInv, NEW m \in Mailboxes, NEW pkgs \in Seq(Package),
           Respond(m, pkgs), ran \subseteq ran',
           pkgs \in Seq(TruePackages(m)')
    PROVE  /\ AnswersTrue'
           /\ toClient' \in [Mailboxes -> Seq(Seq(Package))]
           /\ DOMAIN msgQueues' \subseteq Mailboxes
           /\ \A n \in DOMAIN msgQueues' : msgQueues'[n] \in Seq(Package)
<1> DEFINE frames == [k \in DOMAIN pkgs |-> <<pkgs[k]>>]
<1>1. /\ toClient \in [Mailboxes -> Seq(Seq(Package))]
      /\ DOMAIN msgQueues \subseteq Mailboxes
      /\ \A n \in DOMAIN msgQueues : msgQueues[n] \in Seq(Package)
    BY DEF IInv, TypeOK
<1>2. \A n \in Mailboxes :
          /\ toClient[n] \in Seq(Seq(TruePackages(n)'))
          /\ n \in DOMAIN msgQueues => msgQueues[n] \in Seq(TruePackages(n)')
    <2> SUFFICES ASSUME NEW n \in Mailboxes
        PROVE  /\ toClient[n] \in Seq(Seq(TruePackages(n)'))
               /\ n \in DOMAIN msgQueues => msgQueues[n] \in Seq(TruePackages(n)')
        OBVIOUS
    <2>1. TruePackages(n) \subseteq TruePackages(n)'
        BY TruePackagesGrow
    <2> QED BY <2>1, SeqSeqMonotonic DEF IInv, AnswersTrue
<1>3. CASE /\ msgQueues' = [n \in DOMAIN msgQueues \union {m} |-> IF n = m THEN QueueOf(m) \o pkgs ELSE msgQueues[n]]
           /\ toClient' = toClient
    <2>1. QueueOf(m) \o pkgs \in Seq(Package) /\ QueueOf(m) \o pkgs \in Seq(TruePackages(m)')
        BY <1>1, <1>2, EmptySeq, ConcatProperties DEF QueueOf
    <2>2. DOMAIN msgQueues' = DOMAIN msgQueues \union {m}
        BY <1>3
    <2>3. \A n \in DOMAIN msgQueues' : msgQueues'[n] = IF n = m THEN QueueOf(m) \o pkgs ELSE msgQueues[n]
        BY <1>3
    <2> QED BY <1>1, <1>2, <1>3, <2>1, <2>2, <2>3 DEF AnswersTrue
<1>4. CASE toClient' = Delivered(m, frames) /\ msgQueues' = msgQueues
    <2>1. frames \in Seq(Seq(Package)) /\ frames \in Seq(Seq(TruePackages(m)'))
        <3>1. DOMAIN pkgs = 1 .. Len(pkgs) /\ Len(pkgs) \in Nat
            BY LenProperties
        <3>2. \A k \in 1 .. Len(pkgs) : <<pkgs[k]>> \in Seq(Package) /\ <<pkgs[k]>> \in Seq(TruePackages(m)')
            BY ElementOfSeq
        <3> QED BY <3>1, <3>2, IsASeq
    <2> HIDE DEF frames
    <2>2. toClient[m] \o frames \in Seq(Seq(Package)) /\ toClient[m] \o frames \in Seq(Seq(TruePackages(m)'))
        BY <1>1, <1>2, <2>1, ConcatProperties
    <2>3. toClient' = toClient \/ toClient' = [toClient EXCEPT ![m] = @ \o frames]
        BY <1>4 DEF Delivered
    <2> QED BY <1>1, <1>2, <1>4, <2>2, <2>3 DEF AnswersTrue
<1> QED BY <1>3, <1>4 DEF Respond

\* What a step of the acceptor leaves alone in the mailboxes.
LEMMA MailboxKept ==
    ASSUME IInv, UNCHANGED mailbox
    PROVE  /\ PendingHasTimer' /\ IdsInOrder' /\ LostAreClosed' /\ ConnectedSocket' /\ ClosedLate'
           /\ sock' = sock /\ connected' = connected /\ closed' = closed /\ connTimer' = connTimer
           /\ bufferMsg' = bufferMsg /\ buffered' = buffered /\ curId' = curId
           /\ requests' = requests /\ timers' = timers /\ result' = result /\ answer' = answer
           /\ ping' = ping /\ age' = age
<1>1. /\ sock' = sock /\ connected' = connected /\ closed' = closed /\ connTimer' = connTimer
      /\ bufferMsg' = bufferMsg /\ buffered' = buffered /\ curId' = curId
      /\ requests' = requests /\ timers' = timers /\ result' = result /\ answer' = answer
      /\ ping' = ping /\ age' = age
    BY DEF mailbox
<1> QED BY <1>1 DEF IInv, PendingHasTimer, IdsInOrder, LostAreClosed, ConnectedSocket, ClosedLate

LEMMA ServiceDoneSound ==
    ASSUME IInv, NEW c \in Calls, ServiceDone(c)
    PROVE  IInv'
<1>1. /\ c \in running /\ running' = running \ {c} /\ UNCHANGED mailbox
      /\ mute' = mute /\ ssock' = ssock /\ sockets' = sockets
      /\ interval' = interval /\ stopped' = stopped /\ ran' = ran /\ toServer' = toServer
    BY DEF ServiceDone
<1>2. PICK kind \in {"ok", "error", "closed"} : Respond(c[1], <<[id |-> c[2], of |-> c, kind |-> kind]>>)
    BY DEF ServiceDone
<1> DEFINE pkg == [id |-> c[2], of |-> c, kind |-> kind]
<1>3. c[1] \in Mailboxes /\ c[2] \in Ids /\ c = <<c[1], c[2]>> /\ c \in ran
    BY <1>1 DEF IInv, ServicesOfCalls, Calls
<1>4. pkg \in Package /\ pkg \in TruePackages(c[1])'
    BY <1>1, <1>3 DEF Package, TruePackages
<1> HIDE DEF pkg
<1>5. <<pkg>> \in Seq(Package) /\ <<pkg>> \in Seq(TruePackages(c[1])')
    BY <1>4
<1>6. Respond(c[1], <<pkg>>)
    BY <1>2 DEF pkg
<1>7. /\ AnswersTrue'
      /\ toClient' \in [Mailboxes -> Seq(Seq(Package))]
      /\ DOMAIN msgQueues' \subseteq Mailboxes
      /\ \A n \in DOMAIN msgQueues' : msgQueues'[n] \in Seq(Package)
    BY <1>1, <1>3, <1>5, <1>6, RespondSound
<1>8. TypeOK'
    BY <1>1, <1>7, MailboxKept DEF IInv, TypeOK
<1>9. AnswersOwnCall' /\ ServicesOfCalls'
    BY <1>1, MailboxKept DEF IInv, AnswersOwnCall, ServicesOfCalls
<1>10. FramesNew'
    BY <1>1, MailboxKept, FramesKept DEF IInv
<1> QED BY <1>1, <1>7, <1>8, <1>9, <1>10, MailboxKept DEF IInv

\* A frame starts the service of the call it carries, which was made and has
\* not been served, or none.
LEMMA ServeStarts ==
    ASSUME IInv, NEW m \in Mailboxes, Serve(m)
    PROVE  \/ ran' = ran /\ running' = running
           \/ \E k \in Ids :
                 /\ toServer[m][1] = <<k>> /\ result[<<m, k>>] # "none" /\ <<m, k>> \notin ran
                 /\ ran' = ran \union {<<m, k>>} /\ running' = running \union {<<m, k>>}
<1> DEFINE frame == Head(toServer[m])
           Fails(k) == stopped \/ frame[k] = None
           started == {<<m, frame[k]>> : k \in {j \in DOMAIN frame : ~Fails(j)}}
<1>1. running' = running \union started /\ ran' = ran \union started /\ toServer[m] # <<>>
    BY DEF Serve
<1>2. toServer[m] \in Seq(Seq(Ids \union {None}))
    BY DEF IInv, TypeOK
<1>3. frame = toServer[m][1] /\ 1 \in 1 .. Len(toServer[m])
    BY <1>1, <1>2
<1>4. NewFrame(m, toServer[m], 1)
    BY <1>3 DEF IInv, FramesNew
<1>5. CASE frame \in Seq({None})
    <2>1. \A k \in DOMAIN frame : frame[k] = None
        BY <1>5, LenProperties, ElementOfSeq
    <2>2. started = {}
        BY <2>1
    <2> HIDE DEF started
    <2> QED BY <1>1, <2>2
<1>6. CASE frame \notin Seq({None})
    <2>1. PICK k \in Ids : frame = <<k>> /\ result[<<m, k>>] # "none" /\ <<m, k>> \notin ran
        BY <1>3, <1>4, <1>6 DEF NewFrame
    <2>2. started = {} \/ started = {<<m, k>>}
        <3>1. DOMAIN frame = {1} /\ frame[1] = k
            BY <2>1
        <3> QED BY <3>1
    <2> HIDE DEF started
    <2> QED BY <1>1, <1>3, <2>1, <2>2
<1> QED BY <1>5, <1>6

\* Serving the first frame leaves the others new: its call is in none of them.
LEMMA FramesServed ==
    ASSUME IInv, NEW m \in Mailboxes, Serve(m)
    PROVE  FramesNew'
<1> SUFFICES ASSUME NEW n \in Mailboxes, NEW i \in 1 .. Len(toServer[n])'
    PROVE  NewFrame(n, toServer[n], i)'
    BY DEF FramesNew
<1>1. /\ toServer' = [toServer EXCEPT ![m] = Tail(@)] /\ toServer[m] # <<>>
      /\ result' = result
    BY DEF Serve, mailbox
<1>2. \A k \in Ids : <<n, k>> \in ran' => <<n, k>> \in ran \/ (n = m /\ toServer[m][1] = <<k>>)
    <2>1. CASE ran' = ran
        BY <2>1
    <2>2. CASE ran' # ran
        <3>1. PICK d \in Ids : toServer[m][1] = <<d>> /\ ran' = ran \union {<<m, d>>}
            BY <2>2, ServeStarts
        <3> QED BY <3>1
    <2> QED BY <2>1, <2>2
<1>3. toServer[n] \in Seq(Seq(Ids \union {None})) /\ toServer[m] \in Seq(Seq(Ids \union {None}))
    BY DEF IInv, TypeOK
<1>4. CASE n # m
    <2>1. toServer'[n] = toServer[n]
        BY <1>1, <1>4 DEF IInv, TypeOK
    <2>2. NewFrame(n, toServer[n], i)
        BY <2>1 DEF IInv, FramesNew
    <2> QED BY <1>1, <1>2, <1>4, <2>1, <2>2 DEF NewFrame
<1>5. CASE n = m
    <2>1. toServer'[m] = Tail(toServer[m])
        BY <1>1 DEF IInv, TypeOK
    <2>2. /\ Len(toServer'[m]) = Len(toServer[m]) - 1 /\ Len(toServer[m]) \in Nat
          /\ \A j \in 1 .. Len(toServer'[m]) : toServer'[m][j] = toServer[m][j + 1]
        <3>1. Len(toServer[m]) \in Nat
            BY <1>3
        <3>2. /\ Len(Tail(toServer[m])) = Len(toServer[m]) - 1
              /\ \A j \in 1 .. Len(Tail(toServer[m])) : Tail(toServer[m])[j] = toServer[m][j + 1]
            BY <1>1, <1>3, HeadTailProperties, Zenon
        <3> QED BY <2>1, <3>1, <3>2
    <2>3. i + 1 \in 1 .. Len(toServer[m]) /\ i \in Nat /\ i > 0
        BY <1>5, <2>2
    <2>4. NewFrame(m, toServer[m], i + 1)
        BY <2>3 DEF IInv, FramesNew
    <2>5. toServer'[m][i] = toServer[m][i + 1]
        BY <1>5, <2>2
    <2>6. CASE toServer[m][i + 1] \in Seq({None})
        BY <1>5, <2>5, <2>6 DEF NewFrame
    <2>7. CASE toServer[m][i + 1] \notin Seq({None})
        <3>1. PICK d \in Ids :
                  /\ toServer[m][i + 1] = <<d>>
                  /\ result[<<m, d>>] # "none" /\ <<m, d>> \notin ran
                  /\ \A j \in 1 .. Len(toServer[m]) : toServer[m][j] = <<d>> => j = i + 1
            BY <2>4, <2>7 DEF NewFrame
        <3>2. toServer[m][1] # <<d>>
            BY <2>3, <3>1
        <3>3. <<m, d>> \notin ran'
            BY <1>2, <1>5, <3>1, <3>2
        <3>4. \A j \in 1 .. Len(toServer'[m]) : toServer'[m][j] = <<d>> => j = i
            <4> SUFFICES ASSUME NEW j \in 1 .. Len(toServer'[m]), toServer'[m][j] = <<d>>
                PROVE  j = i
                OBVIOUS
            <4>1. j + 1 \in 1 .. Len(toServer[m]) /\ toServer[m][j + 1] = <<d>>
                BY <2>2
            <4>2. j + 1 = i + 1
                BY <3>1, <4>1
            <4> QED BY <2>3, <4>2
        <3>5. toServer'[m][i] = <<d>> /\ result'[<<m, d>>] # "none"
            BY <1>1, <2>5, <3>1
        <3> QED BY <1>5, <3>3, <3>4, <3>5, Zenon DEF NewFrame
    <2> QED BY <2>6, <2>7
<1> QED BY <1>4, <1>5

LEMMA ServeSound ==
    ASSUME IInv, NEW m \in Mailboxes, Serve(m)
    PROVE  IInv'
<1> DEFINE frame == Head(toServer[m])
           failure == [k \in DOMAIN frame |-> [id |-> frame[k], of |-> None,
                                               kind |-> IF stopped /\ frame[k] # None THEN "closed" ELSE "error"]]
<1>1. /\ toServer[m] # <<>> /\ toServer' = [toServer EXCEPT ![m] = Tail(@)] /\ UNCHANGED mailbox
      /\ Respond(m, failure) \/ Respond(m, <<>>)
      /\ mute' = mute /\ ssock' = ssock /\ sockets' = sockets
      /\ interval' = interval /\ stopped' = stopped
    BY DEF Serve
<1>2. frame \in Seq(Ids \union {None}) /\ Tail(toServer[m]) \in Seq(Seq(Ids \union {None}))
    <2>1. toServer[m] \in Seq(Seq(Ids \union {None}))
        BY DEF IInv, TypeOK
    <2> QED BY <1>1, <2>1, HeadTailProperties
<1>3. failure \in Seq(Package) /\ failure \in Seq(TruePackages(m)')
    <2>1. DOMAIN frame = 1 .. Len(frame) /\ Len(frame) \in Nat
        BY <1>2, LenProperties
    <2>2. \A k \in 1 .. Len(frame) : frame[k] \in Ids \union {None}
        BY <1>2, ElementOfSeq
    <2> HIDE DEF frame
    <2>3. \A k \in 1 .. Len(frame) :
              LET pkg == [id |-> frame[k], of |-> None, kind |-> IF stopped /\ frame[k] # None THEN "closed" ELSE "error"]
              IN  pkg \in Package /\ pkg \in TruePackages(m)'
        BY <2>2 DEF Package, TruePackages
    <2> QED BY <2>1, <2>3, IsASeq
<1>4. <<>> \in Seq(Package) /\ <<>> \in Seq(TruePackages(m)')
    BY EmptySeq
<1> HIDE DEF frame, failure
<1>5. /\ running' \subseteq ran' /\ ran \subseteq ran' /\ ran' \subseteq Calls /\ running' \subseteq Calls
      /\ \A c \in ran' : result[c] # "none"
    <2>1. running \subseteq ran /\ ran \subseteq Calls /\ \A c \in ran : result[c] # "none"
        BY DEF IInv, TypeOK, ServicesOfCalls
    <2>2. CASE ran' = ran /\ running' = running
        BY <2>1, <2>2
    <2>3. CASE ~(ran' = ran /\ running' = running)
        <3>1. PICK k \in Ids :
                  /\ result[<<m, k>>] # "none"
                  /\ ran' = ran \union {<<m, k>>} /\ running' = running \union {<<m, k>>}
            BY <2>3, ServeStarts
        <3> QED BY <2>1, <3>1 DEF Calls
    <2> QED BY <2>2, <2>3
<1>6. /\ AnswersTrue'
      /\ toClient' \in [Mailboxes -> Seq(Seq(Package))]
      /\ DOMAIN msgQueues' \subseteq Mailboxes
      /\ \A n \in DOMAIN msgQueues' : msgQueues'[n] \in Seq(Package)
    BY <1>1, <1>3, <1>4, <1>5, RespondSound
<1>7. toServer' \in [Mailboxes -> Seq(Seq(Ids \union {None}))]
    BY <1>1, <1>2 DEF IInv, TypeOK
<1>8. TypeOK'
    BY <1>1, <1>5, <1>6, <1>7, MailboxKept DEF IInv, TypeOK
<1>9. AnswersOwnCall' /\ ServicesOfCalls'
    BY <1>1, <1>5, MailboxKept DEF IInv, AnswersOwnCall, ServicesOfCalls
<1> QED BY <1>1, <1>6, <1>8, <1>9, FramesServed, MailboxKept DEF IInv

LEMMA FlushQueuesSound ==
    ASSUME IInv, FlushQueues
    PROVE  IInv'
<1> DEFINE live == DOMAIN msgQueues \intersect sockets
           full == {m \in live : msgQueues[m] # <<>> /\ ssock[m] = "open"}
<1>1. /\ msgQueues' = [m \in live |-> <<>>]
      /\ toClient' = [m \in Mailboxes |-> IF m \in full THEN Append(toClient[m], msgQueues[m]) ELSE toClient[m]]
      /\ UNCHANGED mailbox
      /\ mute' = mute /\ ssock' = ssock /\ sockets' = sockets
      /\ interval' = interval /\ stopped' = stopped /\ running' = running /\ ran' = ran
      /\ toServer' = toServer
    BY DEF FlushQueues
<1>2. full \subseteq DOMAIN msgQueues /\ live \subseteq Mailboxes
    BY DEF IInv, TypeOK
<1> HIDE DEF live, full
<1>3. /\ DOMAIN msgQueues' \subseteq Mailboxes
      /\ \A m \in DOMAIN msgQueues' : msgQueues'[m] = <<>>
    BY <1>1, <1>2
<1>4. toClient' \in [Mailboxes -> Seq(Seq(Package))]
    <2>1. \A m \in Mailboxes : toClient'[m] \in Seq(Seq(Package))
        BY <1>1, <1>2, AppendProperties DEF IInv, TypeOK
    <2> QED BY <1>1, <2>1
<1>5. TypeOK'
    BY <1>1, <1>3, <1>4, MailboxKept, EmptySeq DEF IInv, TypeOK
<1>6. AnswersTrue'
    <2> SUFFICES ASSUME NEW m \in Mailboxes
        PROVE  /\ toClient'[m] \in Seq(Seq(TruePackages(m)'))
               /\ m \in DOMAIN msgQueues' => msgQueues'[m] \in Seq(TruePackages(m)')
        BY DEF AnswersTrue
    <2>1. TruePackages(m) \subseteq TruePackages(m)'
        BY <1>1, TruePackagesGrow
    <2>2. toClient'[m] \in Seq(Seq(TruePackages(m)))
        BY <1>1, <1>2, AppendProperties DEF IInv, AnswersTrue
    <2> QED BY <1>3, <2>1, <2>2, SeqSeqMonotonic, EmptySeq
<1>7. AnswersOwnCall' /\ ServicesOfCalls'
    BY <1>1, MailboxKept DEF IInv, AnswersOwnCall, ServicesOfCalls
<1>8. FramesNew'
    BY <1>1, MailboxKept, FramesKept DEF IInv
<1> QED BY <1>1, <1>5, <1>6, <1>7, <1>8, MailboxKept DEF IInv

LEMMA ServerSocketClosedSound ==
    ASSUME IInv, NEW m \in Mailboxes, ServerSocketClosed(m)
    PROVE  IInv'
<1>1. /\ ssock' = [ssock EXCEPT ![m] = "closed"] /\ sockets' = sockets \ {m}
      /\ msgQueues' = [n \in DOMAIN msgQueues \ {m} |-> msgQueues[n]]
      /\ toServer' = [toServer EXCEPT ![m] = <<>>]
      /\ UNCHANGED mailbox
      /\ mute' = mute /\ interval' = interval /\ stopped' = stopped /\ running' = running /\ ran' = ran
      /\ toClient' = toClient
    BY DEF ServerSocketClosed
<1>2. /\ DOMAIN msgQueues' \subseteq DOMAIN msgQueues
      /\ \A n \in DOMAIN msgQueues' : msgQueues'[n] = msgQueues[n]
    BY <1>1
<1>3. TypeOK'
    <2>1. /\ ssock' \in [Mailboxes -> {"none", "open", "terminated", "closed"}]
          /\ sockets' \subseteq Mailboxes
        BY <1>1 DEF IInv, TypeOK
    <2>2. toServer' \in [Mailboxes -> Seq(Seq(Ids \union {None}))]
        BY <1>1, EmptySeq DEF IInv, TypeOK
    <2>3. DOMAIN msgQueues' \subseteq Mailboxes /\ \A n \in DOMAIN msgQueues' : msgQueues'[n] \in Seq(Package)
        BY <1>2 DEF IInv, TypeOK
    <2> QED BY <1>1, <2>1, <2>2, <2>3, MailboxKept DEF IInv, TypeOK
<1>4. AnswersTrue'
    <2> SUFFICES ASSUME NEW n \in Mailboxes
        PROVE  /\ toClient'[n] \in Seq(Seq(TruePackages(n)'))
               /\ n \in DOMAIN msgQueues' => msgQueues'[n] \in Seq(TruePackages(n)')
        BY DEF AnswersTrue
    <2>1. TruePackages(n) \subseteq TruePackages(n)'
        BY <1>1, TruePackagesGrow
    <2> QED BY <1>1, <1>2, <2>1, SeqSeqMonotonic DEF IInv, AnswersTrue
<1>5. AnswersOwnCall' /\ ServicesOfCalls'
    BY <1>1, MailboxKept DEF IInv, AnswersOwnCall, ServicesOfCalls
<1>6. FramesNew'
    <2> SUFFICES ASSUME NEW n \in Mailboxes, NEW i \in 1 .. Len(toServer[n])'
        PROVE  NewFrame(n, toServer[n], i)'
        BY DEF FramesNew
    <2>1. n # m /\ toServer'[n] = toServer[n]
        BY <1>1 DEF IInv, TypeOK
    <2>2. NewFrame(n, toServer[n], i)
        BY <2>1 DEF IInv, FramesNew
    <2>3. result' = result
        BY <1>1, MailboxKept
    <2> QED BY <1>1, <2>1, <2>2, <2>3 DEF NewFrame
<1> QED BY <1>1, <1>3, <1>4, <1>5, <1>6, MailboxKept DEF IInv

LEMMA StopSound ==
    ASSUME IInv, Stop
    PROVE  IInv'
<1>1. /\ stopped' = TRUE /\ interval' = FALSE
      /\ ssock' = [m \in Mailboxes |-> IF ssock[m] = "open" THEN "terminated" ELSE ssock[m]]
      /\ UNCHANGED mailbox
      /\ mute' = mute /\ sockets' = sockets /\ msgQueues' = msgQueues /\ running' = running /\ ran' = ran
      /\ toServer' = toServer /\ toClient' = toClient
    BY DEF Stop
<1>2. ssock' \in [Mailboxes -> {"none", "open", "terminated", "closed"}]
    BY <1>1 DEF IInv, TypeOK
<1>3. TypeOK'
    BY <1>1, <1>2, MailboxKept DEF IInv, TypeOK
<1>4. AnswersOwnCall' /\ ServicesOfCalls'
    BY <1>1, MailboxKept DEF IInv, AnswersOwnCall, ServicesOfCalls
<1>5. AnswersTrue' /\ FramesNew'
    BY <1>1, MailboxKept, AnswersKept, FramesKept DEF IInv
<1> QED BY <1>1, <1>3, <1>4, <1>5, MailboxKept DEF IInv

LEMMA StutterSound ==
    ASSUME IInv, UNCHANGED vars
    PROVE  IInv'
<1>1. /\ UNCHANGED mailbox
      /\ mute' = mute /\ ssock' = ssock /\ sockets' = sockets /\ msgQueues' = msgQueues
      /\ interval' = interval /\ stopped' = stopped /\ running' = running /\ ran' = ran
      /\ toServer' = toServer /\ toClient' = toClient
    BY DEF vars, acceptor
<1>2. TypeOK'
    BY <1>1, MailboxKept DEF IInv, TypeOK
<1>3. AnswersOwnCall' /\ ServicesOfCalls'
    BY <1>1, MailboxKept DEF IInv, AnswersOwnCall, ServicesOfCalls
<1>4. AnswersTrue' /\ FramesNew'
    BY <1>1, MailboxKept, AnswersKept, FramesKept DEF IInv
<1> QED BY <1>1, <1>2, <1>3, <1>4, MailboxKept DEF IInv

-----------------------------------------------------------------------------
(* The invariant.                                                          *)

LEMMA InitSound == Init => IInv
<1> SUFFICES ASSUME Init PROVE IInv
    OBVIOUS
<1>1. TypeOK
    <2>1. <<>> \in Seq(Seq(Package)) /\ <<>> \in Seq(Seq(Ids \union {None})) /\ DOMAIN <<>> = {}
        BY EmptySeq
    <2>2. /\ toServer \in [Mailboxes -> Seq(Seq(Ids \union {None}))]
          /\ toClient \in [Mailboxes -> Seq(Seq(Package))] /\ msgQueues = <<>>
        BY <2>1 DEF Init
    <2>3. /\ DOMAIN msgQueues \subseteq Mailboxes
          /\ \A m \in DOMAIN msgQueues : msgQueues[m] \in Seq(Package)
        BY <2>1, <2>2
    <2>4. /\ 0 \in 0 .. MaxCalls /\ 0 \in 0 .. 2 /\ bufferMsg \in [Mailboxes -> BOOLEAN] /\ interval \in BOOLEAN
        BY DEF Init
    <2>5. /\ buffered \in [Mailboxes -> 0 .. MaxCalls] /\ curId \in [Mailboxes -> 0 .. MaxCalls]
          /\ age \in [Mailboxes -> 0 .. 2]
        BY <2>4 DEF Init
    <2>6. /\ result \in [Calls -> {"none", "pending", "ok", "error", "timeout", "disconnected"}]
          /\ answer \in [Calls -> Calls \union {None}]
        BY DEF Init
    <2>7. /\ sock \in [Mailboxes -> {"none", "connecting", "open", "closing", "closed"}]
          /\ connected \in [Mailboxes -> BOOLEAN] /\ closed \in [Mailboxes -> BOOLEAN]
          /\ connTimer \in [Mailboxes -> BOOLEAN] /\ ping \in [Mailboxes -> {"never", "sent", "answered"}]
          /\ ssock \in [Mailboxes -> {"none", "open", "terminated", "closed"}] /\ stopped \in BOOLEAN
        BY DEF Init
    <2>8. /\ requests \subseteq Calls /\ timers \subseteq Calls /\ running \subseteq Calls /\ ran \subseteq Calls
          /\ mute \subseteq Mailboxes /\ sockets \subseteq Mailboxes
        BY DEF Init
    <2> QED BY <2>2, <2>3, <2>4, <2>5, <2>6, <2>7, <2>8 DEF TypeOK
<1>2. PendingHasTimer /\ AnswersOwnCall /\ ConnectedSocket /\ LostAreClosed /\ ClosedLate /\ ServicesOfCalls
    BY DEF Init, PendingHasTimer, AnswersOwnCall, ConnectedSocket, LostAreClosed, ClosedLate, ServicesOfCalls
<1>3. IdsInOrder
    BY DEF Init, IdsInOrder, Calls, Ids
<1>4. AnswersTrue
    BY EmptySeq DEF Init, AnswersTrue
<1>5. FramesNew
    BY DEF Init, FramesNew
<1> QED BY <1>1, <1>2, <1>3, <1>4, <1>5 DEF IInv

LEMMA StepSound == IInv /\ [Next]_vars => IInv'
<1> SUFFICES ASSUME IInv, [Next]_vars PROVE IInv'
    OBVIOUS
<1>1. ASSUME NEW m \in Mailboxes, ConnectStep(m) PROVE IInv'
    BY <1>1, ConnectStepSound
<1>2. ASSUME NEW m \in Mailboxes, SocketClosed(m) PROVE IInv'
    BY <1>2, SocketClosedSound
<1>3. ASSUME NEW m \in Mailboxes, Send(m) PROVE IInv'
    BY <1>3, SendSound
<1>4. ASSUME NEW m \in Mailboxes, Flush(m) PROVE IInv'
    BY <1>4, FlushSound
<1>5. ASSUME NEW m \in Mailboxes, Receive(m) PROVE IInv'
    BY <1>5, ReceiveSound
<1>6. ASSUME NEW m \in Mailboxes, Serve(m) PROVE IInv'
    BY <1>6, ServeSound
<1>7. ASSUME NEW m \in Mailboxes, ServerSocketClosed(m) PROVE IInv'
    BY <1>7, ServerSocketClosedSound
<1>8. ASSUME NEW c \in Calls, RequestTimeout(c) PROVE IInv'
    BY <1>8, RequestTimeoutSound
<1>9. ASSUME NEW c \in Calls, ServiceDone(c) PROVE IInv'
    BY <1>9, ServiceDoneSound
<1>10. CASE FlushQueues
    BY <1>10, FlushQueuesSound
<1>11. CASE Stop
    BY <1>11, StopSound
<1>12. CASE UNCHANGED vars
    BY <1>12, StutterSound
<1> QED BY <1>1, <1>2, <1>3, <1>4, <1>5, <1>6, <1>7, <1>8, <1>9, <1>10, <1>11, <1>12 DEF Next, ConnectStep

\* The invariant holds in every state of the channel.  (wsMailbox.ts,
\* wsAcceptor.ts)
THEOREM Invariance == Spec => []IInv
BY InitSound, StepSound, PTL DEF Spec

\* Calls, timers and connection stay in step, however answers, timeouts and
\* closes overtake each other: a pending call has its timer, and a mailbox that
\* accepts calls has an open socket.  (wsMailbox.ts)
THEOREM ChannelCorrect == Spec => []ChannelSound
<1>1. IInv => ChannelSound
    BY DEF IInv, ChannelSound
<1> QED BY <1>1, Invariance, PTL

\* A caller gets the value its own service computed.  (wsMailbox.ts processMsg,
\* wsAcceptor.ts processMsg)
THEOREM CallersGetTheirAnswer == Spec => []AnswersOwnCall
<1>1. IInv => AnswersOwnCall
    BY DEF IInv
<1> QED BY <1>1, Invariance, PTL

-----------------------------------------------------------------------------
(* The refinement of RPCCalls.                                             *)

LEMMA InitImplements == Init => Promise!Init
BY DEF Init, Promise!Init, StateOf

\* A step that leaves result and ran alone is a stutter of the promise.
LEMMA PromiseStutter ==
    ASSUME result' = result, ran' = ran
    PROVE  UNCHANGED Promise!callVars
BY DEF Promise!callVars, StateOf

LEMMA MakeImplements ==
    ASSUME IInv, NEW m \in Mailboxes, Send(m)
    PROVE  Promise!Next
<1> DEFINE c == <<m, curId[m]>>
<1>1. result' = [result EXCEPT ![c] = "pending"] /\ ran' = ran
    BY DEF Send, acceptor
<1>2. curId[m] \in Ids /\ c \in Calls
    <2>1. Cardinality({d \in Calls : result[d] # "none"}) < MaxCalls
        BY DEF Send
    <2> QED BY <2>1, IdFree DEF IInv, Calls
<1>3. result[c] = "none" /\ result \in [Calls -> {"none", "pending", "ok", "error", "timeout", "disconnected"}]
    BY <1>2 DEF IInv, IdsInOrder, Ids, TypeOK
<1> HIDE DEF c
<1>4. Promise!Make(c)
    BY <1>1, <1>2, <1>3 DEF Promise!Make, StateOf
<1> QED BY <1>2, <1>4 DEF Promise!Next

LEMMA RunImplements ==
    ASSUME IInv, NEW m \in Mailboxes, Serve(m)
    PROVE  Promise!Next \/ UNCHANGED Promise!callVars
<1>1. result' = result
    BY DEF Serve, mailbox
<1>2. CASE ran' = ran
    BY <1>1, <1>2, PromiseStutter
<1>3. CASE ran' # ran
    <2>1. PICK k \in Ids :
              result[<<m, k>>] # "none" /\ <<m, k>> \notin ran /\ ran' = ran \union {<<m, k>>}
        BY <1>3, ServeStarts
    <2>2. <<m, k>> \in Calls
        BY DEF Calls
    <2>3. Promise!Run(<<m, k>>)
        BY <1>1, <2>1, <2>2 DEF Promise!Run, StateOf
    <2> QED BY <2>2, <2>3 DEF Promise!Next
<1> QED BY <1>2, <1>3

\* Settling calls that are pending, with a value only if their service ran.
LEMMA SettleImplements ==
    ASSUME IInv, ran' = ran, DOMAIN result' = Calls,
           \A c \in Calls :
               \/ result'[c] = result[c]
               \/ /\ result[c] = "pending"
                  /\ \/ result'[c] \in {"error", "timeout", "disconnected"}
                     \/ result'[c] = "ok" /\ c \in ran
    PROVE  Promise!Next
<1> DEFINE answered == {c \in Calls : result'[c] # result[c] /\ result'[c] = "ok"}
           failed == {c \in Calls : result'[c] # result[c] /\ result'[c] # "ok"}
<1>1. answered \in SUBSET Calls /\ failed \in SUBSET Calls
    OBVIOUS
<1>2. /\ answered \subseteq Promise!Pending \intersect ran
      /\ failed \subseteq Promise!Pending \ answered
    BY DEF Promise!Pending, StateOf
<1>3. [c \in Calls |-> StateOf(c)]' =
          [c \in Calls |-> IF c \in answered THEN "answered"
                           ELSE IF c \in failed THEN "failed" ELSE [d \in Calls |-> StateOf(d)][c]]
    BY DEF StateOf
<1> HIDE DEF answered, failed
<1>4. Promise!Settle(answered, failed)
    BY <1>2, <1>3 DEF Promise!Settle
<1> QED BY <1>1, <1>4 DEF Promise!Next

LEMMA ReceiveImplements ==
    ASSUME IInv, NEW m \in Mailboxes, Receive(m)
    PROVE  Promise!Next
<1>1. PICK calls \in SUBSET requests :
              /\ result' = [c \in Calls |-> result'[c]]
              /\ \A c \in calls : /\ c[1] = m
                                  /\ result'[c] \in {"ok", "error"}
                                  /\ result'[c] = "ok" => c \in ran
              /\ \A c \in Calls \ calls : result'[c] = result[c]
    BY ReceiveSettles
<1>2. ran' = ran /\ sock[m] \in {"open", "closing"}
    BY DEF Receive, acceptor
<1>3. \A c \in calls : result[c] = "pending"
    BY <1>1, <1>2 DEF IInv, TypeOK, PendingHasTimer, LostAreClosed
<1> QED BY <1>1, <1>2, <1>3, SettleImplements

LEMMA SocketClosedImplements ==
    ASSUME IInv, NEW m \in Mailboxes, SocketClosed(m)
    PROVE  Promise!Next
<1>1. /\ ran' = ran
      /\ result' = [c \in Calls |-> IF c \in requests \intersect Of(m) /\ result[c] = "pending"
                                    THEN "disconnected" ELSE result[c]]
    BY DEF SocketClosed, acceptor
<1>2. DOMAIN result' = Calls
    BY <1>1
<1>3. \A c \in Calls : \/ result'[c] = result[c]
                       \/ result[c] = "pending" /\ result'[c] = "disconnected"
    BY <1>1
<1> QED BY <1>1, <1>2, <1>3, SettleImplements

LEMMA RequestTimeoutImplements ==
    ASSUME IInv, NEW d \in Calls, RequestTimeout(d)
    PROVE  Promise!Next
<1>1. ran' = ran /\ result' = [result EXCEPT ![d] = IF @ = "pending" THEN "timeout" ELSE @]
    BY DEF RequestTimeout, acceptor
<1>2. result \in [Calls -> {"none", "pending", "ok", "error", "timeout", "disconnected"}]
    BY DEF IInv, TypeOK
<1>3. DOMAIN result' = Calls
    BY <1>1, <1>2
<1>4. \A c \in Calls : \/ result'[c] = result[c]
                       \/ result[c] = "pending" /\ result'[c] = "timeout"
    BY <1>1, <1>2
<1> QED BY <1>1, <1>3, <1>4, SettleImplements

LEMMA StepImplements == IInv /\ [Next]_vars => [Promise!Next]_(Promise!callVars)
<1> SUFFICES ASSUME IInv, [Next]_vars
    PROVE  Promise!Next \/ UNCHANGED Promise!callVars
    OBVIOUS
<1>1. ASSUME NEW m \in Mailboxes, ConnectStep(m) PROVE UNCHANGED Promise!callVars
    BY <1>1, CallsKept, PromiseStutter
<1>2. ASSUME NEW m \in Mailboxes, SocketClosed(m) PROVE Promise!Next
    BY <1>2, SocketClosedImplements
<1>3. ASSUME NEW m \in Mailboxes, Send(m) PROVE Promise!Next
    BY <1>3, MakeImplements
<1>4. ASSUME NEW m \in Mailboxes, Flush(m) PROVE UNCHANGED Promise!callVars
    BY <1>4, PromiseStutter DEF Flush, acceptor
<1>5. ASSUME NEW m \in Mailboxes, Receive(m) PROVE Promise!Next
    BY <1>5, ReceiveImplements
<1>6. ASSUME NEW m \in Mailboxes, Serve(m) PROVE Promise!Next \/ UNCHANGED Promise!callVars
    BY <1>6, RunImplements
<1>7. ASSUME NEW m \in Mailboxes, ServerSocketClosed(m) PROVE UNCHANGED Promise!callVars
    BY <1>7, PromiseStutter DEF ServerSocketClosed, mailbox
<1>8. ASSUME NEW c \in Calls, RequestTimeout(c) PROVE Promise!Next
    BY <1>8, RequestTimeoutImplements
<1>9. ASSUME NEW c \in Calls, ServiceDone(c) PROVE UNCHANGED Promise!callVars
    BY <1>9, PromiseStutter DEF ServiceDone, mailbox
<1>10. CASE FlushQueues
    BY <1>10, PromiseStutter DEF FlushQueues, mailbox
<1>11. CASE Stop
    BY <1>11, PromiseStutter DEF Stop, mailbox
<1>12. CASE UNCHANGED vars
    BY <1>12, PromiseStutter DEF vars, mailbox, acceptor
<1> QED BY <1>1, <1>2, <1>3, <1>4, <1>5, <1>6, <1>7, <1>8, <1>9, <1>10, <1>11, <1>12 DEF Next, ConnectStep

\* Answers, timeouts, lost connections and retried flushes never make a service
\* run twice for a call, settle a call twice, or answer one whose service did
\* not run.  (wsMailbox.ts, wsAcceptor.ts)
THEOREM ImplementsCalls == Spec => KeepsPromise
BY InitImplements, StepImplements, Invariance, PTL DEF Spec, KeepsPromise, Promise!Spec
=============================================================================
