---------------------------- MODULE MasterProofs ----------------------------
(***************************************************************************)
(* Proofs about the master and its processes, for every number of servers  *)
(* and of crashes: a server has one process, READY comes after all have    *)
(* reported, onStop() leaves none running, and the RPC clients of the      *)
(* workers learn what the master knows.                                    *)
(***************************************************************************)
EXTENDS Master, Integers, FiniteSetTheorems, SequenceTheorems, TLAPS

USE ServersAssumption

-----------------------------------------------------------------------------
(* The inductive invariant.                                                *)

\* Only the agent and the workers counted have been forked, each for a server.
Forked ==
    /\ of[AGENT] = 0
    /\ \A p \in Procs : os[p] # "none" => workerCount > 0 /\ p <= workerCount
    /\ \A p \in 1 .. workerCount : of[p] \in Servers
    /\ workerCount > 0 => os[AGENT] # "none"
    /\ workerCount > 0 => Cardinality(Servers) <= workerCount /\ \A s \in Servers : of[s] = s

\* Events are about processes there were, and what has reported is registered.
Reported ==
    /\ \A p \in posted : os[p] \notin {"none", "starting"}
    /\ \A p \in exiting : os[p] = "exited" /\ p # AGENT
    /\ workerInfos \subseteq 1 .. workerCount
    /\ ~stopped => \A p \in workerInfos : listed[of[p]] # 0

\* A server is taken by its process until the master has noticed the exit.
Taken(p) == Alive(p) \/ p \in exiting
OneTaker == \A p, q \in Procs : Taken(p) /\ Taken(q) /\ of[p] = of[q] => p = q

\* A worker is forked again at most once for each process that crashed.
Ended == {p \in Procs : os[p] \in {"ending", "exited"}}
Gone == {p \in Procs \ {AGENT} : os[p] = "exited" /\ p \notin exiting}
ForksPaid ==
    /\ ~stopped => Cardinality(Ended) <= crashes
    /\ workerCount <= Cardinality(Servers) + Cardinality(Gone)

\* The list of workers has every worker that onStop() has to terminate.
Terminated ==
    /\ stopped <=> next # 0
    /\ \A p \in Procs \ {AGENT} : Taken(p) => p \in ToSet(workers)
    /\ \A k \in 1 .. Len(workers) + 1 : k < next => os[Append(workers, AGENT)[k]] \notin {"starting", "up"}

\* A worker is in the list once.
ListedOnce ==
    /\ \A k \in 1 .. Len(workers) : workers[k] \in 1 .. workerCount
    /\ \A i, j \in 1 .. Len(workers) : workers[i] = workers[j] => i = j

\* The last list under way to a worker, or else the one it has.
Latest(p) == IF toWorker[p] = <<>> THEN map[p] ELSE toWorker[p][Len(toWorker[p])]
ListsSent ==
    /\ \A p \in Procs : os[p] = "up" /\ p \notin untold => known[p] = map[p]
    /\ ~stopped /\ dirty => delayed > 0
    /\ ~stopped /\ ~dirty =>
          \A p \in Procs \ {AGENT} : os[p] = "up" /\ p \notin posted => Latest(p) = listed

IInv ==
    /\ TypeOK /\ Forked /\ Reported /\ OneTaker /\ ForksPaid
    /\ ReadyMeansAll /\ Terminated /\ ListedOnce /\ ListsSent

-----------------------------------------------------------------------------
(* Constants, and sequences from which an element is removed.              *)

LEMMA Constants ==
    /\ Cardinality(Servers) \in Nat \ {0} /\ Servers = 1 .. Cardinality(Servers)
    /\ MaxForks \in Nat /\ MaxForks = Cardinality(Servers) + MaxCrashes
    /\ AGENT \in Procs /\ AGENT = 0 /\ Procs = 0 .. MaxForks /\ IsFiniteSet(Procs)
    /\ NoServers \in [Servers -> Procs]
<1>1. Cardinality(Servers) \in Nat \ {0}
    BY FS_CardinalityType
<1>2. MaxForks \in Nat
    BY <1>1 DEF MaxForks
<1>3. IsFiniteSet(0 .. MaxForks)
    BY <1>2, FS_Interval
<1>4. 0 \in 0 .. MaxForks
    BY <1>2
<1> QED BY <1>1, <1>2, <1>3, <1>4 DEF MaxForks, AGENT, Procs, NoServers

LEMMA RemoveAtProperties ==
    ASSUME NEW S, NEW s \in Seq(S), NEW k \in 1 .. Len(s)
    PROVE  /\ RemoveAt(s, k) \in Seq(S)
           /\ Len(RemoveAt(s, k)) = Len(s) - 1
           /\ \A i \in 1 .. Len(s) - 1 : RemoveAt(s, k)[i] = IF i < k THEN s[i] ELSE s[i + 1]
<1> DEFINE a == SubSeq(s, 1, k - 1)
           b == SubSeq(s, k + 1, Len(s))
<1>1. Len(s) \in Nat /\ \A i \in 1 .. Len(s) : s[i] \in S
    BY LenProperties, ElementOfSeq
<1>2. k \in Nat /\ 1 <= k /\ k <= Len(s)
    BY <1>1
<1>3. a \in Seq(S) /\ Len(a) = k - 1 /\ \A i \in 1 .. k - 1 : a[i] = s[i]
    <2>1. k - 1 \in Int /\ \A i \in 1 .. k - 1 : s[i] \in S
        BY <1>1, <1>2
    <2>2. /\ a \in Seq(S) /\ Len(a) = (IF 1 <= k - 1 THEN (k - 1) - 1 + 1 ELSE 0)
          /\ \A i \in 1 .. (k - 1) - 1 + 1 : a[i] = s[1 + i - 1]
        BY <2>1, SubSeqProperties
    <2> QED BY <1>2, <2>2
<1>4. b \in Seq(S) /\ Len(b) = Len(s) - k /\ \A i \in 1 .. Len(s) - k : b[i] = s[k + i]
    <2>1. k + 1 \in Int /\ Len(s) \in Int /\ \A i \in k + 1 .. Len(s) : s[i] \in S
        BY <1>1, <1>2
    <2>2. /\ b \in Seq(S) /\ Len(b) = (IF k + 1 <= Len(s) THEN Len(s) - (k + 1) + 1 ELSE 0)
          /\ \A i \in 1 .. Len(s) - (k + 1) + 1 : b[i] = s[(k + 1) + i - 1]
        BY <2>1, SubSeqProperties
    <2> QED BY <1>1, <1>2, <2>2
<1> HIDE DEF a, b
<1>5. /\ a \o b \in Seq(S) /\ Len(a \o b) = Len(a) + Len(b)
      /\ \A i \in 1 .. Len(a) + Len(b) : (a \o b)[i] = IF i <= Len(a) THEN a[i] ELSE b[i - Len(a)]
    BY <1>3, <1>4, ConcatProperties
<1>6. ASSUME NEW i \in 1 .. Len(s) - 1
      PROVE  (a \o b)[i] = IF i < k THEN s[i] ELSE s[i + 1]
    <2>1. i \in 1 .. Len(a) + Len(b)
        BY <1>1, <1>2, <1>3, <1>4
    <2>2. CASE i < k
        BY <1>2, <1>3, <1>5, <2>1, <2>2
    <2>3. CASE ~(i < k)
        <3>1. ~(i <= Len(a)) /\ i - Len(a) \in 1 .. Len(s) - k /\ k + (i - Len(a)) = i + 1
            BY <1>1, <1>2, <1>3, <2>3
        <3> QED BY <1>4, <1>5, <2>1, <2>3, <3>1
    <2> QED BY <2>2, <2>3
<1>7. RemoveAt(s, k) = a \o b
    BY DEF RemoveAt, a, b
<1>8. Len(a) + Len(b) = Len(s) - 1
    BY <1>1, <1>2, <1>3, <1>4
<1>9. \A i \in 1 .. Len(s) - 1 : (a \o b)[i] = IF i < k THEN s[i] ELSE s[i + 1]
    BY <1>6
<1> QED BY <1>5, <1>7, <1>8, <1>9

LEMMA LastOfTail ==
    ASSUME NEW S, NEW s \in Seq(S), s # <<>>, Tail(s) # <<>>
    PROVE  Tail(s)[Len(Tail(s))] = s[Len(s)]
<1>1. PICK t : t = Tail(s)
    OBVIOUS
<1>2. /\ t \in Seq(S) /\ t # <<>> /\ Len(t) = Len(s) - 1
      /\ \A i \in 1 .. Len(t) : t[i] = s[i + 1]
    BY <1>1, HeadTailProperties
<1>3. Len(t) \in Nat \ {0} /\ Len(s) \in Nat
    BY <1>2, EmptySeq, LenProperties
<1>4. Len(t) \in 1 .. Len(t) /\ Len(t) + 1 = Len(s)
    BY <1>2, <1>3
<1>5. t[Len(t)] = s[Len(s)]
    BY <1>2, <1>4
<1> QED BY <1>1, <1>5

-----------------------------------------------------------------------------
(* Steps of one process.                                                   *)

\* A process that goes on in its life leaves the servers as they are taken.
LEMMA ProcessStep ==
    ASSUME IInv, NEW p \in Procs, NEW v \in {"up", "ending", "exited"},
           Alive(p), v = "up" => os[p] = "starting",
           os' = [os EXCEPT ![p] = v], of' = of,
           exiting' = IF v = "exited" THEN exiting \union ({p} \ {AGENT}) ELSE exiting,
           workers' = workers, workerCount' = workerCount
    PROVE  /\ Forked' /\ OneTaker' /\ ListedOnce'
           /\ \A q \in Procs : Taken(q)' => Taken(q)
           /\ \A q \in exiting' : os'[q] = "exited" /\ q # AGENT
           /\ Gone' = Gone
           /\ Ended' = IF v = "up" THEN Ended ELSE Ended \union {p}
           /\ stopped' = stopped /\ next' = next => Terminated'
<1>1. os \in [Procs -> {"none", "starting", "up", "ending", "exited"}] /\ exiting \subseteq Procs
    BY DEF IInv, TypeOK
<1>2. os'[p] = v /\ \A q \in Procs \ {p} : os'[q] = os[q]
    BY <1>1
<1>3. os[p] \in {"starting", "up", "ending"}
    BY DEF Alive
<1>4. Forked'
    <2>1. \A q \in Procs : os'[q] # "none" <=> os[q] # "none"
        BY <1>2, <1>3
    <2> QED BY <2>1, Constants DEF IInv, Forked
<1>5. \A q \in Procs : Taken(q)' => Taken(q)
    BY <1>2, <1>3 DEF Taken, Alive
<1>6. OneTaker'
    BY <1>5 DEF IInv, OneTaker
<1>7. \A q \in exiting : os[q] = "exited" /\ q # AGENT
    BY DEF IInv, Reported
<1>8. \A q \in exiting' : os'[q] = "exited" /\ q # AGENT
    BY <1>1, <1>2, <1>3, <1>7
<1>9. Gone' = Gone
    BY <1>1, <1>2, <1>3, <1>7 DEF Gone
<1>10. Ended' = IF v = "up" THEN Ended ELSE Ended \union {p}
    BY <1>2, <1>3 DEF Ended
<1>11. ASSUME stopped' = stopped, next' = next PROVE Terminated'
    <2>1. \A q \in Procs : os[q] \notin {"starting", "up"} => os'[q] \notin {"starting", "up"}
        BY <1>2, <1>3
    <2>2. \A k \in 1 .. Len(workers) + 1 : Append(workers, AGENT)[k] \in Procs
        BY Constants, AppendProperties, ElementOfSeq DEF IInv, TypeOK
    <2> QED BY <1>5, <1>11, <2>1, <2>2 DEF IInv, Terminated
<1>12. ListedOnce'
    BY DEF IInv, ListedOnce
<1> QED BY <1>4, <1>5, <1>6, <1>8, <1>9, <1>10, <1>11, <1>12

\* TypeOK, with its sets of variables spelled out.
LEMMA Types ==
    ASSUME IInv
    PROVE  /\ os \in [Procs -> {"none", "starting", "up", "ending", "exited"}]
           /\ of \in [Procs -> 0 .. Cardinality(Servers)] /\ crashes \in 0 .. MaxCrashes
           /\ posted \subseteq Procs /\ exiting \subseteq Procs
           /\ map \in [Procs -> [Servers -> Procs]] /\ known \in [Procs -> [Servers -> Procs]]
           /\ untold \subseteq Procs
           /\ toWorker \in [Procs -> Seq([Servers -> Procs])]
           /\ workers \in Seq(Procs) /\ workerInfos \subseteq Procs /\ workerCount \in Procs
           /\ agentStarted \in BOOLEAN /\ allReady \in BOOLEAN /\ stopped \in BOOLEAN
           /\ dirty \in BOOLEAN /\ down \in BOOLEAN
           /\ listed \in [Servers -> Procs] /\ delayed \in Nat
           /\ sticky \in {"none", "listening", "closed"}
           /\ next \in 0 .. Len(workers) + 2
BY DEF IInv, TypeOK

LEMMA EndedFinite ==
    /\ IsFiniteSet(Ended) /\ Cardinality(Ended) \in Nat
    /\ IsFiniteSet(Gone) /\ Cardinality(Gone) \in Nat
<1>1. Ended \in SUBSET Procs /\ Gone \in SUBSET Procs
    BY DEF Ended, Gone
<1> QED BY <1>1, Constants, FS_Subset, FS_CardinalityType

\* The count of crashes covers one more process that ends.
LEMMA PaidKept ==
    ASSUME IInv, NEW p \in Procs,
           stopped' = stopped, workerCount' = workerCount, Gone' = Gone,
           Ended' = Ended \union {p},
           crashes' = crashes + 1 \/ (p \in Ended /\ crashes' = crashes)
    PROVE  ForksPaid'
<1>1. crashes \in Nat
    BY Types
<1>2. Cardinality(Ended \union {p}) =
          IF p \in Ended THEN Cardinality(Ended) ELSE Cardinality(Ended) + 1
    BY EndedFinite, FS_AddElement
<1>3. ~stopped => Cardinality(Ended) <= crashes
    BY DEF IInv, ForksPaid
<1>4. ~stopped => Cardinality(Ended \union {p}) <= crashes'
    BY <1>1, <1>2, <1>3, EndedFinite
<1> QED BY <1>4 DEF IInv, ForksPaid

\* A process that exits takes what was on its way to it along.
LEMMA ExitSound ==
    ASSUME IInv, NEW p \in Procs, Alive(p), Exit(p), crashes' \in 0 .. MaxCrashes,
           crashes' = crashes + 1 \/ (os[p] = "ending" /\ crashes' = crashes)
    PROVE  IInv'
<1>1. /\ os' = [os EXCEPT ![p] = "exited"]
      /\ exiting' = exiting \union ({p} \ {AGENT})
      /\ toWorker' = [toWorker EXCEPT ![p] = <<>>]
      /\ map' = [map EXCEPT ![p] = NoServers] /\ known' = [known EXCEPT ![p] = NoServers]
      /\ untold' = untold \ {p}
      /\ of' = of /\ posted' = posted
      /\ workers' = workers /\ workerInfos' = workerInfos /\ workerCount' = workerCount
      /\ agentStarted' = agentStarted /\ allReady' = allReady /\ stopped' = stopped
      /\ listed' = listed /\ dirty' = dirty /\ delayed' = delayed
      /\ sticky' = sticky /\ next' = next /\ down' = down
    BY DEF Exit, pool, registry
<1>2. /\ Forked' /\ OneTaker' /\ ListedOnce' /\ Terminated'
      /\ \A q \in exiting' : os'[q] = "exited" /\ q # AGENT
      /\ Gone' = Gone /\ Ended' = Ended \union {p}
    BY <1>1, ProcessStep
<1>3. os'[p] = "exited" /\ \A q \in Procs \ {p} : os'[q] = os[q]
    BY <1>1, Types
<1>4. TypeOK'
    <2>1. /\ os' \in [Procs -> {"none", "starting", "up", "ending", "exited"}]
          /\ exiting' \subseteq Procs /\ untold' \subseteq Procs
        BY <1>1, Types
    <2>2. map' \in [Procs -> [Servers -> Procs]] /\ known' \in [Procs -> [Servers -> Procs]]
        BY <1>1, Types, Constants
    <2>3. toWorker' \in [Procs -> Seq([Servers -> Procs])]
        BY <1>1, Types, EmptySeq
    <2> QED BY <1>1, <2>1, <2>2, <2>3, Types DEF TypeOK
<1>5. ForksPaid'
    <2>1. os[p] = "ending" => p \in Ended
        BY DEF Ended
    <2> QED BY <1>1, <1>2, <2>1, PaidKept
<1>6. Reported'
    <2>1. \A q \in posted : os'[q] \notin {"none", "starting"}
        BY <1>3, Types DEF IInv, Reported
    <2> QED BY <1>1, <1>2, <2>1 DEF IInv, Reported
<1>7. ReadyMeansAll'
    BY <1>1 DEF IInv, ReadyMeansAll
<1>8. ListsSent'
    <2>1. \A q \in Procs : os'[q] = "up" =>
              /\ q # p /\ os[q] = "up" /\ toWorker'[q] = toWorker[q] /\ map'[q] = map[q] /\ known'[q] = known[q]
              /\ (q \notin untold' => q \notin untold)
        BY <1>1, <1>3, Types
    <2>2. \A q \in Procs : os'[q] = "up" => Latest(q)' = Latest(q)
        BY <2>1 DEF Latest
    <2> QED BY <1>1, <2>1, <2>2 DEF IInv, ListsSent
<1> QED BY <1>2, <1>4, <1>5, <1>6, <1>7, <1>8 DEF IInv

LEMMA StartedSound ==
    ASSUME IInv, NEW p \in Procs, Started(p)
    PROVE  IInv'
<1> DEFINE self == IF p = AGENT THEN NoServers ELSE [NoServers EXCEPT ![of[p]] = p]
<1>1. /\ os[p] = "starting" /\ os' = [os EXCEPT ![p] = "up"]
      /\ posted' = posted \union {p}
      /\ map' = [map EXCEPT ![p] = self] /\ known' = [known EXCEPT ![p] = self]
      /\ toWorker' = toWorker /\ untold' = untold
      /\ of' = of /\ crashes' = crashes /\ exiting' = exiting
      /\ workers' = workers /\ workerInfos' = workerInfos /\ workerCount' = workerCount
      /\ agentStarted' = agentStarted /\ allReady' = allReady /\ stopped' = stopped
      /\ listed' = listed /\ dirty' = dirty /\ delayed' = delayed
      /\ sticky' = sticky /\ next' = next /\ down' = down
    BY DEF Started, RegisterSelf, pool, registry
<1>2. /\ Forked' /\ OneTaker' /\ ListedOnce' /\ Terminated'
      /\ \A q \in exiting' : os'[q] = "exited" /\ q # AGENT
      /\ Gone' = Gone /\ Ended' = Ended
    BY <1>1, ProcessStep DEF Alive
<1>3. os'[p] = "up" /\ \A q \in Procs \ {p} : os'[q] = os[q]
    BY <1>1, Types
<1>4. self \in [Servers -> Procs]
    BY Constants
<1> HIDE DEF self
<1>5. TypeOK'
    <2>1. /\ os' \in [Procs -> {"none", "starting", "up", "ending", "exited"}]
          /\ posted' \subseteq Procs
        BY <1>1, Types
    <2>2. map' \in [Procs -> [Servers -> Procs]] /\ known' \in [Procs -> [Servers -> Procs]]
        BY <1>1, <1>4, Types
    <2> QED BY <1>1, <2>1, <2>2, Types DEF TypeOK
<1>6. ForksPaid'
    BY <1>1, <1>2 DEF IInv, ForksPaid
<1>7. Reported'
    <2>1. \A q \in posted' : os'[q] \notin {"none", "starting"}
        BY <1>1, <1>3, Types DEF IInv, Reported
    <2> QED BY <1>1, <1>2, <2>1 DEF IInv, Reported
<1>8. ReadyMeansAll'
    BY <1>1 DEF IInv, ReadyMeansAll
<1>9. ListsSent'
    <2>1. \A q \in Procs \ {p} : os'[q] = os[q] /\ map'[q] = map[q] /\ known'[q] = known[q]
        BY <1>1, <1>3, Types
    <2>2. map'[p] = known'[p] /\ p \in posted'
        BY <1>1, Types
    <2>3. \A q \in Procs \ {p} : Latest(q)' = Latest(q)
        BY <1>1, <2>1 DEF Latest
    <2> QED BY <1>1, <2>1, <2>2, <2>3 DEF IInv, ListsSent
<1> QED BY <1>2, <1>5, <1>6, <1>7, <1>8, <1>9 DEF IInv

LEMMA StartFailsSound ==
    ASSUME IInv, NEW p \in Procs, StartFails(p)
    PROVE  IInv'
<1>1. /\ os[p] = "starting" /\ crashes < MaxCrashes /\ crashes' = crashes + 1
      /\ os' = [os EXCEPT ![p] = "ending"]
      /\ posted' = posted /\ map' = map /\ known' = known
      /\ toWorker' = toWorker /\ untold' = untold
      /\ of' = of /\ exiting' = exiting
      /\ workers' = workers /\ workerInfos' = workerInfos /\ workerCount' = workerCount
      /\ agentStarted' = agentStarted /\ allReady' = allReady /\ stopped' = stopped
      /\ listed' = listed /\ dirty' = dirty /\ delayed' = delayed
      /\ sticky' = sticky /\ next' = next /\ down' = down
    BY DEF StartFails, events, children, pool, registry
<1>2. /\ Forked' /\ OneTaker' /\ ListedOnce' /\ Terminated'
      /\ \A q \in exiting' : os'[q] = "exited" /\ q # AGENT
      /\ Gone' = Gone /\ Ended' = Ended \union {p}
    BY <1>1, ProcessStep DEF Alive
<1>3. os'[p] = "ending" /\ \A q \in Procs \ {p} : os'[q] = os[q]
    BY <1>1, Types
<1>4. TypeOK'
    <2>1. os' \in [Procs -> {"none", "starting", "up", "ending", "exited"}] /\ crashes' \in 0 .. MaxCrashes
        BY <1>1, Types
    <2> QED BY <1>1, <2>1, Types DEF TypeOK
<1>5. ForksPaid'
    BY <1>1, <1>2, PaidKept
<1>6. Reported'
    <2>1. \A q \in posted : os'[q] \notin {"none", "starting"}
        BY <1>3, Types DEF IInv, Reported
    <2> QED BY <1>1, <1>2, <2>1 DEF IInv, Reported
<1>7. ReadyMeansAll'
    BY <1>1 DEF IInv, ReadyMeansAll
<1>8. ListsSent'
    <2>1. \A q \in Procs : os'[q] = "up" => os[q] = "up"
        BY <1>3
    <2> QED BY <1>1, <2>1 DEF IInv, ListsSent, Latest
<1> QED BY <1>2, <1>4, <1>5, <1>6, <1>7, <1>8 DEF IInv

\* A worker takes the last list that reached it.
LEMMA ReceiveSound ==
    ASSUME IInv, NEW p \in Procs, Receive(p)
    PROVE  IInv'
<1>1. /\ toWorker[p] # <<>> /\ toWorker' = [toWorker EXCEPT ![p] = Tail(@)]
      /\ \/ /\ os[p] = "up" /\ map' = [map EXCEPT ![p] = Head(toWorker[p])]
            /\ untold' = untold \union {p}
         \/ os[p] # "up" /\ map' = map /\ untold' = untold
    BY DEF Receive, UpdateServerMap
<1>2. /\ os' = os /\ of' = of /\ crashes' = crashes /\ posted' = posted /\ exiting' = exiting
      /\ known' = known
      /\ workers' = workers /\ workerInfos' = workerInfos /\ workerCount' = workerCount
      /\ agentStarted' = agentStarted /\ allReady' = allReady /\ stopped' = stopped
      /\ listed' = listed /\ dirty' = dirty /\ delayed' = delayed
      /\ sticky' = sticky /\ next' = next /\ down' = down
    BY DEF Receive, process, events, pool, registry
<1>3. /\ toWorker[p] \in Seq([Servers -> Procs]) /\ Head(toWorker[p]) \in [Servers -> Procs]
      /\ Tail(toWorker[p]) \in Seq([Servers -> Procs])
      /\ Len(Tail(toWorker[p])) = Len(toWorker[p]) - 1
      /\ \A i \in 1 .. Len(Tail(toWorker[p])) : Tail(toWorker[p])[i] = toWorker[p][i + 1]
      /\ Len(toWorker[p]) \in Nat \ {0} /\ Head(toWorker[p]) = toWorker[p][1]
    <2>1. toWorker[p] \in Seq([Servers -> Procs])
        BY Types
    <2> QED BY <1>1, <2>1, HeadTailProperties, EmptySeq
<1>4. TypeOK'
    <2>1. toWorker' \in [Procs -> Seq([Servers -> Procs])]
        BY <1>1, <1>3, Types
    <2>2. map' \in [Procs -> [Servers -> Procs]]
        <3>1. [map EXCEPT ![p] = Head(toWorker[p])] \in [Procs -> [Servers -> Procs]]
            BY <1>3, Types
        <3> QED BY <1>1, <3>1, Types
    <2>3. untold' \subseteq Procs
        BY <1>1, Types
    <2> QED BY <1>2, <2>1, <2>2, <2>3, Types DEF TypeOK
<1>5. Forked' /\ Reported' /\ OneTaker' /\ ReadyMeansAll' /\ Terminated' /\ ListedOnce'
    BY <1>2 DEF IInv, Forked, Reported, OneTaker, ReadyMeansAll, Terminated, ListedOnce, Taken, Alive
<1>6. ForksPaid'
    BY <1>2 DEF IInv, ForksPaid, Ended, Gone
<1>7. ListsSent'
    <2>1. \A q \in Procs \ {p} : toWorker'[q] = toWorker[q] /\ map'[q] = map[q] /\ (q \in untold' <=> q \in untold)
        BY <1>1, Types
    <2>2. toWorker'[p] = Tail(toWorker[p])
        BY <1>1, Types
    <2>3. os[p] = "up" => p \in untold' /\ map'[p] = Head(toWorker[p])
        BY <1>1, Types
    <2>4. os[p] = "up" => Latest(p)' = Latest(p)
        <3>1. CASE Tail(toWorker[p]) = <<>>
            <4>1. Len(Tail(toWorker[p])) = 0
                BY <3>1, EmptySeq
            <4>2. Len(toWorker[p]) = 1
                BY <1>3, <4>1
            <4> QED BY <1>1, <1>3, <2>2, <2>3, <3>1, <4>2 DEF Latest
        <3>2. CASE Tail(toWorker[p]) # <<>>
            <4>1. Tail(toWorker[p])[Len(Tail(toWorker[p]))] = toWorker[p][Len(toWorker[p])]
                BY <1>1, <1>3, <3>2, LastOfTail
            <4> QED BY <1>1, <2>2, <3>2, <4>1 DEF Latest
        <3> QED BY <3>1, <3>2
    <2>5. \A q \in Procs \ {p} : Latest(q)' = Latest(q)
        BY <2>1 DEF Latest
    <2>6. \A q \in Procs : os[q] = "up" /\ q \notin untold' => known[q] = map'[q]
        BY <2>1, <2>3 DEF IInv, ListsSent
    <2> QED BY <1>2, <2>4, <2>5, <2>6 DEF IInv, ListsSent
<1> QED BY <1>4, <1>5, <1>6, <1>7 DEF IInv

LEMMA TellSound ==
    ASSUME IInv, NEW p \in Procs, Tell(p)
    PROVE  IInv'
<1>1. /\ untold' = untold \ {p} /\ known' = [known EXCEPT ![p] = map[p]]
      /\ os' = os /\ of' = of /\ crashes' = crashes /\ posted' = posted /\ exiting' = exiting
      /\ toWorker' = toWorker /\ map' = map
      /\ workers' = workers /\ workerInfos' = workerInfos /\ workerCount' = workerCount
      /\ agentStarted' = agentStarted /\ allReady' = allReady /\ stopped' = stopped
      /\ listed' = listed /\ dirty' = dirty /\ delayed' = delayed
      /\ sticky' = sticky /\ next' = next /\ down' = down
    BY DEF Tell, process, events, pool, registry
<1>2. TypeOK'
    <2>1. known' \in [Procs -> [Servers -> Procs]] /\ untold' \subseteq Procs
        BY <1>1, Types
    <2> QED BY <1>1, <2>1, Types DEF TypeOK
<1>3. Forked' /\ Reported' /\ OneTaker' /\ ReadyMeansAll' /\ Terminated' /\ ListedOnce'
    BY <1>1 DEF IInv, Forked, Reported, OneTaker, ReadyMeansAll, Terminated, ListedOnce, Taken, Alive
<1>4. ForksPaid'
    BY <1>1 DEF IInv, ForksPaid, Ended, Gone
<1>5. ListsSent'
    <2>1. \A q \in Procs : os[q] = "up" /\ q \notin untold' => known'[q] = map[q]
        BY <1>1, Types DEF IInv, ListsSent
    <2> QED BY <1>1, <2>1 DEF IInv, ListsSent, Latest
<1> QED BY <1>2, <1>3, <1>4, <1>5 DEF IInv

-----------------------------------------------------------------------------
(* Steps of the master.                                                    *)

\* Where all workers have reported, all servers are registered.
LEMMA ReadySound ==
    ASSUME IInv, NEW infos \in SUBSET (1 .. workerCount), NEW agent \in BOOLEAN, workerCount > 0,
           TryToReady(infos, agent),
           agentStarted' = agent, agentStarted => agent,
           stopped' = stopped,
           \A s \in Servers : listed[s] # 0 => listed'[s] # 0,
           ~stopped => \A p \in infos : listed'[of[p]] # 0
    PROVE  ReadyMeansAll' /\ allReady' \in BOOLEAN /\ sticky' \in {"none", "listening", "closed"}
<1>1. allReady' \in BOOLEAN /\ sticky' \in {"none", "listening", "closed"}
    BY Types DEF TryToReady, StartStickyServers
<1>2. CASE allReady' = allReady /\ allReady
    BY <1>1, <1>2, Types DEF IInv, ReadyMeansAll
<1>3. CASE ~allReady'
    BY <1>1, <1>3 DEF ReadyMeansAll
<1>4. CASE ~allReady /\ agent /\ Cardinality(infos) = workerCount
    <2>1. workerCount \in Nat
        BY Types, Constants
    <2>2. IsFiniteSet(1 .. workerCount) /\ Cardinality(1 .. workerCount) = workerCount
        BY <2>1, FS_Interval
    <2>3. infos = 1 .. workerCount
        BY <1>4, <2>2, FS_Subset
    <2>4. \A s \in Servers : s \in infos /\ of[s] = s
        BY <2>1, <2>3, Constants DEF IInv, Forked
    <2>5. ~stopped => \A s \in Servers : listed'[s] # 0
        BY <2>4
    <2> QED BY <1>1, <1>4, <2>5, Types DEF ReadyMeansAll
<1> QED BY <1>1, <1>2, <1>3, <1>4, Types DEF TryToReady

LEMMA OnAgentStartedSound ==
    ASSUME IInv, OnAgentStarted
    PROVE  IInv'
<1>1. /\ AGENT \in posted /\ posted' = posted \ {AGENT} /\ agentStarted' = TRUE
      /\ TryToReady(workerInfos, TRUE)
      /\ os' = os /\ of' = of /\ crashes' = crashes /\ exiting' = exiting
      /\ toWorker' = toWorker /\ map' = map /\ untold' = untold /\ known' = known
      /\ workers' = workers /\ workerInfos' = workerInfos /\ workerCount' = workerCount
      /\ stopped' = stopped /\ listed' = listed /\ dirty' = dirty /\ delayed' = delayed
      /\ next' = next /\ down' = down
    BY DEF OnAgentStarted, process, children, pool, registry
<1>2. ReadyMeansAll' /\ allReady' \in BOOLEAN /\ sticky' \in {"none", "listening", "closed"}
    <2>1. workerInfos \in SUBSET (1 .. workerCount) /\ (~stopped => \A p \in workerInfos : listed[of[p]] # 0)
        BY DEF IInv, Reported
    <2>2. workerCount > 0
        BY <1>1, Constants DEF IInv, Reported, Forked
    <2> QED BY <1>1, <2>1, <2>2, ReadySound
<1>3. TypeOK'
    BY <1>1, <1>2, Types DEF TypeOK
<1>4. Forked' /\ Reported' /\ OneTaker' /\ Terminated' /\ ListedOnce'
    BY <1>1 DEF IInv, Forked, Reported, OneTaker, Terminated, ListedOnce, Taken, Alive
<1>5. ForksPaid'
    BY <1>1 DEF IInv, ForksPaid, Ended, Gone
<1>6. ListsSent'
    <2>1. \A p \in Procs \ {AGENT} : p \in posted' <=> p \in posted
        BY <1>1
    <2> QED BY <1>1, <2>1 DEF IInv, ListsSent, Latest
<1> QED BY <1>2, <1>3, <1>4, <1>5, <1>6 DEF IInv

LEMMA OnWorkerStartedSound ==
    ASSUME IInv, NEW p \in Procs, OnWorkerStarted(p)
    PROVE  IInv'
<1>1. /\ p \in posted /\ p # AGENT /\ posted' = posted \ {p}
      /\ workerInfos' = workerInfos \union {p}
      /\ TryToReady(workerInfos', agentStarted)
      /\ \/ /\ stopped /\ listed' = listed /\ dirty' = dirty /\ delayed' = delayed
         \/ /\ ~stopped /\ listed' = [listed EXCEPT ![of[p]] = p]
            /\ dirty' = TRUE /\ delayed' = delayed + 1
      /\ os' = os /\ of' = of /\ crashes' = crashes /\ exiting' = exiting
      /\ toWorker' = toWorker /\ map' = map /\ untold' = untold /\ known' = known
      /\ workers' = workers /\ workerCount' = workerCount /\ agentStarted' = agentStarted
      /\ stopped' = stopped /\ next' = next /\ down' = down
    BY DEF OnWorkerStarted, process, children, registry
<1>2. workerCount > 0 /\ p \in 1 .. workerCount /\ of[p] \in Servers
    <2>1. os[p] # "none"
        BY <1>1 DEF IInv, Reported
    <2>2. workerCount > 0 /\ p <= workerCount /\ workerCount \in Nat /\ p \in Nat /\ p # 0
        <3>1. workerCount \in Nat /\ p \in Nat /\ p # 0
            BY <1>1, Types, Constants
        <3> QED BY <2>1, <3>1 DEF IInv, Forked
    <2> QED BY <2>2 DEF IInv, Forked
<1>3. workerInfos' \in SUBSET (1 .. workerCount)
    BY <1>1, <1>2 DEF IInv, Reported
<1>4. /\ listed' \in [Servers -> Procs] /\ delayed' \in Nat /\ dirty' \in BOOLEAN
      /\ \A s \in Servers : listed[s] # 0 => listed'[s] # 0
      /\ ~stopped => listed'[of[p]] # 0
    <2>1. p # 0
        BY <1>1, Constants
    <2>2. CASE stopped
        BY <1>1, <2>2, Types
    <2>3. CASE ~stopped
        <3>1. listed' = [listed EXCEPT ![of[p]] = p] /\ dirty' = TRUE /\ delayed' = delayed + 1
            BY <1>1, <2>3
        <3> QED BY <1>2, <2>1, <3>1, Types
    <2> QED BY <2>2, <2>3
<1>5. ~stopped => \A q \in workerInfos' : listed'[of[q]] # 0
    <2>1. \A q \in workerInfos : of[q] \in Servers /\ (~stopped => listed[of[q]] # 0)
        BY DEF IInv, Reported, Forked
    <2> QED BY <1>1, <1>4, <2>1
<1>6. ReadyMeansAll' /\ allReady' \in BOOLEAN /\ sticky' \in {"none", "listening", "closed"}
    <2>1. agentStarted \in BOOLEAN
        BY Types
    <2> QED BY <1>1, <1>2, <1>3, <1>4, <1>5, <2>1, ReadySound
<1>7. TypeOK'
    BY <1>1, <1>4, <1>6, Types DEF TypeOK
<1>8. Reported'
    <2>1. posted' \subseteq posted
        BY <1>1
    <2> QED BY <1>1, <1>3, <1>5, <2>1 DEF IInv, Reported
<1>9. Forked' /\ OneTaker' /\ Terminated' /\ ListedOnce'
    BY <1>1 DEF IInv, Forked, OneTaker, Terminated, ListedOnce, Taken, Alive
<1>10. ForksPaid'
    BY <1>1 DEF IInv, ForksPaid, Ended, Gone
<1>11. ListsSent'
    BY <1>1, Types DEF IInv, ListsSent, Latest
<1> QED BY <1>6, <1>7, <1>8, <1>9, <1>10, <1>11 DEF IInv

LEMMA EmitChangedSound ==
    ASSUME IInv, EmitChanged
    PROVE  IInv'
<1>1. /\ delayed > 0 /\ delayed' = delayed - 1
      /\ \/ dirty /\ ~stopped /\ dirty' = FALSE /\ toWorker' = Broadcast
         \/ (~dirty \/ stopped) /\ dirty' = dirty /\ toWorker' = toWorker
      /\ os' = os /\ of' = of /\ crashes' = crashes /\ posted' = posted /\ exiting' = exiting
      /\ map' = map /\ untold' = untold /\ known' = known
      /\ workers' = workers /\ workerInfos' = workerInfos /\ workerCount' = workerCount
      /\ agentStarted' = agentStarted /\ allReady' = allReady /\ stopped' = stopped
      /\ listed' = listed /\ sticky' = sticky /\ next' = next /\ down' = down
    BY DEF EmitChanged, process, events, pool
<1>2. \A p \in Procs : /\ Append(toWorker[p], listed) \in Seq([Servers -> Procs])
                       /\ Append(toWorker[p], listed) # <<>>
                       /\ Append(toWorker[p], listed)[Len(Append(toWorker[p], listed))] = listed
    <2> SUFFICES ASSUME NEW p \in Procs
        PROVE  /\ Append(toWorker[p], listed) \in Seq([Servers -> Procs])
               /\ Append(toWorker[p], listed) # <<>>
               /\ Append(toWorker[p], listed)[Len(Append(toWorker[p], listed))] = listed
        OBVIOUS
    <2>1. toWorker[p] \in Seq([Servers -> Procs]) /\ listed \in [Servers -> Procs]
        BY Types
    <2> QED BY <2>1, AppendProperties
<1>3. TypeOK'
    <2>1. delayed' \in Nat /\ dirty' \in BOOLEAN
        <3>1. delayed \in Nat /\ dirty \in BOOLEAN
            BY Types
        <3>2. delayed' \in Nat
            BY <1>1, <3>1
        <3>3. dirty' \in BOOLEAN
            BY <1>1, <3>1
        <3> QED BY <3>2, <3>3
    <2>2. Broadcast \in [Procs -> Seq([Servers -> Procs])]
        BY <1>2, Types DEF Broadcast
    <2> QED BY <1>1, <2>1, <2>2, Types DEF TypeOK
<1>4. Forked' /\ Reported' /\ OneTaker' /\ ReadyMeansAll' /\ Terminated' /\ ListedOnce'
    BY <1>1 DEF IInv, Forked, Reported, OneTaker, ReadyMeansAll, Terminated, ListedOnce, Taken, Alive
<1>5. ForksPaid'
    BY <1>1 DEF IInv, ForksPaid, Ended, Gone
<1>6. ListsSent'
    <2>1. CASE dirty /\ ~stopped /\ dirty' = FALSE /\ toWorker' = Broadcast
        <3>1. ASSUME NEW p \in Procs \ {AGENT}, os[p] = "up" PROVE Latest(p)' = listed
            <4>1. p \in ToSet(workers)
                BY <3>1 DEF IInv, Terminated, Taken, Alive
            <4>2. toWorker'[p] = Append(toWorker[p], listed)
                BY <2>1, <3>1, <4>1 DEF Broadcast
            <4> QED BY <1>2, <4>2 DEF Latest
        <3> QED BY <1>1, <2>1, <3>1 DEF IInv, ListsSent
    <2>2. CASE (~dirty \/ stopped) /\ dirty' = dirty /\ toWorker' = toWorker
        BY <1>1, <2>2 DEF IInv, ListsSent, Latest
    <2> QED BY <1>1, <2>1, <2>2
<1> QED BY <1>3, <1>4, <1>5, <1>6 DEF IInv

LEMMA ConnectionSound ==
    ASSUME IInv, Connection
    PROVE  IInv'
<1>1. /\ os' = os /\ of' = of /\ crashes' = crashes /\ posted' = posted /\ exiting' = exiting
      /\ toWorker' = toWorker /\ map' = map /\ untold' = untold /\ known' = known
      /\ workers' = workers /\ workerInfos' = workerInfos /\ workerCount' = workerCount
      /\ agentStarted' = agentStarted /\ allReady' = allReady /\ stopped' = stopped
      /\ listed' = listed /\ dirty' = dirty /\ delayed' = delayed /\ sticky' = sticky /\ next' = next
      /\ down' = (StickyWorkers = <<>>)
    BY DEF Connection, process, events, children, pool, registry
<1>2. down' \in BOOLEAN
    BY <1>1
<1>3. TypeOK'
    BY <1>1, <1>2, Types DEF TypeOK
<1>4. Forked' /\ Reported' /\ OneTaker' /\ ReadyMeansAll' /\ Terminated' /\ ListedOnce'
    BY <1>1 DEF IInv, Forked, Reported, OneTaker, ReadyMeansAll, Terminated, ListedOnce, Taken, Alive
<1>5. ForksPaid'
    BY <1>1 DEF IInv, ForksPaid, Ended, Gone
<1>6. ListsSent'
    BY <1>1 DEF IInv, ListsSent, Latest
<1> QED BY <1>3, <1>4, <1>5, <1>6 DEF IInv

LEMMA StopSound ==
    ASSUME IInv, Stop
    PROVE  IInv'
<1>1. /\ ~stopped /\ stopped' = TRUE /\ next' = 1
      /\ sticky' = IF sticky = "listening" THEN "closed" ELSE sticky
      /\ os' = os /\ of' = of /\ crashes' = crashes /\ posted' = posted /\ exiting' = exiting
      /\ toWorker' = toWorker /\ map' = map /\ untold' = untold /\ known' = known
      /\ workers' = workers /\ workerInfos' = workerInfos /\ workerCount' = workerCount
      /\ agentStarted' = agentStarted /\ allReady' = allReady
      /\ listed' = listed /\ dirty' = dirty /\ delayed' = delayed /\ down' = down
    BY DEF Stop, process, events, children, pool, registry
<1>2. Len(workers) \in Nat
    BY Types, LenProperties
<1>3. TypeOK'
    <2>1. next' \in 0 .. Len(workers) + 2 /\ stopped' \in BOOLEAN /\ sticky' \in {"none", "listening", "closed"}
        BY <1>1, <1>2, Types
    <2> QED BY <1>1, <2>1, Types DEF TypeOK
<1>4. Forked' /\ Reported' /\ OneTaker' /\ ReadyMeansAll' /\ ListedOnce'
    BY <1>1 DEF IInv, Forked, Reported, OneTaker, ReadyMeansAll, ListedOnce, Taken, Alive
<1>5. Terminated'
    <2>1. \A k \in 1 .. Len(workers) + 1 : ~(k < 1)
        BY <1>2
    <2> QED BY <1>1, <2>1 DEF IInv, Terminated, Taken, Alive
<1>6. ForksPaid'
    BY <1>1 DEF IInv, ForksPaid, Ended, Gone
<1>7. ListsSent'
    BY <1>1 DEF IInv, ListsSent, Latest
<1> QED BY <1>3, <1>4, <1>5, <1>6, <1>7 DEF IInv

LEMMA TerminateSound ==
    ASSUME IInv, Terminate
    PROVE  IInv'
<1> DEFINE told == Append(workers, AGENT)
           t == told[next]
<1>1. /\ next \in DOMAIN told /\ next' = next + 1
      /\ os' = [os EXCEPT ![t] = IF @ \in {"starting", "up"} THEN "ending" ELSE @]
      /\ of' = of /\ crashes' = crashes /\ posted' = posted /\ exiting' = exiting
      /\ toWorker' = toWorker /\ map' = map /\ untold' = untold /\ known' = known
      /\ workers' = workers /\ workerInfos' = workerInfos /\ workerCount' = workerCount
      /\ agentStarted' = agentStarted /\ allReady' = allReady /\ stopped' = stopped
      /\ listed' = listed /\ dirty' = dirty /\ delayed' = delayed /\ sticky' = sticky /\ down' = down
    BY DEF Terminate, events, children, pool, registry
<1>2. /\ Len(workers) \in Nat /\ told \in Seq(Procs) /\ DOMAIN told = 1 .. Len(workers) + 1
      /\ \A k \in 1 .. Len(workers) + 1 : told[k] \in Procs
    <2>1. told \in Seq(Procs) /\ Len(told) = Len(workers) + 1 /\ Len(workers) \in Nat
        BY Types, Constants, AppendProperties, LenProperties
    <2> HIDE DEF told
    <2> QED BY <2>1, LenProperties, ElementOfSeq
<1>3. next \in 1 .. Len(workers) + 1 /\ t \in Procs
    BY <1>1, <1>2
<1>4. stopped /\ next' \in 0 .. Len(workers) + 2 /\ next' # 0
    BY <1>1, <1>2, <1>3 DEF IInv, Terminated
<1>5. \A k \in 1 .. Len(workers) + 1 : k < next => os[told[k]] \notin {"starting", "up"}
    BY DEF IInv, Terminated
<1> HIDE DEF t
<1>6. CASE os[t] \in {"starting", "up"}
    <2>1. os' = [os EXCEPT ![t] = "ending"]
        BY <1>1, <1>3, <1>6, Types
    <2>2. /\ Forked' /\ OneTaker' /\ ListedOnce'
          /\ \A q \in Procs : Taken(q)' => Taken(q)
          /\ \A q \in exiting' : os'[q] = "exited" /\ q # AGENT
          /\ Gone' = Gone
        BY <1>1, <1>3, <1>6, <2>1, ProcessStep DEF Alive
    <2>3. os'[t] = "ending" /\ \A q \in Procs \ {t} : os'[q] = os[q]
        BY <1>3, <2>1, Types
    <2>4. TypeOK'
        <3>1. os' \in [Procs -> {"none", "starting", "up", "ending", "exited"}]
            BY <2>1, Types
        <3> QED BY <1>1, <1>4, <3>1, Types DEF TypeOK
    <2>5. Reported'
        <3>1. \A q \in posted : os'[q] \notin {"none", "starting"}
            BY <2>3, Types DEF IInv, Reported
        <3> QED BY <1>1, <2>2, <3>1 DEF IInv, Reported
    <2>6. ReadyMeansAll' /\ ForksPaid'
        BY <1>1, <1>4, <2>2 DEF IInv, ReadyMeansAll, ForksPaid
    <2>7. Terminated'
        <3>1. ASSUME NEW k \in 1 .. Len(workers) + 1, k < next + 1
              PROVE  os'[told[k]] \notin {"starting", "up"}
            <4>1. k < next \/ k = next
                BY <1>2, <1>3, <3>1
            <4>2. told[k] \in Procs
                BY <1>2
            <4> QED BY <1>5, <2>3, <4>1, <4>2 DEF t
        <3>2. \A q \in Procs \ {AGENT} : Taken(q)' => q \in ToSet(workers)
            BY <2>2 DEF IInv, Terminated
        <3> QED BY <1>1, <1>4, <3>1, <3>2 DEF Terminated
    <2>8. ListsSent'
        <3>1. \A q \in Procs : os'[q] = "up" => os[q] = "up"
            BY <2>3
        <3> QED BY <1>1, <3>1 DEF IInv, ListsSent, Latest
    <2> QED BY <2>2, <2>4, <2>5, <2>6, <2>7, <2>8 DEF IInv
<1>7. CASE os[t] \notin {"starting", "up"}
    <2>1. os' = os
        BY <1>1, <1>3, <1>7, Types
    <2>2. TypeOK'
        BY <1>1, <1>4, <2>1, Types DEF TypeOK
    <2>3. Forked' /\ Reported' /\ OneTaker' /\ ReadyMeansAll' /\ ListedOnce'
        BY <1>1, <2>1 DEF IInv, Forked, Reported, OneTaker, ReadyMeansAll, ListedOnce, Taken, Alive
    <2>4. ForksPaid'
        BY <1>1, <2>1 DEF IInv, ForksPaid, Ended, Gone
    <2>5. Terminated'
        <3>1. ASSUME NEW k \in 1 .. Len(workers) + 1, k < next + 1
              PROVE  os[told[k]] \notin {"starting", "up"}
            <4>1. k < next \/ k = next
                BY <1>2, <1>3, <3>1
            <4> QED BY <1>5, <1>7, <4>1 DEF t
        <3>2. \A q \in Procs \ {AGENT} : Taken(q)' => q \in ToSet(workers)
            BY <1>1, <2>1 DEF IInv, Terminated, Taken, Alive
        <3> QED BY <1>1, <1>4, <2>1, <3>1, <3>2 DEF Terminated
    <2>6. ListsSent'
        BY <1>1, <2>1 DEF IInv, ListsSent, Latest
    <2> QED BY <2>2, <2>3, <2>4, <2>5, <2>6 DEF IInv
<1> QED BY <1>6, <1>7

-----------------------------------------------------------------------------
(* Forking.                                                                *)

\* What a fork for these servers adds, if there are processes for them.
LEMMA ForkAdds ==
    ASSUME IInv, NEW servers \in Seq(Servers), NEW kept \in Seq(Procs), Fork(servers, kept),
           workerCount + Len(servers) <= MaxForks
    PROVE  /\ workers' \in Seq(Procs) /\ Len(workers') = Len(kept) + Len(servers)
           /\ \A i \in 1 .. Len(kept) : workers'[i] = kept[i]
           /\ \A i \in 1 .. Len(servers) : workers'[Len(kept) + i] = workerCount + i
           /\ workerCount' = workerCount + Len(servers) /\ workerCount' \in Procs
           /\ os' \in [Procs -> {"none", "starting", "up", "ending", "exited"}]
           /\ of' \in [Procs -> 0 .. Cardinality(Servers)]
           /\ \A p \in Procs : workerCount < p /\ p <= workerCount + Len(servers)
                  => os'[p] = "starting" /\ of'[p] = servers[p - workerCount]
           /\ \A p \in Procs : ~(workerCount < p /\ p <= workerCount + Len(servers))
                  => /\ of'[p] = of[p]
                     /\ os'[p] = IF os[AGENT] = "none" /\ p = AGENT THEN "starting" ELSE os[p]
<1> DEFINE n == Len(servers)
           forked == [k \in 1 .. n |-> workerCount + k]
<1>1. n \in Nat /\ Len(kept) \in Nat /\ \A i \in 1 .. n : servers[i] \in Servers
    BY LenProperties, ElementOfSeq
<1>2. workerCount \in Nat /\ \A k \in 1 .. n : workerCount + k \in Procs
    <2>1. workerCount \in Nat /\ MaxForks \in Nat /\ workerCount + n <= MaxForks
        BY Constants, Types
    <2>2. \A k \in 1 .. n : workerCount + k \in 0 .. MaxForks
        BY <1>1, <2>1
    <2> QED BY <2>1, <2>2, Constants
<1>3. workerCount + n \in Procs
    BY <1>1, <1>2, Constants
<1>4. forked \in Seq(Procs) /\ Len(forked) = n
    <2>1. forked \in [1 .. n -> Procs]
        BY <1>2
    <2> HIDE DEF forked
    <2>2. forked \in Seq(Procs)
        BY <1>1, <2>1, SeqDef
    <2>3. Len(forked) \in Nat /\ DOMAIN forked = 1 .. Len(forked) /\ DOMAIN forked = 1 .. n
        BY <2>1, <2>2, LenProperties
    <2> QED BY <1>1, <2>2, <2>3
<1>5. /\ workers' = kept \o forked /\ workerCount' = workerCount + n
      /\ os' = [p \in Procs |-> IF p \in ToSet(forked) THEN "starting"
                                ELSE IF os[AGENT] = "none" /\ p = AGENT THEN "starting" ELSE os[p]]
      /\ of' = [p \in Procs |-> IF p \in ToSet(forked) THEN servers[p - workerCount] ELSE of[p]]
    BY DEF Fork
<1>6. \A p \in Procs : p \in ToSet(forked) <=> workerCount < p /\ p <= workerCount + n
    <2>1. ToSet(forked) = {workerCount + k : k \in 1 .. n}
        BY DEF ToSet
    <2> SUFFICES ASSUME NEW p \in Procs
        PROVE  (\E k \in 1 .. n : p = workerCount + k) <=> workerCount < p /\ p <= workerCount + n
        BY <2>1
    <2>2. p \in Nat
        BY Constants
    <2>3. workerCount < p /\ p <= workerCount + n => p - workerCount \in 1 .. n /\ p = workerCount + (p - workerCount)
        BY <1>1, <1>2, <2>2
    <2>4. \A k \in 1 .. n : p = workerCount + k => workerCount < p /\ p <= workerCount + n
        BY <1>1, <1>2, <2>2
    <2> QED BY <2>3, <2>4
<1>7. \A i \in 1 .. n : forked[i] = workerCount + i
    OBVIOUS
<1> HIDE DEF n, forked
<1>8. /\ workers' \in Seq(Procs) /\ Len(workers') = Len(kept) + n
      /\ \A i \in 1 .. Len(kept) + n : workers'[i] = IF i <= Len(kept) THEN kept[i] ELSE forked[i - Len(kept)]
    BY <1>4, <1>5, ConcatProperties
<1>9. \A i \in 1 .. Len(kept) : workers'[i] = kept[i]
    BY <1>1, <1>8
<1>10. ASSUME NEW i \in 1 .. n PROVE workers'[Len(kept) + i] = workerCount + i
    <2>1. Len(kept) + i \in 1 .. Len(kept) + n /\ ~(Len(kept) + i <= Len(kept)) /\ (Len(kept) + i) - Len(kept) = i
        BY <1>1
    <2> QED BY <1>7, <1>8, <2>1
<1>11. os' \in [Procs -> {"none", "starting", "up", "ending", "exited"}]
    BY <1>5, Types
<1>12. of' \in [Procs -> 0 .. Cardinality(Servers)]
    <2>1. ASSUME NEW p \in Procs, p \in ToSet(forked) PROVE servers[p - workerCount] \in 0 .. Cardinality(Servers)
        <3>1. p \in Nat /\ p - workerCount \in 1 .. n
            BY <1>1, <1>2, <1>6, <2>1, Constants
        <3>2. servers[p - workerCount] \in 1 .. Cardinality(Servers)
            BY <1>1, <3>1, Constants
        <3> QED BY <3>2, Constants
    <2> QED BY <1>5, <2>1, Types
<1>13. \A p \in Procs : workerCount < p /\ p <= workerCount + n
           => os'[p] = "starting" /\ of'[p] = servers[p - workerCount]
    BY <1>5, <1>6
<1>14. \A p \in Procs : ~(workerCount < p /\ p <= workerCount + n)
           => /\ of'[p] = of[p]
              /\ os'[p] = IF os[AGENT] = "none" /\ p = AGENT THEN "starting" ELSE os[p]
    BY <1>5, <1>6
<1> QED BY <1>3, <1>5, <1>8, <1>9, <1>10, <1>11, <1>12, <1>13, <1>14 DEF n

LEMMA StartSound ==
    ASSUME IInv, Start
    PROVE  IInv'
<1> DEFINE servers == [k \in Servers |-> k]
<1>1. /\ workerCount = 0 /\ ~stopped /\ Fork(servers, <<>>)
      /\ crashes' = crashes /\ posted' = posted /\ exiting' = exiting
      /\ toWorker' = toWorker /\ map' = map /\ untold' = untold /\ known' = known
      /\ workerInfos' = workerInfos
      /\ agentStarted' = agentStarted /\ allReady' = allReady /\ stopped' = stopped
      /\ listed' = listed /\ dirty' = dirty /\ delayed' = delayed
      /\ sticky' = sticky /\ next' = next /\ down' = down
    BY DEF Start, events, children, registry
<1>2. Cardinality(Servers) \in Nat \ {0} /\ Servers = 1 .. Cardinality(Servers)
    BY Constants
<1> DEFINE N == Cardinality(Servers)
<1>3. servers \in Seq(Servers) /\ Len(servers) = N /\ \A k \in 1 .. N : servers[k] = k
    <2>1. servers \in [1 .. N -> Servers] /\ \A k \in 1 .. N : servers[k] = k
        BY <1>2
    <2> HIDE DEF servers
    <2>2. servers \in Seq(Servers)
        BY <1>2, <2>1, SeqDef
    <2>3. Len(servers) \in Nat /\ DOMAIN servers = 1 .. Len(servers) /\ DOMAIN servers = 1 .. N
        BY <2>1, <2>2, LenProperties
    <2> QED BY <1>2, <2>1, <2>2, <2>3
<1> HIDE DEF servers
<1>4. \A p \in Procs : os[p] = "none"
    BY <1>1 DEF IInv, Forked
<1>5. posted = {} /\ exiting = {} /\ workerInfos = {} /\ of[AGENT] = 0 /\ next = 0
    <2>1. posted = {} /\ exiting = {}
        BY <1>4, Types DEF IInv, Reported
    <2>2. workerInfos = {} /\ of[AGENT] = 0 /\ next = 0
        BY <1>1, Types DEF IInv, Reported, Forked, Terminated
    <2> QED BY <2>1, <2>2
<1>6. N <= MaxForks
    BY <1>2, Constants
<1>7. /\ workers' \in Seq(Procs) /\ Len(workers') = N
      /\ \A i \in 1 .. N : workers'[i] = i
      /\ workerCount' = N /\ workerCount' \in Procs
      /\ os' \in [Procs -> {"none", "starting", "up", "ending", "exited"}]
      /\ of' \in [Procs -> 0 .. N]
      /\ \A p \in 1 .. N : p \in Procs /\ os'[p] = "starting" /\ of'[p] = p
      /\ \A p \in Procs : ~(0 < p /\ p <= N) => of'[p] = of[p] /\ os'[p] = IF p = AGENT THEN "starting" ELSE "none"
    <2>1. <<>> \in Seq(Procs) /\ Len(<<>>) = 0
        BY EmptySeq
    <2>2. 0 + Len(servers) = N /\ workerCount + Len(servers) <= MaxForks
        BY <1>1, <1>2, <1>3, <1>6
    <2>3. /\ workers' \in Seq(Procs) /\ Len(workers') = Len(<<>>) + Len(servers)
          /\ \A i \in 1 .. Len(servers) : workers'[Len(<<>>) + i] = workerCount + i
          /\ workerCount' = workerCount + Len(servers) /\ workerCount' \in Procs
          /\ os' \in [Procs -> {"none", "starting", "up", "ending", "exited"}]
          /\ of' \in [Procs -> 0 .. N]
          /\ \A p \in Procs : workerCount < p /\ p <= workerCount + Len(servers)
                 => os'[p] = "starting" /\ of'[p] = servers[p - workerCount]
          /\ \A p \in Procs : ~(workerCount < p /\ p <= workerCount + Len(servers))
                 => /\ of'[p] = of[p]
                    /\ os'[p] = IF os[AGENT] = "none" /\ p = AGENT THEN "starting" ELSE os[p]
        BY <1>1, <1>3, <2>1, <2>2, ForkAdds
    <2>4. /\ Len(workers') = N /\ workerCount' = N
          /\ \A i \in 1 .. N : workers'[i] = i
        <3>1. \A i \in 1 .. N : 0 + i = i
            BY <1>2
        <3> QED BY <1>1, <1>3, <2>1, <2>2, <2>3, <3>1
    <2>5. \A p \in 1 .. N : p \in Procs /\ 0 < p /\ p <= N /\ p - 0 = p
        BY <1>2, <1>6, Constants
    <2>6. \A p \in 1 .. N : p \in Procs /\ os'[p] = "starting" /\ of'[p] = p
        BY <1>1, <1>3, <2>2, <2>3, <2>5
    <2>7. \A p \in Procs : ~(0 < p /\ p <= N) => of'[p] = of[p] /\ os'[p] = IF p = AGENT THEN "starting" ELSE "none"
        <3> SUFFICES ASSUME NEW p \in Procs, ~(0 < p /\ p <= N)
            PROVE  of'[p] = of[p] /\ os'[p] = IF p = AGENT THEN "starting" ELSE "none"
            OBVIOUS
        <3>1. ~(workerCount < p /\ p <= workerCount + Len(servers))
            BY <1>1, <1>3
        <3>2. of'[p] = of[p] /\ os'[p] = IF os[AGENT] = "none" /\ p = AGENT THEN "starting" ELSE os[p]
            BY <2>3, <3>1
        <3>3. os[AGENT] = "none" /\ os[p] = "none"
            BY <1>4, Constants
        <3> QED BY <3>2, <3>3
    <2> QED BY <2>3, <2>4, <2>6, <2>7
<1>8. \A p \in Procs : p \in Nat /\ (0 < p \/ p = AGENT)
    BY Constants
<1>9. \A p \in Procs : /\ os'[p] \in {"none", "starting"}
                       /\ os'[p] = "starting" <=> p <= N
                       /\ os'[p] = "starting" => of'[p] = p
    BY <1>2, <1>5, <1>7, <1>8, Constants
<1>10. TypeOK'
    <2>1. next' \in 0 .. Len(workers') + 2
        BY <1>1, <1>2, <1>5, <1>7
    <2> QED BY <1>1, <1>7, <2>1, Types DEF TypeOK
<1>11. Forked'
    <2>1. of'[AGENT] = 0 /\ os'[AGENT] = "starting"
        BY <1>2, <1>5, <1>7, Constants
    <2> QED BY <1>2, <1>7, <1>9, <2>1 DEF Forked
<1>12. Reported'
    BY <1>1, <1>5 DEF Reported
<1>13. OneTaker'
    BY <1>1, <1>5, <1>9 DEF OneTaker, Taken, Alive
<1>14. ForksPaid'
    <2>1. Ended' = {}
        BY <1>9 DEF Ended
    <2>2. Cardinality(Gone') \in Nat
        <3>1. Gone' \in SUBSET Procs
            BY DEF Gone
        <3> QED BY <3>1, Constants, FS_Subset, FS_CardinalityType
    <2>3. crashes \in Nat /\ Cardinality({}) = 0
        BY Types, FS_EmptySet
    <2>4. 0 <= crashes /\ N <= N + Cardinality(Gone')
        BY <1>2, <2>2, <2>3
    <2> QED BY <1>1, <1>7, <2>1, <2>3, <2>4 DEF ForksPaid
<1>15. ReadyMeansAll'
    BY <1>1 DEF IInv, ReadyMeansAll
<1>16. Terminated'
    <2>1. ASSUME NEW p \in Procs \ {AGENT}, Taken(p)' PROVE p \in ToSet(workers')
        <3>1. p \in 1 .. N
            BY <1>1, <1>5, <1>8, <1>9, <2>1, Constants DEF Taken, Alive
        <3>2. DOMAIN workers' = 1 .. N
            BY <1>7, LenProperties
        <3> QED BY <1>7, <3>1, <3>2 DEF ToSet
    <2>2. \A k \in 1 .. Len(workers') + 1 : ~(k < next')
        BY <1>1, <1>2, <1>5, <1>7
    <2> QED BY <1>1, <1>5, <2>1, <2>2 DEF Terminated
<1>17. ListedOnce'
    BY <1>7 DEF ListedOnce
<1>18. ListsSent'
    <2>1. \A p \in Procs : os'[p] # "up"
        BY <1>9
    <2> QED BY <1>1, <2>1 DEF IInv, ListsSent
<1> QED BY <1>10, <1>11, <1>12, <1>13, <1>14, <1>15, <1>16, <1>17, <1>18 DEF IInv

\* The others stay in the list of workers, once each.
LEMMA WithoutProperties ==
    ASSUME IInv, NEW p \in Procs, p \in ToSet(workers)
    PROVE  /\ Len(workers) \in Nat \ {0}
           /\ Without(p) \in Seq(Procs) /\ Len(Without(p)) = Len(workers) - 1
           /\ \A i \in 1 .. Len(workers) - 1 : Without(p)[i] \in 1 .. workerCount
           /\ \A i, j \in 1 .. Len(workers) - 1 : Without(p)[i] = Without(p)[j] => i = j
           /\ \A q \in ToSet(workers) \ {p} : \E i \in 1 .. Len(workers) - 1 : Without(p)[i] = q
<1> DEFINE at == CHOOSE k \in DOMAIN workers : workers[k] = p
           n == Len(workers)
           kept == Without(p)
<1>1. workers \in Seq(Procs) /\ n \in Nat /\ DOMAIN workers = 1 .. n
    BY Types, LenProperties
<1>2. at \in 1 .. n /\ workers[at] = p
    BY <1>1 DEF ToSet
<1>3. kept = RemoveAt(workers, at)
    BY DEF Without
<1> HIDE DEF at, kept
<1>4. /\ kept \in Seq(Procs) /\ Len(kept) = n - 1
      /\ \A i \in 1 .. n - 1 : kept[i] = IF i < at THEN workers[i] ELSE workers[i + 1]
    BY <1>1, <1>2, <1>3, RemoveAtProperties
<1>5. n \in Nat \ {0} /\ at \in Nat
    BY <1>1, <1>2
<1>6. /\ \A k \in 1 .. n : workers[k] \in 1 .. workerCount
      /\ \A i, j \in 1 .. n : workers[i] = workers[j] => i = j
    BY DEF IInv, ListedOnce
<1>7. ASSUME NEW i \in 1 .. n - 1 PROVE i \in 1 .. n /\ i + 1 \in 1 .. n
    BY <1>5
<1>8. ASSUME NEW i \in 1 .. n - 1 PROVE kept[i] \in 1 .. workerCount
    BY <1>4, <1>6, <1>7
<1>9. ASSUME NEW i \in 1 .. n - 1, NEW j \in 1 .. n - 1, kept[i] = kept[j] PROVE i = j
    <2>1. PICK k \in 1 .. n : kept[i] = workers[k] /\ k = IF i < at THEN i ELSE i + 1
        BY <1>4, <1>7
    <2>2. PICK m \in 1 .. n : kept[j] = workers[m] /\ m = IF j < at THEN j ELSE j + 1
        BY <1>4, <1>7
    <2>3. k = m
        BY <1>6, <1>9, <2>1, <2>2
    <2> QED BY <1>5, <2>1, <2>2, <2>3
<1>10. ASSUME NEW q \in ToSet(workers) \ {p} PROVE \E i \in 1 .. n - 1 : kept[i] = q
    <2>1. PICK k \in 1 .. n : workers[k] = q
        BY <1>1 DEF ToSet
    <2>2. k # at
        BY <1>2, <2>1
    <2>3. CASE k < at
        <3>1. k \in 1 .. n - 1
            BY <1>2, <1>5, <2>3
        <3> QED BY <1>4, <2>1, <2>3, <3>1
    <2>4. CASE ~(k < at)
        <3>1. k - 1 \in 1 .. n - 1 /\ ~(k - 1 < at) /\ (k - 1) + 1 = k
            BY <1>2, <1>5, <2>2, <2>4
        <3> QED BY <1>4, <2>1, <3>1
    <2> QED BY <2>3, <2>4
<1> QED BY <1>4, <1>5, <1>8, <1>9, <1>10 DEF kept

\* The exit of a worker that had reported, before onStop().
LEMMA RestartSound ==
    ASSUME IInv, NEW p \in Procs, OnExit(p), ~stopped, p \in workerInfos
    PROVE  IInv'
<1> DEFINE kept == Without(p)
           new == workerCount + 1
<1>1. /\ p \in exiting /\ exiting' = exiting \ {p}
      /\ workerInfos' = workerInfos \ {p} /\ Fork(<<of[p]>>, kept)
      /\ crashes' = crashes /\ posted' = posted
      /\ toWorker' = toWorker /\ map' = map /\ untold' = untold /\ known' = known
      /\ agentStarted' = agentStarted /\ allReady' = allReady /\ stopped' = stopped
      /\ listed' = listed /\ dirty' = dirty /\ delayed' = delayed
      /\ sticky' = sticky /\ next' = next /\ down' = down
    BY DEF OnExit, children, registry
<1>2. /\ p \in 1 .. workerCount /\ p # AGENT /\ os[p] = "exited" /\ of[p] \in Servers
      /\ p \in ToSet(workers) /\ workerCount \in Nat /\ workerCount > 0 /\ os[AGENT] # "none"
    <2>1. p \in 1 .. workerCount /\ p # AGENT /\ os[p] = "exited"
        BY <1>1 DEF IInv, Reported
    <2>2. workerCount \in Nat /\ workerCount > 0
        BY <2>1, Types, Constants
    <2>3. p \in ToSet(workers)
        BY <1>1, <2>1 DEF IInv, Terminated, Taken
    <2>4. of[p] \in Servers /\ os[AGENT] # "none"
        BY <2>1, <2>2 DEF IInv, Forked
    <2> QED BY <2>1, <2>2, <2>3, <2>4
<1>3. /\ Len(workers) \in Nat \ {0}
      /\ kept \in Seq(Procs) /\ Len(kept) = Len(workers) - 1
      /\ \A i \in 1 .. Len(workers) - 1 : kept[i] \in 1 .. workerCount
      /\ \A i, j \in 1 .. Len(workers) - 1 : kept[i] = kept[j] => i = j
      /\ \A q \in ToSet(workers) \ {p} : \E i \in 1 .. Len(workers) - 1 : kept[i] = q
    BY <1>2, WithoutProperties
<1> HIDE DEF kept
<1>4. /\ Cardinality(Gone \union {p}) = Cardinality(Gone) + 1
      /\ new <= MaxForks /\ new \in Procs /\ Cardinality(Ended) <= crashes
    <2>1. p \notin Gone
        BY <1>1 DEF Gone
    <2>2. Cardinality(Gone \union {p}) = Cardinality(Gone) + 1
        BY <2>1, EndedFinite, FS_AddElement
    <2>3. Gone \union {p} \in SUBSET Ended
        BY <1>2 DEF Gone, Ended
    <2>4. Cardinality(Gone \union {p}) <= Cardinality(Ended)
        BY <2>3, EndedFinite, FS_Subset
    <2>5. Cardinality(Ended) <= crashes /\ workerCount <= Cardinality(Servers) + Cardinality(Gone)
        BY DEF IInv, ForksPaid
    <2>6. crashes \in Nat /\ crashes <= MaxCrashes /\ MaxCrashes \in Nat
        BY Types
    <2>7. new <= MaxForks
        BY <1>2, <2>2, <2>4, <2>5, <2>6, EndedFinite, Constants
    <2>8. new \in 0 .. MaxForks
        BY <1>2, <2>7, Constants
    <2> QED BY <2>2, <2>5, <2>7, <2>8, Constants
<1>5. /\ workers' \in Seq(Procs) /\ Len(workers') = Len(workers)
      /\ \A i \in 1 .. Len(workers) - 1 : workers'[i] = kept[i]
      /\ workers'[Len(workers)] = new
      /\ workerCount' = new
      /\ os' \in [Procs -> {"none", "starting", "up", "ending", "exited"}]
      /\ of' \in [Procs -> 0 .. Cardinality(Servers)]
      /\ os'[new] = "starting" /\ of'[new] = of[p]
      /\ \A q \in Procs \ {new} : os'[q] = os[q] /\ of'[q] = of[q]
    <2> DEFINE servers == <<of[p]>>
    <2>1. servers \in Seq(Servers) /\ Len(servers) = 1 /\ servers[1] = of[p]
        BY <1>2
    <2> HIDE DEF servers
    <2>2. Fork(servers, kept)
        BY <1>1 DEF servers
    <2>3. workerCount + Len(servers) <= MaxForks
        BY <1>4, <2>1
    <2>4. /\ workers' \in Seq(Procs) /\ Len(workers') = Len(kept) + Len(servers)
          /\ \A i \in 1 .. Len(kept) : workers'[i] = kept[i]
          /\ \A i \in 1 .. Len(servers) : workers'[Len(kept) + i] = workerCount + i
          /\ workerCount' = workerCount + Len(servers)
          /\ os' \in [Procs -> {"none", "starting", "up", "ending", "exited"}]
          /\ of' \in [Procs -> 0 .. Cardinality(Servers)]
          /\ \A q \in Procs : workerCount < q /\ q <= workerCount + Len(servers)
                 => os'[q] = "starting" /\ of'[q] = servers[q - workerCount]
          /\ \A q \in Procs : ~(workerCount < q /\ q <= workerCount + Len(servers))
                 => /\ of'[q] = of[q]
                    /\ os'[q] = IF os[AGENT] = "none" /\ q = AGENT THEN "starting" ELSE os[q]
        BY <1>3, <2>1, <2>2, <2>3, ForkAdds
    <2>5. Len(workers') = Len(workers) /\ workers'[Len(workers)] = new
        <3>1. 1 \in 1 .. Len(servers) /\ Len(kept) + 1 = Len(workers)
            BY <1>3, <2>1
        <3> QED BY <2>1, <2>4, <3>1
    <2>6. \A i \in 1 .. Len(workers) - 1 : workers'[i] = kept[i]
        BY <1>3, <2>4
    <2>7. os'[new] = "starting" /\ of'[new] = of[p]
        <3>1. workerCount < new /\ new <= workerCount + Len(servers) /\ new - workerCount = 1
            BY <1>2, <2>1
        <3> QED BY <1>4, <2>1, <2>4, <3>1
    <2>8. ASSUME NEW q \in Procs \ {new} PROVE os'[q] = os[q] /\ of'[q] = of[q]
        <3>1. q \in Nat
            BY Constants
        <3>2. ~(workerCount < q /\ q <= workerCount + Len(servers))
            BY <1>2, <2>1, <2>8, <3>1
        <3> QED BY <1>2, <2>4, <3>2
    <2> QED BY <2>1, <2>4, <2>5, <2>6, <2>7, <2>8
<1>6. os[new] = "none" /\ new # p /\ new # AGENT /\ new \notin 1 .. workerCount
    <2>1. ~(new <= workerCount) /\ new # 0 /\ new \notin 1 .. workerCount
        BY <1>2
    <2> QED BY <1>2, <1>4, <2>1, Constants DEF IInv, Forked
<1> HIDE DEF new
<1>7. TypeOK'
    <2>1. workerInfos' \subseteq Procs /\ exiting' \subseteq Procs
        BY <1>1, Types
    <2>2. next' \in 0 .. Len(workers') + 2 /\ workerCount' \in Procs
        BY <1>1, <1>4, <1>5, Types
    <2> QED BY <1>1, <1>5, <2>1, <2>2, Types DEF TypeOK
<1>8. new \in Nat /\ new = workerCount + 1 /\ \A q \in Procs : q \in Nat
    BY <1>2, Constants DEF new
<1>9. \A q \in 1 .. new : q \in 1 .. workerCount \/ q = new
    BY <1>2, <1>8
<1>10. 1 .. workerCount \subseteq Procs \ {new} /\ 1 .. workerCount \subseteq 1 .. new /\ new \in 1 .. new
    <2>1. \A q \in 1 .. workerCount : q \in 0 .. MaxForks /\ q # new /\ q \in 1 .. new
        BY <1>2, <1>4, <1>8, Constants
    <2>2. new \in 1 .. new
        BY <1>2, <1>8
    <2> QED BY <2>1, <2>2, Constants
<1>11. Forked'
    <2>1. of'[AGENT] = 0 /\ os'[AGENT] # "none"
        BY <1>2, <1>5, <1>6, Constants DEF IInv, Forked
    <2>2. ASSUME NEW q \in Procs, os'[q] # "none" PROVE new > 0 /\ q <= new
        BY <1>2, <1>5, <1>8, <2>2 DEF IInv, Forked
    <2>3. \A q \in 1 .. new : of'[q] \in Servers
        BY <1>2, <1>5, <1>9, <1>10 DEF IInv, Forked
    <2>4. Cardinality(Servers) <= workerCount /\ \A s \in Servers : of[s] = s
        BY <1>2 DEF IInv, Forked
    <2>5. Cardinality(Servers) <= new
        BY <1>2, <1>8, <2>4, Constants
    <2>6. \A s \in Servers : s \in 1 .. workerCount
        BY <1>2, <2>4, Constants
    <2>7. \A s \in Servers : of'[s] = s
        BY <1>5, <1>10, <2>4, <2>6
    <2> QED BY <1>5, <2>1, <2>2, <2>3, <2>5, <2>7 DEF Forked
<1>12. Reported'
    <2>1. \A q \in posted : os'[q] \notin {"none", "starting"}
        BY <1>5, <1>6, Types DEF IInv, Reported
    <2>2. \A q \in exiting' : os'[q] = "exited" /\ q # AGENT
        BY <1>1, <1>5, <1>6, Types DEF IInv, Reported
    <2>3. \A q \in workerInfos' : q \in 1 .. workerCount /\ listed[of[q]] # 0
        BY <1>1 DEF IInv, Reported
    <2>4. \A q \in workerInfos' : q \in 1 .. new /\ listed'[of'[q]] # 0
        BY <1>1, <1>5, <1>10, <2>3
    <2> QED BY <1>1, <1>5, <2>1, <2>2, <2>4 DEF Reported
<1>13. \A q \in Procs : Taken(q)' => q = new \/ (q # p /\ q # new /\ Taken(q))
    BY <1>1, <1>2, <1>5 DEF Taken, Alive
<1>14. OneTaker'
    <2>1. \A q \in Procs : Taken(q) /\ of[q] = of[p] => q = p
        BY <1>1 DEF IInv, OneTaker, Taken
    <2>2. \A q \in Procs : Taken(q)' /\ of'[q] = of[p] => q = new
        BY <1>5, <1>13, <2>1
    <2>3. ASSUME NEW q \in Procs, NEW r \in Procs, Taken(q)', Taken(r)', of'[q] = of'[r] PROVE q = r
        <3>1. CASE q = new \/ r = new
            BY <1>5, <2>2, <2>3, <3>1
        <3>2. CASE q # new /\ r # new
            BY <1>5, <1>13, <2>3, <3>2 DEF IInv, OneTaker
        <3> QED BY <3>1, <3>2
    <2> QED BY <2>3 DEF OneTaker
<1>15. ForksPaid'
    <2>1. Gone' = Gone \union {p}
        BY <1>1, <1>2, <1>5, <1>6, Types DEF Gone
    <2>2. Ended' = Ended
        BY <1>5, <1>6 DEF Ended
    <2>3. workerCount <= Cardinality(Servers) + Cardinality(Gone)
        BY DEF IInv, ForksPaid
    <2>4. new <= Cardinality(Servers) + (Cardinality(Gone) + 1)
        BY <1>2, <1>8, <2>3, EndedFinite, Constants
    <2> QED BY <1>1, <1>4, <1>5, <2>1, <2>2, <2>4 DEF ForksPaid
<1>16. ReadyMeansAll'
    BY <1>1 DEF IInv, ReadyMeansAll
<1>17. DOMAIN workers' = 1 .. Len(workers)
    BY <1>5, LenProperties
<1>18. \A i \in 1 .. Len(workers) : i = Len(workers) \/ i \in 1 .. Len(workers) - 1
    BY <1>3
<1>19. 1 .. Len(workers) - 1 \subseteq 1 .. Len(workers) /\ Len(workers) \in 1 .. Len(workers)
    BY <1>3
<1>20. Terminated'
    <2>1. stopped' = FALSE /\ next' = 0
        BY <1>1, Types DEF IInv, Terminated
    <2>2. \A k \in 1 .. Len(workers') + 1 : ~(k < next')
        BY <1>3, <1>5, <2>1
    <2>3. ASSUME NEW q \in Procs \ {AGENT}, Taken(q)' PROVE \E i \in 1 .. Len(workers) : workers'[i] = q
        <3>1. CASE q = new
            BY <1>5, <1>19, <3>1
        <3>2. CASE q # new
            <4>1. q \in ToSet(workers) \ {p}
                BY <1>13, <2>3, <3>2 DEF IInv, Terminated
            <4>2. PICK i \in 1 .. Len(workers) - 1 : kept[i] = q
                BY <1>3, <4>1
            <4>3. workers'[i] = q /\ i \in 1 .. Len(workers)
                BY <1>5, <1>19, <4>2
            <4> QED BY <4>3
        <3> QED BY <3>1, <3>2
    <2>4. \A q \in Procs \ {AGENT} : Taken(q)' => q \in ToSet(workers')
        BY <1>17, <2>3 DEF ToSet
    <2> QED BY <2>1, <2>2, <2>4 DEF Terminated
<1>21. ListedOnce'
    <2>1. ASSUME NEW i \in 1 .. Len(workers) - 1
          PROVE  workers'[i] = kept[i] /\ workers'[i] \in 1 .. workerCount /\ workers'[i] # new
        <3>1. workers'[i] = kept[i]
            BY <1>5
        <3>2. kept[i] \in 1 .. workerCount
            BY <1>3
        <3> QED BY <1>6, <3>1, <3>2
    <2>2. \A k \in 1 .. Len(workers) : workers'[k] \in 1 .. new
        BY <1>5, <1>10, <1>18, <2>1
    <2>3. ASSUME NEW i \in 1 .. Len(workers), NEW j \in 1 .. Len(workers), workers'[i] = workers'[j]
          PROVE  i = j
        <3>1. CASE i = Len(workers) \/ j = Len(workers)
            BY <1>5, <1>18, <2>1, <2>3, <3>1
        <3>2. CASE i # Len(workers) /\ j # Len(workers)
            <4>1. i \in 1 .. Len(workers) - 1 /\ j \in 1 .. Len(workers) - 1
                BY <1>18, <3>2
            <4>2. kept[i] = kept[j]
                BY <2>1, <2>3, <4>1
            <4> QED BY <1>3, <4>1, <4>2
        <3> QED BY <3>1, <3>2
    <2> QED BY <1>5, <2>2, <2>3 DEF ListedOnce
<1>22. ListsSent'
    <2>1. \A q \in Procs : os'[q] = "up" <=> os[q] = "up"
        BY <1>5, <1>6
    <2> QED BY <1>1, <2>1 DEF IInv, ListsSent, Latest
<1> QED BY <1>7, <1>11, <1>12, <1>14, <1>15, <1>16, <1>20, <1>21, <1>22 DEF IInv

LEMMA OnExitSound ==
    ASSUME IInv, NEW p \in Procs, OnExit(p)
    PROVE  IInv'
<1>1. CASE ~stopped /\ p \in workerInfos
    BY <1>1, RestartSound
<1>2. CASE stopped \/ p \notin workerInfos
    <2>1. /\ p \in exiting /\ exiting' = exiting \ {p} /\ os' = os /\ of' = of
          /\ workers' = workers /\ workerInfos' = workerInfos /\ workerCount' = workerCount
          /\ crashes' = crashes /\ posted' = posted
          /\ toWorker' = toWorker /\ map' = map /\ untold' = untold /\ known' = known
          /\ agentStarted' = agentStarted /\ allReady' = allReady /\ stopped' = stopped
          /\ listed' = listed /\ dirty' = dirty /\ delayed' = delayed
          /\ sticky' = sticky /\ next' = next /\ down' = down
        BY <1>2 DEF OnExit, children, pool, registry
    <2>2. TypeOK'
        <3>1. exiting' \subseteq Procs
            BY <2>1, Types
        <3> QED BY <2>1, <3>1, Types DEF TypeOK
    <2>3. \A q \in Procs : Taken(q)' => Taken(q)
        BY <2>1 DEF Taken, Alive
    <2>4. OneTaker' /\ Terminated'
        BY <2>1, <2>3 DEF IInv, OneTaker, Terminated
    <2>5. Forked' /\ Reported' /\ ReadyMeansAll' /\ ListedOnce'
        BY <2>1 DEF IInv, Forked, Reported, ReadyMeansAll, ListedOnce
    <2>6. ForksPaid'
        <3>1. Gone' \in SUBSET Procs /\ Gone \in SUBSET Gone'
            BY <2>1 DEF Gone
        <3>2. IsFiniteSet(Gone')
            BY <3>1, Constants, FS_Subset
        <3>3. Cardinality(Gone) <= Cardinality(Gone') /\ Cardinality(Gone') \in Nat
            BY <3>1, <3>2, FS_Subset, FS_CardinalityType
        <3>4. Ended' = Ended
            BY <2>1 DEF Ended
        <3>5. /\ ~stopped => Cardinality(Ended) <= crashes
              /\ workerCount <= Cardinality(Servers) + Cardinality(Gone)
            BY DEF IInv, ForksPaid
        <3>6. workerCount \in Nat
            BY Types, Constants
        <3>7. workerCount <= Cardinality(Servers) + Cardinality(Gone')
            BY <3>3, <3>5, <3>6, EndedFinite, Constants
        <3> QED BY <2>1, <3>4, <3>5, <3>7 DEF ForksPaid
    <2>7. ListsSent'
        BY <2>1 DEF IInv, ListsSent, Latest
    <2> QED BY <2>2, <2>4, <2>5, <2>6, <2>7 DEF IInv
<1> QED BY <1>1, <1>2
-----------------------------------------------------------------------------
(* The theorems.                                                           *)

LEMMA InitSound ==
    ASSUME Init
    PROVE  IInv
<1>1. /\ os = [p \in Procs |-> "none"] /\ of = [p \in Procs |-> 0] /\ crashes = 0
      /\ posted = {} /\ exiting = {} /\ untold = {}
      /\ toWorker = [p \in Procs |-> <<>>]
      /\ map = [p \in Procs |-> NoServers] /\ known = [p \in Procs |-> NoServers]
      /\ workers = <<>> /\ workerInfos = {} /\ workerCount = 0
      /\ agentStarted = FALSE /\ allReady = FALSE /\ stopped = FALSE
      /\ listed = NoServers /\ dirty = FALSE /\ delayed = 0
      /\ sticky = "none" /\ next = 0 /\ down = FALSE
    BY DEF Init
<1>2. <<>> \in Seq(Procs) /\ Len(workers) = 0
    BY <1>1, EmptySeq
<1>3. TypeOK
    <2>1. os \in [Procs -> {"none", "starting", "up", "ending", "exited"}]
        BY <1>1
    <2>2. of \in [Procs -> 0 .. Cardinality(Servers)] /\ crashes \in 0 .. MaxCrashes
        BY <1>1, Constants
    <2>3. {map, known} \subseteq [Procs -> [Servers -> Procs]]
        BY <1>1, Constants
    <2>4. toWorker \in [Procs -> Seq([Servers -> Procs])]
        BY <1>1, EmptySeq
    <2>5. next \in 0 .. Len(workers) + 2
        BY <1>1, <1>2
    <2> QED BY <1>1, <1>2, <2>1, <2>2, <2>3, <2>4, <2>5, Constants DEF TypeOK
<1>4. \A p \in Procs : os[p] = "none" /\ ~Taken(p)
    BY <1>1 DEF Taken, Alive
<1>5. Forked
    BY <1>1, <1>4, Constants DEF Forked
<1>6. Reported
    BY <1>1 DEF Reported
<1>7. OneTaker
    BY <1>4 DEF OneTaker
<1>8. ForksPaid
    <2>1. Ended = {} /\ Gone = {}
        BY <1>4 DEF Ended, Gone
    <2>2. Cardinality({}) = 0
        BY FS_EmptySet
    <2> QED BY <1>1, <2>1, <2>2, Constants DEF ForksPaid
<1>9. ReadyMeansAll
    BY <1>1 DEF ReadyMeansAll
<1>10. Terminated
    <2>1. \A k \in 1 .. Len(workers) + 1 : ~(k < next)
        BY <1>1, <1>2
    <2> QED BY <1>1, <1>4, <2>1 DEF Terminated
<1>11. ListedOnce
    BY <1>2 DEF ListedOnce
<1>12. ListsSent
    <2>1. \A p \in Procs : known[p] = map[p]
        BY <1>1
    <2> QED BY <1>1, <1>4, <2>1 DEF ListsSent
<1> QED BY <1>3, <1>5, <1>6, <1>7, <1>8, <1>9, <1>10, <1>11, <1>12 DEF IInv

LEMMA StutterSound ==
    ASSUME IInv, UNCHANGED vars
    PROVE  IInv'
<1>1. /\ os' = os /\ of' = of /\ crashes' = crashes /\ posted' = posted /\ exiting' = exiting
      /\ toWorker' = toWorker /\ map' = map /\ untold' = untold /\ known' = known
      /\ workers' = workers /\ workerInfos' = workerInfos /\ workerCount' = workerCount
      /\ agentStarted' = agentStarted /\ allReady' = allReady /\ stopped' = stopped
      /\ listed' = listed /\ dirty' = dirty /\ delayed' = delayed
      /\ sticky' = sticky /\ next' = next /\ down' = down
    BY DEF vars, process, events, children, pool, registry
<1>2. TypeOK' /\ Forked' /\ Reported' /\ ReadyMeansAll' /\ ListedOnce'
    BY <1>1 DEF IInv, TypeOK, Forked, Reported, ReadyMeansAll, ListedOnce
<1>3. OneTaker' /\ Terminated'
    BY <1>1 DEF IInv, OneTaker, Terminated, Taken, Alive
<1>4. ForksPaid'
    BY <1>1 DEF IInv, ForksPaid, Ended, Gone
<1>5. ListsSent'
    BY <1>1 DEF IInv, ListsSent, Latest
<1> QED BY <1>2, <1>3, <1>4, <1>5 DEF IInv

LEMMA StepSound ==
    ASSUME IInv, Next
    PROVE  IInv'
<1>1. CASE Start
    BY <1>1, StartSound
<1>2. CASE OnAgentStarted
    BY <1>2, OnAgentStartedSound
<1>3. CASE EmitChanged
    BY <1>3, EmitChangedSound
<1>4. CASE Connection
    BY <1>4, ConnectionSound
<1>5. CASE Stop
    BY <1>5, StopSound
<1>6. CASE Terminate
    BY <1>6, TerminateSound
<1>7. ASSUME NEW p \in Procs, Started(p) PROVE IInv'
    BY <1>7, StartedSound
<1>8. ASSUME NEW p \in Procs, StartFails(p) PROVE IInv'
    BY <1>8, StartFailsSound
<1>9. ASSUME NEW p \in Procs, Crash(p) PROVE IInv'
    <2>1. Alive(p) /\ Exit(p) /\ crashes' = crashes + 1 /\ crashes < MaxCrashes
        BY <1>9 DEF Crash, Alive
    <2>2. crashes' \in 0 .. MaxCrashes
        BY <2>1, Types
    <2> QED BY <2>1, <2>2, ExitSound
<1>10. ASSUME NEW p \in Procs, GracefulExit(p) PROVE IInv'
    <2>1. Alive(p) /\ Exit(p) /\ os[p] = "ending" /\ crashes' = crashes
        BY <1>10 DEF GracefulExit, Alive
    <2>2. crashes' \in 0 .. MaxCrashes
        BY <2>1, Types
    <2> QED BY <2>1, <2>2, ExitSound
<1>11. ASSUME NEW p \in Procs, Receive(p) PROVE IInv'
    BY <1>11, ReceiveSound
<1>12. ASSUME NEW p \in Procs, Tell(p) PROVE IInv'
    BY <1>12, TellSound
<1>13. ASSUME NEW p \in Procs, OnWorkerStarted(p) PROVE IInv'
    BY <1>13, OnWorkerStartedSound
<1>14. ASSUME NEW p \in Procs, OnExit(p) PROVE IInv'
    BY <1>14, OnExitSound
<1> QED BY <1>1, <1>2, <1>3, <1>4, <1>5, <1>6, <1>7, <1>8, <1>9, <1>10, <1>11, <1>12, <1>13, <1>14 DEF Next

\* The invariant holds in every state, for every number of servers and of
\* crashes, of the processes that master.ts starts, restarts and stops.
THEOREM Invariance == Spec => []IInv
<1>1. Init => IInv
    BY InitSound
<1>2. IInv /\ [Next]_vars => IInv'
    BY StepSound, StutterSound
<1> QED BY <1>1, <1>2, PTL DEF Spec

\* However reports, exits and restarts overtake each other, a server never has
\* two processes, READY is announced only when the agent and a process of every
\* server have reported, and when onStop() is done no process is left that was
\* not told to end.  (master.ts restartWorker, tryToReady, onStop; terminate.ts)
THEOREM ProcessesCorrect == Spec => []ProcessesSound
<1>1. IInv => ProcessesSound
    <2> SUFFICES ASSUME IInv PROVE ProcessesSound
        OBVIOUS
    <2>1. TypeOK /\ ReadyMeansAll
        BY DEF IInv
    <2>2. OneProcess
        BY DEF IInv, OneTaker, OneProcess, Taken
    <2>3. StopReachesAll
        <3> DEFINE told == Append(workers, AGENT)
        <3> SUFFICES ASSUME Finished, NEW p \in Procs PROVE os[p] \in {"none", "ending", "exited"}
            BY DEF StopReachesAll
        <3>1. /\ workers \in Seq(Procs) /\ Len(workers) \in Nat /\ DOMAIN workers = 1 .. Len(workers)
              /\ \A k \in 1 .. Len(workers) : told[k] = workers[k]
              /\ told[Len(workers) + 1] = AGENT
            BY Types, Constants, AppendProperties, LenProperties
        <3>2. \A k \in 1 .. Len(workers) + 1 : os[told[k]] \notin {"starting", "up"}
            <4>1. next = Len(workers) + 2
                BY DEF Finished
            <4>2. \A k \in 1 .. Len(workers) + 1 : k < next
                BY <3>1, <4>1
            <4> QED BY <4>2 DEF IInv, Terminated
        <3> HIDE DEF told
        <3>3. CASE p = AGENT
            <4>1. Len(workers) + 1 \in 1 .. Len(workers) + 1
                BY <3>1
            <4>2. os[p] \notin {"starting", "up"}
                BY <3>1, <3>2, <3>3, <4>1
            <4> QED BY <4>2, Types
        <3>4. CASE p # AGENT /\ Taken(p)
            <4>1. PICK k \in 1 .. Len(workers) : workers[k] = p
                BY <3>1, <3>4 DEF IInv, Terminated, ToSet
            <4>2. k \in 1 .. Len(workers) + 1
                BY <3>1
            <4>3. os[p] \notin {"starting", "up"}
                BY <3>1, <3>2, <4>1, <4>2
            <4> QED BY <4>3, Types
        <3>5. CASE ~Taken(p)
            BY <3>5, Types DEF Taken, Alive
        <3> QED BY <3>3, <3>4, <3>5
    <2> QED BY <2>1, <2>2, <2>3 DEF ProcessesSound
<1> QED BY <1>1, Invariance, PTL

\* When nothing is under way, the RPC client of every worker that runs knows the
\* servers that the master knows, also one that was forked again later.
\* (master.ts broadcast, workerRegistry.ts updateServerMap)
THEOREM WorkersLearn == Spec => []WorkersCatchUp
<1>1. IInv => WorkersCatchUp
    <2> SUFFICES ASSUME IInv, NEW p \in Procs \ {AGENT},
                        os[p] = "up", p \notin posted, toWorker[p] = <<>>,
                        delayed = 0, p \notin untold, ~stopped
                 PROVE  known[p] = listed
        BY DEF WorkersCatchUp
    <2>1. ~dirty
        BY DEF IInv, ListsSent
    <2>2. Latest(p) = listed /\ known[p] = map[p]
        BY <2>1 DEF IInv, ListsSent
    <2> QED BY <2>2 DEF Latest
<1> QED BY <1>1, Invariance, PTL
=============================================================================
