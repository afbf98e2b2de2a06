--------------------------- MODULE RegistryProofs ---------------------------
(***************************************************************************)
(* Proofs about how servers are found.  First the applications of a       *)
(* process, for every set of nodes, number of ports and of retries: what   *)
(* the local registry lists is what listens, clients catch up with it, an  *)
(* application counts as started only with its server and connector, and   *)
(* the round-robin route passes over no server.  Then the remote           *)
(* directory, for every set of registries, names and operations, with the  *)
(* lock as the code has it: it excludes, and writes are made of what is    *)
(* stored, except in the races it lets happen; versions identify files;    *)
(* and RemoteFs implements Directory.                                      *)
(***************************************************************************)
EXTENDS RemoteDirectory, Cluster, Integers, FiniteSetTheorems, TLAPS

-----------------------------------------------------------------------------
(* The applications of a process.                                          *)

USE PortsAssumption, NodesAssumption

-----------------------------------------------------------------------------
(* Remainders.                                                             *)

LEMMA ModRange == \A a \in Nat, n \in Nat \ {0} : a % n \in 0 .. n - 1
OBVIOUS

LEMMA ModDef == \A a \in Nat, n \in Nat \ {0} : \E q \in Nat : a = q * n + (a % n)
<1> SUFFICES ASSUME NEW a \in Nat, NEW n \in Nat \ {0}
    PROVE  \E q \in Nat : a = q * n + (a % n)
    OBVIOUS
<1>1. a \div n \in Nat /\ a = (a \div n) * n + (a % n)
    OBVIOUS
<1> QED BY <1>1

LEMMA ModUnique ==
    ASSUME NEW q \in Nat, NEW r \in Nat, NEW n \in Nat \ {0}, r < n
    PROVE  (q * n + r) % n = r
OBVIOUS

\* Fewer than n numbers in a row have different remainders.
LEMMA ModInjective ==
    ASSUME NEW a \in Nat, NEW j \in Nat, NEW n \in Nat \ {0}, 0 < j, j < n
    PROVE  a % n # (a + j) % n
<1> SUFFICES ASSUME a % n = (a + j) % n PROVE FALSE
    OBVIOUS
<1>1. PICK p \in Nat : a = p * n + (a % n)
    BY ModDef
<1>0. a + j \in Nat
    OBVIOUS
<1>2. PICK q \in Nat : a + j = q * n + ((a + j) % n)
    BY <1>0, ModDef
<1>3. a % n \in Nat
    BY ModRange
<1>4. j = (q - p) * n
    BY <1>1, <1>2, <1>3
<1>5. q - p \in Int /\ (q - p <= 0 \/ q - p >= 1)
    OBVIOUS
<1> QED BY <1>4, <1>5

LEMMA ModAdd ==
    ASSUME NEW c \in Nat, NEW j \in Nat, NEW n \in Nat \ {0}, c % n = 0
    PROVE  (c + j) % n = j % n
<1>1. PICK p \in Nat : c = p * n
    <2>1. PICK p \in Nat : c = p * n + (c % n)
        BY ModDef
    <2>2. p * n \in Nat
        OBVIOUS
    <2> QED BY <2>1, <2>2
<1>2. PICK q \in Nat : j = q * n + (j % n)
    BY ModDef
<1>3. j % n \in Nat /\ j % n < n
    BY ModRange
<1>4. p + q \in Nat /\ c + j = (p + q) * n + (j % n)
    <2> DEFINE r == j % n
    <2>1. r \in Nat /\ j = q * n + r
        BY <1>2, <1>3
    <2> HIDE DEF r
    <2>2. c + j = (p + q) * n + r
        BY <1>1, <2>1
    <2> QED BY <2>2 DEF r
<1>5. \A k, r \in Nat : r < n => (k * n + r) % n = r
    BY ModUnique
<1>6. ((p + q) * n + (j % n)) % n = j % n
    BY <1>3, <1>4, <1>5
<1> QED BY <1>4, <1>6

\* n numbers in a row have every remainder.
LEMMA ModSurjective ==
    ASSUME NEW a \in Nat, NEW n \in Nat \ {0}, NEW r \in 0 .. n - 1
    PROVE  \E j \in 0 .. n - 1 : (a + j) % n = r
<1> DEFINE b == a % n
<1>1. PICK p \in Nat : a = p * n + b
    BY ModDef
<1>2. b \in 0 .. n - 1
    BY ModRange
<1> HIDE DEF b
<1>3. CASE b <= r
    <2>1. a + (r - b) = p * n + r /\ r - b \in 0 .. n - 1
        BY <1>1, <1>2, <1>3
    <2>2. (p * n + r) % n = r
        BY ModUnique
    <2> QED BY <2>1, <2>2
<1>4. CASE r < b
    <2>1. a + (r - b + n) = (p + 1) * n + r /\ r - b + n \in 0 .. n - 1 /\ p + 1 \in Nat
        BY <1>1, <1>2, <1>4
    <2>2. \A k \in Nat : (k * n + r) % n = r
        BY ModUnique
    <2>3. ((p + 1) * n + r) % n = r
        BY <2>1, <2>2
    <2> QED BY <2>1, <2>3
<1> QED BY <1>2, <1>3, <1>4

-----------------------------------------------------------------------------
(* The servers in order.                                                   *)

Sorted(V) ==
    CHOOSE s \in [1 .. Cardinality(V) -> V] : \A i, j \in DOMAIN s : i < j => s[i] < s[j]

\* The rank of an element is the number of elements up to it.
Rank(V, x) == Cardinality({y \in V : y <= x})

LEMMA RankBijective ==
    ASSUME NEW V \in SUBSET Nat, IsFiniteSet(V)
    PROVE  /\ Cardinality(V) \in Nat
           /\ \A x \in V : Rank(V, x) \in 1 .. Cardinality(V)
           /\ \A x, y \in V : x < y => Rank(V, x) < Rank(V, y)
           /\ \A k \in 1 .. Cardinality(V) : \E x \in V : Rank(V, x) = k
<1> DEFINE below(x) == {y \in V : y <= x}
<1>1. Cardinality(V) \in Nat
    BY FS_CardinalityType
<1>2. \A x \in V : /\ IsFiniteSet(below(x)) /\ Cardinality(below(x)) \in Nat
                   /\ Cardinality(below(x)) <= Cardinality(V)
    <2> SUFFICES ASSUME NEW x \in V
        PROVE  /\ IsFiniteSet(below(x)) /\ Cardinality(below(x)) \in Nat
               /\ Cardinality(below(x)) <= Cardinality(V)
        OBVIOUS
    <2>1. below(x) \in SUBSET V
        OBVIOUS
    <2> HIDE DEF below
    <2> QED BY <2>1, FS_Subset, FS_CardinalityType
<1>3. \A x \in V : Cardinality(below(x)) # 0
    <2> SUFFICES ASSUME NEW x \in V PROVE Cardinality(below(x)) # 0
        OBVIOUS
    <2>1. x \in below(x)
        OBVIOUS
    <2> HIDE DEF below
    <2> QED BY <1>2, <2>1, FS_EmptySet
<1>4. ASSUME NEW x \in V, NEW y \in V, x < y PROVE Cardinality(below(x)) < Cardinality(below(y))
    <2>1. below(x) \in SUBSET below(y) /\ y \in below(y) /\ y \notin below(x)
        <3>1. \A z \in V : z \in Int
            OBVIOUS
        <3>2. x \in Int /\ y \in Int /\ y <= y /\ ~(y <= x)
            BY <1>4, <3>1
        <3>3. \A z \in V : z <= x => z <= y
            BY <1>4, <3>1, <3>2
        <3> QED BY <3>2, <3>3
    <2> HIDE DEF below
    <2>2. Cardinality(below(x)) <= Cardinality(below(y))
        BY <1>2, <2>1, FS_Subset
    <2>3. Cardinality(below(x)) # Cardinality(below(y))
        BY <1>2, <2>1, FS_Subset
    <2> QED BY <1>2, <2>2, <2>3
<1>5. \A x \in V : Rank(V, x) = Cardinality(below(x))
    BY DEF Rank
<1> HIDE DEF below
<1>6. \A x \in V : Rank(V, x) \in 1 .. Cardinality(V)
    BY <1>1, <1>2, <1>3, <1>5
<1>7. \A x, y \in V : x < y => Rank(V, x) < Rank(V, y)
    BY <1>4, <1>5
<1> DEFINE rank == [x \in V |-> Rank(V, x)]
           to == 1 .. Cardinality(V)
<1>8. rank \in Injection(V, to)
    <2>1. rank \in [V -> to]
        BY <1>6
    <2>2. ASSUME NEW x \in V, NEW y \in V, x # y PROVE Rank(V, x) # Rank(V, y)
        <3>1. x < y \/ y < x
            BY <2>2
        <3>2. Rank(V, x) \in Int /\ Rank(V, y) \in Int
            BY <1>1, <1>6
        <3> QED BY <1>7, <3>1, <3>2
    <2> QED BY <2>1, <2>2 DEF Injection, IsInjective
<1>9. IsFiniteSet(to) /\ Cardinality(to) = Cardinality(V)
    <2>1. Cardinality(to) = IF 1 > Cardinality(V) THEN 0 ELSE Cardinality(V) - 1 + 1
        BY <1>1, FS_Interval
    <2> QED BY <1>1, <2>1, FS_Interval
<1>10. rank \in Surjection(V, to)
    <2> HIDE DEF rank, to
    <2> QED BY <1>8, <1>9, FS_Injection
<1>11. \A k \in 1 .. Cardinality(V) : \E x \in V : Rank(V, x) = k
    BY <1>10 DEF Surjection
<1> QED BY <1>1, <1>6, <1>7, <1>11

\* A finite set of numbers has one order, in which every member occurs.
LEMMA SortedSound ==
    ASSUME NEW V \in SUBSET Nat, IsFiniteSet(V)
    PROVE  /\ Sorted(V) \in [1 .. Cardinality(V) -> V]
           /\ \A i, j \in 1 .. Cardinality(V) : Sorted(V)[i] = Sorted(V)[j] => i = j
           /\ \A x \in V : \E i \in 1 .. Cardinality(V) : Sorted(V)[i] = x
<1> DEFINE of == [k \in 1 .. Cardinality(V) |-> CHOOSE x \in V : Rank(V, x) = k]
           to == 1 .. Cardinality(V)
<1>0. \A x \in V : x \in Int
    OBVIOUS
<1>1. /\ Cardinality(V) \in Nat
      /\ \A x \in V : Rank(V, x) \in to
      /\ \A x, y \in V : x < y => Rank(V, x) < Rank(V, y)
      /\ \A k \in to : \E x \in V : Rank(V, x) = k
    BY RankBijective
<1>2. \A k \in to : of[k] \in V /\ Rank(V, of[k]) = k
    BY <1>1
<1>3. of \in [to -> V]
    BY <1>2
<1>4. ASSUME NEW i \in to, NEW j \in to, i < j PROVE of[i] < of[j]
    <2>1. of[i] \in V /\ of[j] \in V /\ Rank(V, of[i]) = i /\ Rank(V, of[j]) = j
        BY <1>2
    <2> HIDE DEF of
    <2>2. of[i] \in Int /\ of[j] \in Int
        BY <1>0, <2>1
    <2>4. i \in Int /\ j \in Int
        OBVIOUS
    <2>3. of[i] # of[j] /\ ~(of[j] < of[i])
        BY <1>1, <1>4, <2>1, <2>2, <2>4
    <2> QED BY <2>2, <2>3
<1> HIDE DEF of
<1>5. \E s \in [to -> V] : \A i, j \in DOMAIN s : i < j => s[i] < s[j]
    BY <1>3, <1>4
<1>6. /\ Sorted(V) \in [to -> V]
      /\ \A i, j \in DOMAIN Sorted(V) : i < j => Sorted(V)[i] < Sorted(V)[j]
    BY <1>5 DEF Sorted
<1> DEFINE s == Sorted(V)
<1> HIDE DEF s
<1>7. s \in [to -> V] /\ \A i, j \in to : i < j => s[i] < s[j]
    BY <1>6 DEF s
<1>8. ASSUME NEW i \in to, NEW j \in to, i # j PROVE s[i] # s[j]
    <2>1. i \in Int /\ j \in Int /\ s[i] \in Int /\ s[j] \in Int
        <3>1. s[i] \in V /\ s[j] \in V
            BY <1>7
        <3>2. s[i] \in Int /\ s[j] \in Int
            BY <1>0, <3>1
        <3> QED BY <3>2
    <2>2. i < j \/ j < i
        BY <1>8, <2>1
    <2> QED BY <1>7, <2>1, <2>2
<1>9. s \in Injection(to, V)
    BY <1>7, <1>8 DEF Injection, IsInjective
<1>10. IsFiniteSet(to) /\ Cardinality(to) = Cardinality(V)
    <2>1. Cardinality(to) = IF 1 > Cardinality(V) THEN 0 ELSE Cardinality(V) - 1 + 1
        BY <1>1, FS_Interval
    <2> QED BY <1>1, <2>1, FS_Interval
<1>11. s \in Surjection(to, V)
    <2> HIDE DEF to
    <2> QED BY <1>9, <1>10, FS_Injection
<1>12. \A x \in V : \E i \in to : s[i] = x
    BY <1>11 DEF Surjection
<1> QED BY <1>7, <1>8, <1>12 DEF s

\* detectPort() finds a port if one is free.
LEMMA MinPort ==
    ASSUME NEW V \in SUBSET Ports, V # {}
    PROVE  Min(V) \in V
<1>1. V \in SUBSET Nat /\ IsFiniteSet(V)
    <2>1. IsFiniteSet(Ports)
        BY FS_Interval DEF Ports
    <2>2. IsFiniteSet(V)
        BY <2>1, FS_Subset
    <2> QED BY <2>2 DEF Ports
<1>2. Cardinality(V) \in Nat /\ Cardinality(V) # 0
    BY <1>1, FS_CardinalityType, FS_EmptySet
<1>3. PICK x \in V : Rank(V, x) = 1
    BY <1>1, <1>2, RankBijective
<1>4. \A y \in V : y < x => Rank(V, y) < 1 /\ Rank(V, y) \in 1 .. Cardinality(V)
    BY <1>1, <1>3, RankBijective
<1>5. \A y \in V : x <= y
    BY <1>1, <1>2, <1>4
<1> QED BY <1>5 DEF Min

-----------------------------------------------------------------------------
(* Turns.                                                                  *)

\* The server that index i chooses among the servers V.
Turn(V, i) == Sorted(V)[(i % Cardinality(V)) + 1]

LEMMA TurnSound ==
    ASSUME NEW V \in SUBSET Ports, V # {}
    PROVE  /\ Cardinality(V) \in 1 .. LastPort
           /\ \A i \in Nat : Turn(V, i) \in V
           /\ \A i \in Nat : \A j \in 1 .. Cardinality(V) - 1 : Turn(V, i) # Turn(V, i + j)
           /\ \A i \in Nat : V = {Turn(V, i + j) : j \in 0 .. Cardinality(V) - 1}
<1> DEFINE N == Cardinality(V)
<1>1. IsFiniteSet(Ports) /\ Cardinality(Ports) = LastPort
    BY FS_Interval DEF Ports
<1>2. IsFiniteSet(V) /\ N \in Nat /\ N <= LastPort /\ N # 0 /\ V \in SUBSET Nat
    <2>1. IsFiniteSet(V) /\ N <= LastPort
        BY <1>1, FS_Subset
    <2>2. N \in Nat /\ N # 0
        BY <2>1, FS_CardinalityType, FS_EmptySet
    <2> QED BY <2>1, <2>2 DEF Ports
<1>3. /\ Sorted(V) \in [1 .. N -> V]
      /\ \A i, j \in 1 .. N : Sorted(V)[i] = Sorted(V)[j] => i = j
      /\ \A x \in V : \E i \in 1 .. N : Sorted(V)[i] = x
    BY <1>2, SortedSound
<1>4. \A i \in Nat : Turn(V, i) = Sorted(V)[(i % N) + 1]
    BY DEF Turn
<1> HIDE DEF N
<1>5. \A i \in Nat : i % N \in 0 .. N - 1 /\ (i % N) + 1 \in 1 .. N
    BY <1>2, ModRange
<1>6. \A i \in Nat : Turn(V, i) \in V
    BY <1>3, <1>4, <1>5
<1>7. ASSUME NEW i \in Nat, NEW j \in 1 .. N - 1 PROVE Turn(V, i) # Turn(V, i + j)
    <2>1. i + j \in Nat /\ j \in Nat /\ 0 < j /\ j < N /\ N \in Nat \ {0}
        BY <1>2
    <2>2. i % N # (i + j) % N
        BY <2>1, ModInjective
    <2>3. i % N \in Int /\ (i + j) % N \in Int
        BY <1>5, <2>1
    <2>4. (i % N) + 1 # ((i + j) % N) + 1
        BY <2>2, <2>3
    <2> QED BY <1>3, <1>4, <1>5, <2>1, <2>4
<1>8. ASSUME NEW i \in Nat, NEW x \in V PROVE \E j \in 0 .. N - 1 : x = Turn(V, i + j)
    <2>1. PICK k \in 1 .. N : Sorted(V)[k] = x
        BY <1>3
    <2>2. k - 1 \in 0 .. N - 1 /\ N \in Nat \ {0}
        BY <1>2
    <2>3. PICK j \in 0 .. N - 1 : (i + j) % N = k - 1
        BY <2>2, ModSurjective
    <2>4. i + j \in Nat /\ ((i + j) % N) + 1 = k
        BY <1>2, <2>3
    <2> QED BY <1>4, <2>1, <2>4
<1>9. \A i \in Nat : \A j \in 0 .. N - 1 : i + j \in Nat
    BY <1>2
<1>10. \A i \in Nat : V = {Turn(V, i + j) : j \in 0 .. N - 1}
    BY <1>6, <1>8, <1>9
<1>11. N \in 1 .. LastPort
    BY <1>2
<1>12. \A i \in Nat : \A j \in 1 .. N - 1 : Turn(V, i) # Turn(V, i + j)
    BY <1>7
<1> QED BY <1>6, <1>10, <1>11, <1>12 DEF N

\* The bound on the index does not change the turns.
LEMMA CycleKeepsTurns ==
    ASSUME NEW V \in SUBSET Ports, V # {}, NEW i \in 0 .. Cycle - 1, NEW j \in Nat
    PROVE  Turn(V, ((i + 1) % Cycle) + j) = Turn(V, i + (j + 1))
<1> DEFINE N == Cardinality(V)
<1>1. N \in 1 .. LastPort
    BY TurnSound
<1>2. Cycle \in Nat \ {0} /\ Cycle % N = 0
    BY <1>1, CycleAssumption
<1> HIDE DEF N
<1>3. i + 1 \in Nat /\ i + 1 <= Cycle
    BY <1>2
<1>4. CASE i + 1 < Cycle
    <2>1. (i + 1) % Cycle = i + 1
        BY <1>2, <1>4
    <2>2. ((i + 1) % Cycle) + j = i + (j + 1)
        BY <1>2, <2>1
    <2> QED BY <2>2
<1>5. CASE i + 1 = Cycle
    <2>1. (i + 1) % Cycle = 0
        BY <1>2, <1>5
    <2>2. ((i + 1) % Cycle) + j = j /\ i + (j + 1) = Cycle + j
        BY <1>2, <1>5, <2>1
    <2>3. (Cycle + j) % N = j % N
        <3>1. N \in Nat \ {0} /\ Cycle \in Nat
            BY <1>1, <1>2
        <3>2. ASSUME NEW c \in Nat, c % N = 0 PROVE (c + j) % N = j % N
            BY <3>1, <3>2, ModAdd
        <3> QED BY <1>2, <3>1, <3>2
    <2> QED BY <2>2, <2>3 DEF Turn, N
<1> QED BY <1>2, <1>3, <1>4, <1>5

-----------------------------------------------------------------------------
(* The inductive invariant.                                                *)

NotYetUp(n) == phase[n] \in {"idle", "detect", "found", "retry", "failed"}

\* An application that is not up yet has no connector and no client.
Lifecycle ==
    /\ store = {n \in Nodes : phase[n] # "stopped"}
    /\ \A n \in Nodes :
          /\ phase[n] \in {"found", "up"} => port[n] \in Ports
          /\ NotYetUp(n) => connector[n] = "none" /\ start[n] # "ok" /\ picked[n] = {}

\* A client that has seen the version knows the servers, and a change that some
\* client has not seen is still to be told.
ClientsTold ==
    \A n \in Up :
        /\ seen[n] <= localVersion
        /\ seen[n] = localVersion => view[n] = AllServers(registered)
        /\ seen[n] # localVersion => delayed > 0

\* The servers that had no turn yet are those that the next indexes choose.
TurnsLeft(V, had, i) ==
    /\ had \subseteq V
    /\ \E k \in 1 .. Cardinality(V) : V \ had = {Turn(V, i + j) : j \in 0 .. k - 1}

Turns == \A n \in Up : view[n] # {} => TurnsLeft(view[n], picked[n], index[n])

IInv == TypeOK /\ ListedIsListening /\ StartedIsUp /\ Lifecycle /\ ClientsTold /\ Turns

LEMMA PickedIsTurn == \A n \in Nodes : Picked(n) = Turn(view[n], index[n])
BY DEF Picked, ServersByType, Turn, Sorted

\* A new turn begins with all servers.
LEMMA NewTurn ==
    ASSUME NEW V \in SUBSET Ports, V # {}, NEW i \in Nat
    PROVE  TurnsLeft(V, {}, i)
<1>1. Cardinality(V) \in 1 .. LastPort /\ V = {Turn(V, i + j) : j \in 0 .. Cardinality(V) - 1}
    BY TurnSound
<1>2. Cardinality(V) \in 1 .. Cardinality(V)
    BY <1>1
<1>3. V \ {} = V
    OBVIOUS
<1> QED BY <1>1, <1>2, <1>3 DEF TurnsLeft

\* A choice is one that had no turn, and leaves the others.
LEMMA NextTurn ==
    ASSUME NEW V \in SUBSET Ports, V # {}, NEW had, NEW i \in 0 .. Cycle - 1, TurnsLeft(V, had, i)
    PROVE  /\ Turn(V, i) \in V \ had
           /\ \/ had \union {Turn(V, i)} = V
              \/ TurnsLeft(V, had \union {Turn(V, i)}, (i + 1) % Cycle)
<1>1. Cycle \in Nat \ {0} /\ i \in Nat /\ i + 0 = i /\ (i + 1) % Cycle \in Nat
    <2>1. Cycle \in Nat \ {0} /\ i \in Nat
        BY CycleAssumption
    <2> QED BY <2>1, ModRange
<1>2. PICK k \in 1 .. Cardinality(V) : V \ had = {Turn(V, i + j) : j \in 0 .. k - 1}
    BY DEF TurnsLeft
<1>3. Cardinality(V) \in Nat /\ k \in Nat /\ 0 \in 0 .. k - 1
    BY TurnSound
<1>4. Turn(V, i) \in V \ had
    BY <1>1, <1>2, <1>3
<1>5. \A j \in 1 .. k - 1 : Turn(V, i) # Turn(V, i + j)
    BY <1>1, <1>3, TurnSound
<1>6. V \ (had \union {Turn(V, i)}) = {Turn(V, i + j) : j \in 1 .. k - 1}
    <2>1. \A j \in 0 .. k - 1 : j = 0 \/ j \in 1 .. k - 1
        BY <1>3
    <2>2. \A j \in 1 .. k - 1 : j \in 0 .. k - 1
        BY <1>3
    <2> QED BY <1>1, <1>2, <1>5, <2>1, <2>2
<1>7. CASE k = 1
    <2>1. V \ (had \union {Turn(V, i)}) = {}
        BY <1>6, <1>7
    <2> QED BY <1>4, <2>1 DEF TurnsLeft
<1>8. CASE k # 1
    <2>1. k - 1 \in 1 .. Cardinality(V)
        BY <1>3, <1>8
    <2>2. \A j \in Nat : Turn(V, ((i + 1) % Cycle) + j) = Turn(V, i + (j + 1))
        BY CycleKeepsTurns
    <2>3. \A j \in 1 .. k - 1 : j - 1 \in 0 .. (k - 1) - 1 /\ j - 1 \in Nat /\ (j - 1) + 1 = j
        BY <1>3
    <2>4. \A j \in 0 .. (k - 1) - 1 : j + 1 \in 1 .. k - 1 /\ j \in Nat
        BY <1>3
    <2>5. {Turn(V, i + j) : j \in 1 .. k - 1} = {Turn(V, ((i + 1) % Cycle) + j) : j \in 0 .. (k - 1) - 1}
        <3>1. \A j \in 1 .. k - 1 : Turn(V, i + j) = Turn(V, ((i + 1) % Cycle) + (j - 1))
            BY <2>2, <2>3
        <3>2. \A j \in 0 .. (k - 1) - 1 : Turn(V, ((i + 1) % Cycle) + j) = Turn(V, i + (j + 1))
            BY <2>2, <2>4
        <3> QED BY <2>3, <2>4, <3>1, <3>2
    <2> QED BY <1>4, <1>6, <2>1, <2>5 DEF TurnsLeft
<1> QED BY <1>7, <1>8

-----------------------------------------------------------------------------
(* The search for a port.                                                  *)

SearchStep(n) ==
    \/ Start(n) \/ Detected(n) \/ Retry(n)
    \/ phase[n] = "found" /\ Failed(n)

\* No step of the search touches the registry, a client or a connector.
LEMMA SearchKeeps ==
    ASSUME IInv, NEW n \in Nodes, SearchStep(n)
    PROVE  /\ autoport' = autoport /\ connector' = connector
           /\ store' = store /\ registered' = registered /\ localVersion' = localVersion /\ delayed' = delayed
           /\ seen' = seen /\ view' = view /\ index' = index /\ picked' = picked
           /\ phase[n] \in {"idle", "detect", "found", "retry"}
           /\ \E p \in {"detect", "found", "retry", "failed"} :
                 /\ phase' = [phase EXCEPT ![n] = p]
                 /\ p = "found" => port'[n] \in Ports
           /\ \E o \in {"pending", "error", start[n]} : start' = [start EXCEPT ![n] = o]
           /\ \E q \in Ports \union {port[n]} : port' = [port EXCEPT ![n] = q]
           /\ left' \in [Nodes -> 0 .. Retries]
<1>1. /\ phase \in [Nodes -> {"idle", "detect", "found", "retry", "up", "failed", "stopped"}]
      /\ start \in [Nodes -> {"none", "pending", "ok", "error"}]
      /\ port \in [Nodes -> 0 .. LastPort] /\ left \in [Nodes -> 0 .. Retries]
    BY DEF IInv, TypeOK
<1>2. /\ phase = [phase EXCEPT ![n] = phase[n]] /\ start = [start EXCEPT ![n] = start[n]]
      /\ port = [port EXCEPT ![n] = port[n]]
    BY <1>1
<1>3. CASE Start(n)
    BY <1>1, <1>2, <1>3 DEF Start, Settle, registry, clients, routing
<1>4. CASE Retry(n)
    BY <1>1, <1>2, <1>4 DEF Retry, registry, clients, routing, application
<1>5. CASE Failed(n) /\ phase[n] \in {"detect", "found"}
    <2>1. left' \in [Nodes -> 0 .. Retries]
        BY <1>1, <1>5 DEF Failed
    <2>2. /\ \E p \in {"retry", "failed"} : phase' = [phase EXCEPT ![n] = p]
          /\ \E o \in {"error", start[n]} : start' = [start EXCEPT ![n] = o]
        BY <1>2, <1>5 DEF Failed, Settle
    <2>3. /\ autoport' = autoport /\ connector' = connector /\ port' = port
          /\ store' = store /\ registered' = registered /\ localVersion' = localVersion /\ delayed' = delayed
          /\ seen' = seen /\ view' = view /\ index' = index /\ picked' = picked
        BY <1>5 DEF Failed, registry, clients, routing
    <2> QED BY <1>2, <1>5, <2>1, <2>2, <2>3
<1>6. CASE Detected(n) /\ ~Failed(n)
    <2>1. /\ Free # {} /\ port' = [port EXCEPT ![n] = Min(Free)]
          /\ phase[n] = "detect" /\ phase' = [phase EXCEPT ![n] = "found"]
          /\ UNCHANGED <<autoport, left, application, registry, clients, routing>>
        BY <1>6 DEF Detected
    <2>2. Min(Free) \in Ports
        BY <2>1, MinPort DEF Free
    <2>3. port'[n] \in Ports
        BY <1>1, <2>1, <2>2
    <2> QED BY <1>1, <1>2, <2>1, <2>2, <2>3 DEF registry, clients, routing, application
<1> QED BY <1>3, <1>4, <1>5, <1>6 DEF SearchStep, Detected

LEMMA SearchSound ==
    ASSUME IInv, NEW n \in Nodes, SearchStep(n)
    PROVE  IInv'
<1>1. /\ phase \in [Nodes -> {"idle", "detect", "found", "retry", "up", "failed", "stopped"}]
      /\ start \in [Nodes -> {"none", "pending", "ok", "error"}]
      /\ port \in [Nodes -> 0 .. LastPort]
    BY DEF IInv, TypeOK
<1>2. PICK p \in {"detect", "found", "retry", "failed"} :
          /\ phase' = [phase EXCEPT ![n] = p]
          /\ p = "found" => port'[n] \in Ports
    BY SearchKeeps
<1>3. PICK o \in {"pending", "error", start[n]} : start' = [start EXCEPT ![n] = o]
    BY SearchKeeps
<1>4. PICK q \in Ports \union {port[n]} : port' = [port EXCEPT ![n] = q]
    BY SearchKeeps
<1>5. /\ autoport' = autoport /\ connector' = connector
      /\ store' = store /\ registered' = registered /\ localVersion' = localVersion /\ delayed' = delayed
      /\ seen' = seen /\ view' = view /\ index' = index /\ picked' = picked
      /\ phase[n] \in {"idle", "detect", "found", "retry"} /\ left' \in [Nodes -> 0 .. Retries]
    BY SearchKeeps
<1>6. Up' = Up /\ n \notin Up
    BY <1>1, <1>2, <1>5 DEF Up
<1>7. \A m \in Nodes \ {n} : phase'[m] = phase[m] /\ port'[m] = port[m] /\ start'[m] = start[m]
    BY <1>1, <1>2, <1>3, <1>4
<1>8. phase'[n] = p /\ start'[n] = o /\ o # "ok"
    <2>1. start[n] # "ok"
        BY <1>5 DEF IInv, Lifecycle, NotYetUp
    <2> QED BY <1>1, <1>2, <1>3, <2>1
<1>9. TypeOK'
    <2>1. /\ phase' \in [Nodes -> {"idle", "detect", "found", "retry", "up", "failed", "stopped"}]
          /\ start' \in [Nodes -> {"none", "pending", "ok", "error"}]
        BY <1>1, <1>2, <1>3
    <2>2. port' \in [Nodes -> 0 .. LastPort]
        BY <1>1, <1>4 DEF Ports
    <2> QED BY <1>5, <2>1, <2>2 DEF IInv, TypeOK
<1>10. \A m \in Up : port'[m] = port[m]
    BY <1>6, <1>7 DEF Up
<1>11. AllServers(registered)' = AllServers(registered)
    BY <1>5, <1>10 DEF IInv, ListedIsListening, AllServers
<1>12. ListedIsListening'
    BY <1>5, <1>6, <1>10 DEF IInv, ListedIsListening
<1>13. connector[n] = "none" /\ picked[n] = {}
    BY <1>5 DEF IInv, Lifecycle, NotYetUp
<1>14. StartedIsUp'
    BY <1>5, <1>6, <1>7, <1>8, <1>13 DEF IInv, StartedIsUp
<1>15. Lifecycle'
    <2>1. store = {m \in Nodes : phase'[m] # "stopped"}
        BY <1>5, <1>7, <1>8 DEF IInv, Lifecycle
    <2>2. \A m \in Nodes : phase'[m] \in {"found", "up"} => port'[m] \in Ports
        BY <1>2, <1>7, <1>8 DEF IInv, Lifecycle
    <2>3. \A m \in Nodes : NotYetUp(m)' => connector'[m] = "none" /\ start'[m] # "ok" /\ picked'[m] = {}
        BY <1>5, <1>7, <1>8, <1>13 DEF IInv, Lifecycle, NotYetUp
    <2> QED BY <1>5, <2>1, <2>2, <2>3 DEF Lifecycle
<1>16. ClientsTold' /\ Turns'
    BY <1>5, <1>6, <1>11 DEF IInv, ClientsTold, Turns
<1> QED BY <1>9, <1>12, <1>14, <1>15, <1>16 DEF IInv

-----------------------------------------------------------------------------
(* The registry and the route.                                             *)

\* What a registry lists are ports.
LEMMA ListedArePorts ==
    ASSUME Lifecycle, Up \subseteq Nodes
    PROVE  AllServers(Up) \in SUBSET Ports
BY DEF AllServers, Lifecycle, Up

LEMMA EmitSound ==
    ASSUME IInv, Emit
    PROVE  IInv'
<1> DEFINE told == {n \in Up : seen[n] # localVersion}
<1>1. /\ delayed \in Nat /\ localVersion \in Nat /\ seen \in [Nodes -> Nat] /\ view \in [Nodes -> SUBSET Ports]
      /\ picked \in [Nodes -> SUBSET Ports] /\ index \in [Nodes -> 0 .. Cycle - 1]
      /\ registered = Up
    BY DEF IInv, TypeOK, ListedIsListening
<1>2. /\ delayed > 0 /\ delayed' = delayed - 1
      /\ seen' = [n \in Nodes |-> IF n \in told THEN localVersion ELSE seen[n]]
      /\ view' = [n \in Nodes |-> IF n \in told THEN AllServers(registered) ELSE view[n]]
      /\ picked' = [n \in Nodes |-> IF n \in told THEN {} ELSE picked[n]]
    BY DEF Emit
<1>3. /\ autoport' = autoport /\ phase' = phase /\ port' = port /\ left' = left /\ start' = start
      /\ connector' = connector /\ store' = store /\ registered' = registered /\ localVersion' = localVersion
      /\ index' = index
    BY DEF Emit, starting, application
<1>4. Up' = Up /\ Up \subseteq Nodes /\ AllServers(registered)' = AllServers(registered)
    BY <1>3 DEF Up, AllServers
<1>5. AllServers(registered) \in SUBSET Ports
    BY <1>1, <1>4, ListedArePorts DEF IInv
<1>6. TypeOK'
    <2>1. delayed' \in Nat /\ seen' \in [Nodes -> Nat]
        BY <1>1, <1>2
    <2>2. view' \in [Nodes -> SUBSET Ports] /\ picked' \in [Nodes -> SUBSET Ports]
        BY <1>1, <1>2, <1>5
    <2> QED BY <1>3, <2>1, <2>2 DEF IInv, TypeOK
<1>7. ListedIsListening' /\ StartedIsUp'
    BY <1>3, <1>4 DEF IInv, ListedIsListening, StartedIsUp
<1>8. Lifecycle'
    <2>1. \A n \in Nodes : picked[n] = {} => picked'[n] = {}
        BY <1>2
    <2> QED BY <1>3, <2>1 DEF IInv, Lifecycle, NotYetUp
<1>9. ClientsTold'
    <2>1. \A n \in Up : seen'[n] = localVersion /\ view'[n] = AllServers(registered)
        BY <1>2, <1>4 DEF IInv, ClientsTold
    <2> QED BY <1>1, <1>3, <1>4, <2>1 DEF ClientsTold
<1>10. Turns'
    <2> SUFFICES ASSUME NEW n \in Up, view'[n] # {}
        PROVE  TurnsLeft(view'[n], picked'[n], index[n])
        BY <1>3, <1>4 DEF Turns
    <2>1. CASE n \in told
        <3>1. view'[n] \in SUBSET Ports /\ picked'[n] = {} /\ index[n] \in Nat
            BY <1>1, <1>2, <1>4, <1>5, <2>1, CycleAssumption
        <3> QED BY <3>1, NewTurn
    <2>2. CASE n \notin told
        <3>1. view'[n] = view[n] /\ picked'[n] = picked[n]
            BY <1>2, <1>4, <2>2
        <3> QED BY <3>1 DEF IInv, Turns
    <2> QED BY <2>1, <2>2
<1> QED BY <1>6, <1>7, <1>8, <1>9, <1>10 DEF IInv

LEMMA UpSound ==
    ASSUME IInv, NEW n \in Nodes, phase[n] = "found", port[n] \in Free,
           phase' = [phase EXCEPT ![n] = "up"], RegisterLocally(n), ComeUp(n),
           autoport' = autoport, port' = port, left' = left, index' = index, picked' = picked
    PROVE  IInv'
<1>1. /\ phase \in [Nodes -> {"idle", "detect", "found", "retry", "up", "failed", "stopped"}]
      /\ start \in [Nodes -> {"none", "pending", "ok", "error"}]
      /\ connector \in [Nodes -> {"none", "listening", "failed", "closed"}]
      /\ delayed \in Nat /\ localVersion \in Nat /\ seen \in [Nodes -> Nat] /\ view \in [Nodes -> SUBSET Ports]
      /\ index \in [Nodes -> 0 .. Cycle - 1]
      /\ registered = Up /\ store \subseteq Nodes
    BY DEF IInv, TypeOK, ListedIsListening
<1>2. Up' = Up \union {n} /\ n \notin Up /\ Up \subseteq Nodes
    BY <1>1 DEF Up
<1>3. \A m \in Up : port[m] # port[n]
    BY DEF Free
<1>4. /\ registered' = Up \union {n} /\ localVersion' = localVersion + 1 /\ delayed' = delayed + 1 /\ store' = store
    BY <1>1, <1>3 DEF RegisterLocally, Changed
<1>5. seen' = [seen EXCEPT ![n] = localVersion'] /\ view' = [view EXCEPT ![n] = AllServers(registered')]
    BY DEF ComeUp, StartClient
<1>6. /\ start' = [start EXCEPT ![n] = start'[n]] /\ connector' = [connector EXCEPT ![n] = connector'[n]]
      /\ \/ start'[n] = "ok" /\ connector'[n] = connector[n]
         \/ start'[n] = "ok" /\ connector'[n] = "listening"
         \/ start'[n] = "error" /\ connector'[n] = "failed"
    BY <1>1 DEF ComeUp, StartConnector, Settle
<1>7. connector[n] = "none" /\ picked[n] = {}
    BY DEF IInv, Lifecycle, NotYetUp
<1>8. \A m \in Nodes \ {n} : phase'[m] = phase[m] /\ start'[m] = start[m] /\ connector'[m] = connector[m]
    BY <1>1, <1>6
<1>9. phase'[n] = "up"
    BY <1>1
<1>10. Lifecycle'
    <2>1. store = {m \in Nodes : phase'[m] # "stopped"}
        BY <1>8, <1>9 DEF IInv, Lifecycle
    <2>2. \A m \in Nodes : phase'[m] \in {"found", "up"} => port'[m] \in Ports
        BY <1>8 DEF IInv, Lifecycle
    <2>3. \A m \in Nodes : NotYetUp(m)' => connector'[m] = "none" /\ start'[m] # "ok" /\ picked'[m] = {}
        BY <1>8, <1>9 DEF IInv, Lifecycle, NotYetUp
    <2> QED BY <1>4, <2>1, <2>2, <2>3 DEF Lifecycle
<1>11. AllServers(registered') \in SUBSET Ports
    <2>1. \A m \in registered' : port[m] \in Ports
        BY <1>2, <1>4 DEF IInv, Lifecycle, Up
    <2> QED BY <2>1 DEF AllServers
<1>12. TypeOK'
    <2>1. /\ phase' \in [Nodes -> {"idle", "detect", "found", "retry", "up", "failed", "stopped"}]
          /\ start' \in [Nodes -> {"none", "pending", "ok", "error"}]
          /\ connector' \in [Nodes -> {"none", "listening", "failed", "closed"}]
        BY <1>1, <1>6, <1>7
    <2>2. /\ localVersion' \in Nat /\ delayed' \in Nat /\ seen' \in [Nodes -> Nat]
        BY <1>1, <1>4, <1>5
    <2>3. view' \in [Nodes -> SUBSET Ports]
        BY <1>1, <1>5, <1>11
    <2>4. registered' \subseteq store'
        BY <1>1, <1>2, <1>4 DEF IInv, Lifecycle, Up
    <2> QED BY <1>4, <2>1, <2>2, <2>3, <2>4 DEF IInv, TypeOK
<1>13. ListedIsListening'
    BY <1>2, <1>3, <1>4 DEF IInv, ListedIsListening
<1>14. StartedIsUp'
    BY <1>2, <1>6, <1>7, <1>8, <1>9 DEF IInv, StartedIsUp
<1>15. ClientsTold'
    <2> SUFFICES ASSUME NEW m \in Up'
        PROVE  /\ seen'[m] <= localVersion'
               /\ seen'[m] = localVersion' => view'[m] = AllServers(registered)'
               /\ seen'[m] # localVersion' => delayed' > 0
        BY DEF ClientsTold
    <2>1. AllServers(registered)' = AllServers(registered')
        BY DEF AllServers
    <2>2. CASE m = n
        BY <1>1, <1>4, <1>5, <2>1, <2>2
    <2>3. CASE m # n
        <3>1. m \in Up /\ m \in Nodes /\ seen'[m] = seen[m] /\ seen[m] \in Nat /\ seen[m] <= localVersion
            BY <1>1, <1>2, <1>5, <2>3 DEF IInv, ClientsTold
        <3> QED BY <1>1, <1>4, <3>1
    <2> QED BY <2>2, <2>3
<1>16. Turns'
    <2> SUFFICES ASSUME NEW m \in Up', view'[m] # {}
        PROVE  TurnsLeft(view'[m], picked[m], index[m])
        BY DEF Turns
    <2>1. CASE m = n
        <3>1. view'[m] \in SUBSET Ports /\ picked[m] = {} /\ index[m] \in Nat
            BY <1>1, <1>5, <1>7, <1>11, <2>1, CycleAssumption
        <3> QED BY <3>1, NewTurn
    <2>2. CASE m # n
        <3>1. m \in Up /\ view'[m] = view[m]
            BY <1>1, <1>2, <1>5, <2>2
        <3> QED BY <3>1 DEF IInv, Turns
    <2> QED BY <2>1, <2>2
<1> QED BY <1>10, <1>12, <1>13, <1>14, <1>15, <1>16 DEF IInv

LEMMA StopSound ==
    ASSUME IInv, NEW n \in Nodes, Stop(n)
    PROVE  IInv'
<1>1. /\ phase \in [Nodes -> {"idle", "detect", "found", "retry", "up", "failed", "stopped"}]
      /\ connector \in [Nodes -> {"none", "listening", "failed", "closed"}]
      /\ delayed \in Nat /\ localVersion \in Nat /\ seen \in [Nodes -> Nat]
      /\ registered = Up /\ store \subseteq Nodes
    BY DEF IInv, TypeOK, ListedIsListening
<1>2. /\ phase[n] = "up" /\ phase' = [phase EXCEPT ![n] = "stopped"]
      /\ store' = store \ {n} /\ registered' = registered \ {n}
      /\ delayed' = delayed + 1 /\ localVersion' = (IF store' = {} THEN 0 ELSE localVersion) + 1
      /\ connector' = [connector EXCEPT ![n] = IF @ = "listening" THEN "closed" ELSE @]
    BY DEF Stop, StopServer, Leave, Changed, CloseConnector
<1>3. /\ autoport' = autoport /\ port' = port /\ left' = left /\ start' = start
      /\ seen' = seen /\ view' = view /\ index' = index /\ picked' = picked
    BY DEF Stop, clients, routing
<1>4. Up' = Up \ {n} /\ Up \subseteq Nodes
    BY <1>1, <1>2 DEF Up
<1>5. \A m \in Nodes \ {n} : phase'[m] = phase[m] /\ connector'[m] = connector[m]
    BY <1>1, <1>2
<1>6. phase'[n] = "stopped" /\ connector'[n] # "listening" /\ (connector'[n] = "failed" => connector[n] = "failed")
    BY <1>1, <1>2
<1>7. Lifecycle'
    <2>1. store' = {m \in Nodes : phase'[m] # "stopped"}
        BY <1>2, <1>5, <1>6 DEF IInv, Lifecycle
    <2>2. \A m \in Nodes : phase'[m] \in {"found", "up"} => port'[m] \in Ports
        BY <1>3, <1>5, <1>6 DEF IInv, Lifecycle
    <2>3. \A m \in Nodes : NotYetUp(m)' => connector'[m] = "none" /\ start'[m] # "ok" /\ picked'[m] = {}
        BY <1>3, <1>5, <1>6 DEF IInv, Lifecycle, NotYetUp
    <2> QED BY <2>1, <2>2, <2>3 DEF Lifecycle
<1>8. TypeOK'
    <2>1. /\ phase' \in [Nodes -> {"idle", "detect", "found", "retry", "up", "failed", "stopped"}]
          /\ connector' \in [Nodes -> {"none", "listening", "failed", "closed"}]
        BY <1>1, <1>2
    <2>2. localVersion' \in Nat /\ delayed' \in Nat
        BY <1>1, <1>2
    <2>3. store' \subseteq Nodes /\ registered' \subseteq store'
        BY <1>2 DEF IInv, TypeOK
    <2> QED BY <1>3, <2>1, <2>2, <2>3 DEF IInv, TypeOK
<1>9. ListedIsListening'
    BY <1>1, <1>2, <1>3, <1>4 DEF IInv, ListedIsListening
<1>10. StartedIsUp'
    BY <1>2, <1>3, <1>4, <1>5, <1>6 DEF IInv, StartedIsUp
<1>11. ClientsTold'
    <2> SUFFICES ASSUME NEW m \in Up'
        PROVE  seen[m] < localVersion' /\ delayed' > 0
        BY <1>1, <1>2, <1>3, <1>4 DEF ClientsTold
    <2>1. m \in Up /\ m \in Nodes /\ m \in store'
        BY <1>4, <1>7 DEF Lifecycle, Up
    <2>2. localVersion' = localVersion + 1 /\ delayed' = delayed + 1
        BY <1>2, <2>1
    <2>3. seen[m] \in Nat /\ seen[m] <= localVersion
        BY <1>1, <2>1 DEF IInv, ClientsTold
    <2> QED BY <1>1, <2>2, <2>3
<1>12. Turns'
    BY <1>3, <1>4 DEF IInv, Turns
<1> QED BY <1>7, <1>8, <1>9, <1>10, <1>11, <1>12 DEF IInv

LEMMA PickSound ==
    ASSUME IInv, NEW n \in Pickers, Pick(n)
    PROVE  IInv'
<1> DEFINE t == Picked(n)
<1>1. /\ view \in [Nodes -> SUBSET Ports] /\ picked \in [Nodes -> SUBSET Ports]
      /\ index \in [Nodes -> 0 .. Cycle - 1] /\ n \in Nodes
    BY DEF IInv, TypeOK
<1>2. /\ n \in Up /\ view[n] # {}
      /\ index' = [index EXCEPT ![n] = (@ + 1) % Cycle]
      /\ picked' = [picked EXCEPT ![n] = IF @ \union {t} = view[n] THEN {} ELSE @ \union {t}]
    BY DEF Pick
<1>3. /\ autoport' = autoport /\ phase' = phase /\ port' = port /\ left' = left /\ start' = start
      /\ connector' = connector /\ store' = store /\ registered' = registered /\ localVersion' = localVersion
      /\ delayed' = delayed /\ seen' = seen /\ view' = view
    BY DEF Pick, starting, application, registry, clients
<1>4. t = Turn(view[n], index[n])
    BY <1>1, PickedIsTurn
<1> HIDE DEF t
<1>5. Up' = Up
    BY <1>3 DEF Up
<1>6. AllServers(registered)' = AllServers(registered)
    BY <1>3 DEF AllServers
<1>7. /\ t \in view[n] \ picked[n]
      /\ \/ picked[n] \union {t} = view[n]
         \/ TurnsLeft(view[n], picked[n] \union {t}, (index[n] + 1) % Cycle)
    <2>1. /\ view[n] \in SUBSET Ports /\ index[n] \in 0 .. Cycle - 1
          /\ TurnsLeft(view[n], picked[n], index[n])
        BY <1>1, <1>2 DEF IInv, Turns
    <2> QED BY <1>2, <1>4, <2>1, NextTurn
<1>8. (index[n] + 1) % Cycle \in 0 .. Cycle - 1 /\ (index[n] + 1) % Cycle \in Nat
    <2>1. index[n] + 1 \in Nat /\ Cycle \in Nat \ {0}
        BY <1>1, CycleAssumption
    <2> QED BY <2>1, ModRange
<1>9. TypeOK'
    <2>1. index' \in [Nodes -> 0 .. Cycle - 1]
        BY <1>1, <1>2, <1>8
    <2>2. picked' \in [Nodes -> SUBSET Ports]
        BY <1>1, <1>2, <1>7
    <2> QED BY <1>3, <2>1, <2>2 DEF IInv, TypeOK
<1>10. ListedIsListening' /\ StartedIsUp' /\ ClientsTold'
    BY <1>3, <1>5, <1>6 DEF IInv, ListedIsListening, StartedIsUp, ClientsTold
<1>11. Lifecycle'
    <2>1. \A m \in Nodes : NotYetUp(m) => picked'[m] = {}
        BY <1>1, <1>2 DEF IInv, Lifecycle, NotYetUp, Up
    <2> QED BY <1>3, <2>1 DEF IInv, Lifecycle, NotYetUp
<1>12. Turns'
    <2> SUFFICES ASSUME NEW m \in Up, view[m] # {}
        PROVE  TurnsLeft(view[m], picked'[m], index'[m])
        BY <1>3, <1>5 DEF Turns
    <2>1. CASE m = n /\ picked[n] \union {t} = view[n]
        <3>1. picked'[n] = {} /\ index'[n] = (index[n] + 1) % Cycle /\ view[n] \in SUBSET Ports
            BY <1>1, <1>2, <2>1
        <3> QED BY <1>2, <1>8, <2>1, <3>1, NewTurn
    <2>2. CASE m = n /\ picked[n] \union {t} # view[n]
        <3>1. picked'[n] = picked[n] \union {t} /\ index'[n] = (index[n] + 1) % Cycle
            BY <1>1, <1>2, <2>2
        <3> QED BY <1>7, <2>2, <3>1
    <2>3. CASE m # n
        <3>1. picked'[m] = picked[m] /\ index'[m] = index[m]
            BY <1>1, <1>2, <2>3 DEF Up
        <3> QED BY <3>1 DEF IInv, Turns
    <2> QED BY <2>1, <2>2, <2>3
<1> QED BY <1>9, <1>10, <1>11, <1>12 DEF IInv

-----------------------------------------------------------------------------
(* The invariant.                                                          *)

LEMMA InitSound == Init => IInv
<1> SUFFICES ASSUME Init PROVE IInv
    OBVIOUS
<1>1. Up = {}
    BY DEF Init, Up
<1>2. TypeOK
    <2>1. 0 \in 0 .. Cycle - 1 /\ 0 \in 0 .. LastPort /\ Retries \in 0 .. Retries
        BY CycleAssumption
    <2> QED BY <2>1 DEF Init, TypeOK
<1>3. ListedIsListening /\ ClientsTold /\ Turns
    BY <1>1 DEF Init, ListedIsListening, ClientsTold, Turns
<1>4. StartedIsUp /\ Lifecycle
    BY DEF Init, StartedIsUp, Lifecycle, NotYetUp
<1> QED BY <1>2, <1>3, <1>4 DEF IInv

LEMMA StutterSound ==
    ASSUME IInv, UNCHANGED vars
    PROVE  IInv'
<1>1. /\ autoport' = autoport /\ phase' = phase /\ port' = port /\ left' = left /\ start' = start
      /\ connector' = connector /\ store' = store /\ registered' = registered /\ localVersion' = localVersion
      /\ delayed' = delayed /\ seen' = seen /\ view' = view /\ index' = index /\ picked' = picked
    BY DEF vars, starting, application, registry, clients, routing
<1>2. TypeOK'
    BY <1>1 DEF IInv, TypeOK
<1>3. ListedIsListening' /\ StartedIsUp' /\ Lifecycle' /\ ClientsTold' /\ Turns'
    BY <1>1 DEF IInv, ListedIsListening, StartedIsUp, Lifecycle, NotYetUp, ClientsTold, Turns, Up, AllServers
<1> QED BY <1>2, <1>3 DEF IInv

LEMMA StepSound == IInv /\ [Next]_vars => IInv'
<1> SUFFICES ASSUME IInv, [Next]_vars PROVE IInv'
    OBVIOUS
<1>1. CASE Emit
    BY <1>1, EmitSound
<1>2. ASSUME NEW n \in Nodes, SearchStep(n) PROVE IInv'
    BY <1>2, SearchSound
<1>3. ASSUME NEW n \in Nodes, Listen(n) PROVE IInv'
    <2>1. CASE Failed(n)
        BY <1>3, <2>1, SearchSound DEF Listen, SearchStep
    <2>2. CASE ~Failed(n)
        <3>1. /\ phase[n] = "found" /\ port[n] \in Free /\ phase' = [phase EXCEPT ![n] = "up"]
              /\ RegisterLocally(n) /\ ComeUp(n)
              /\ autoport' = autoport /\ port' = port /\ left' = left /\ index' = index /\ picked' = picked
            BY <1>3, <2>2 DEF Listen, routing
        <3> QED BY <3>1, UpSound
    <2> QED BY <2>1, <2>2
<1>4. ASSUME NEW n \in Nodes, Stop(n) PROVE IInv'
    BY <1>4, StopSound
<1>5. ASSUME NEW n \in Pickers, Pick(n) PROVE IInv'
    BY <1>5, PickSound
<1>6. CASE UNCHANGED vars
    BY <1>6, StutterSound
<1> QED BY <1>1, <1>2, <1>3, <1>4, <1>5, <1>6 DEF Next, SearchStep

\* The invariant holds in every state of the process.  (localRegistry.ts,
\* server.ts, application.ts, router.ts)
THEOREM Invariance == Spec => []IInv
BY InitSound, StepSound, PTL DEF Spec

\* The registry lists the servers that listen, on ports of their own; a client
\* that no change waits for knows exactly those; and an application counts as
\* started only with its server listed and its connector up.  (localRegistry.ts,
\* server.ts, application.ts)
THEOREM RegistryCorrect == Spec => []RegistrySound
<1>1. ASSUME IInv PROVE ClientsCatchUp
    <2> SUFFICES ASSUME delayed = 0, NEW n \in Up PROVE view[n] = AllServers(registered)
        BY DEF ClientsCatchUp
    <2> QED BY <1>1 DEF IInv, ClientsTold
<1>2. IInv => RegistrySound
    BY <1>1 DEF IInv, RegistrySound
<1> QED BY <1>2, Invariance, PTL

\* Round robin passes over no server, although servers come and go and the
\* index is kept across changes of the list.  (router.ts rrRoute)
THEOREM TurnsAreFair == Spec => []FairTurns
<1>1. IInv => FairTurns
    <2> SUFFICES ASSUME IInv, NEW n \in Up, view[n] # {} PROVE Picked(n) \notin picked[n]
        BY DEF FairTurns
    <2>1. /\ n \in Nodes /\ view[n] \in SUBSET Ports /\ index[n] \in 0 .. Cycle - 1
          /\ TurnsLeft(view[n], picked[n], index[n])
        BY DEF IInv, TypeOK, Turns, Up
    <2>2. Turn(view[n], index[n]) \in view[n] \ picked[n]
        BY <2>1, NextTurn
    <2> QED BY <2>1, <2>2, PickedIsTurn
<1> QED BY <1>1, Invariance, PTL

-----------------------------------------------------------------------------
(* The remote directory.                                                   *)

USE NoneAssumption, TriesAssumption

-----------------------------------------------------------------------------
(* The inductive invariant.                                                *)

\* An operation past lock() finds the lock key there until its unlock().
HolderLocks == \A w \in Ops : pc[w] \in Held => locked

\* A directory that is not there has version 0.
EmptyIsAbsent == files = EmptyDir => version = 0

\* A registry is never ahead of the directory it has read.
SeenBehind ==
    \A r \in Regs :
        /\ seenEpoch[r] <= epoch
        /\ seenEpoch[r] = epoch => seenVersion[r] <= version

\* What holds unless operations race.
LockHolds == OneWriter /\ HolderLocks /\ WritesFresh

DirInv ==
    /\ DTypeOK /\ (~raced => LockHolds)
    /\ EmptyIsAbsent /\ SeenBehind /\ VersionIdentifiesFiles

-----------------------------------------------------------------------------
(* Lemmas about the operators.                                             *)

\* Editing a directory yields a directory.
LEMMA EditedType ==
    ASSUME NEW dir \in Dirs, NEW S \in SUBSET Names, NEW i \in Infos \cup {None}
    PROVE  Edited(dir, S, i) \in Dirs
  BY DEF Edited, Dirs

\* A directory that differs gets a higher version.
LEMMA NextVersionBound ==
    ASSUME NEW dir, NEW old, NEW v \in Nat
    PROVE  /\ NextVersion(dir, old, v) \in Nat
           /\ dir # old => NextVersion(dir, old, v) > v
           /\ dir = old => NextVersion(dir, old, v) = v
  BY DEF NextVersion

\* The type of pc, with its values at hand.
PcType == [Ops -> {"idle", "wait", "lock", "read", "write", "erase", "unlock", "done", "dead"}]

-----------------------------------------------------------------------------
(* Type correctness.                                                       *)

LEMMA InitType == DInit => DTypeOK
<1> SUFFICES ASSUME DInit PROVE DTypeOK
  OBVIOUS
<1>1. EmptyDir \in Dirs /\ -1 \in Int
  BY DEF EmptyDir, Dirs
<1>2. files \in Dirs /\ gotFiles \in [Ops -> Dirs] /\ seenFiles \in [Regs -> Dirs]
  BY <1>1 DEF DInit
<1>3. seenVersion \in [Regs -> Int] /\ seenEpoch \in [Regs -> Nat] /\ gotVersion \in [Ops -> Nat]
  BY <1>1 DEF DInit
<1>4. pc \in PcType /\ tries \in [Ops -> 0..Tries]
  BY DEF DInit, PcType
<1> QED
  BY <1>2, <1>3, <1>4 DEF DInit, DTypeOK, PcType

LEMMA StartOpType ==
    ASSUME DTypeOK, NEW w \in Ops, NEW r \in Regs, NEW S \in SUBSET Names,
           NEW i \in Infos \cup {None}, StartOp(w, r, S, i),
           stopped' \in [Regs -> BOOLEAN], mine' \in [Regs -> SUBSET Names]
    PROVE  DTypeOK'
  BY DEF DTypeOK, StartOp, dirVars, gotVars, seenVars, Dirs

LEMMA TypeStep == DTypeOK /\ [DNext]_dvars => DTypeOK'
<1> SUFFICES ASSUME DTypeOK, [DNext]_dvars PROVE DTypeOK'
  OBVIOUS
<1>1. ASSUME NEW w \in Ops, NEW r \in Regs, NEW n \in Names, UnRegister(w, r, n) PROVE DTypeOK'
  <2>1. mine' \in [Regs -> SUBSET Names] /\ stopped' \in [Regs -> BOOLEAN]
    BY <1>1 DEF UnRegister, DTypeOK
  <2> QED
    BY <1>1, <2>1, StartOpType DEF UnRegister
<1>2. ASSUME NEW w \in Ops, NEW r \in Regs, NEW n \in Names, NEW i \in Infos, Register(w, r, n, i)
      PROVE DTypeOK'
  <2>1. mine' \in [Regs -> SUBSET Names] /\ stopped' \in [Regs -> BOOLEAN]
    BY <1>2 DEF Register, DTypeOK
  <2> QED
    BY <1>2, <2>1, StartOpType DEF Register
<1>3. ASSUME NEW w \in Ops, NEW r \in Regs, StopRemoves(w, r) PROVE DTypeOK'
  <2>1. mine' \in [Regs -> SUBSET Names] /\ stopped' \in [Regs -> BOOLEAN]
    BY <1>3 DEF StopRemoves, DTypeOK
  <2>2. mine[r] \in SUBSET Names
    BY DEF DTypeOK
  <2> QED
    BY <1>3, <2>1, <2>2, StartOpType DEF StopRemoves
<1>4. ASSUME NEW r \in Regs, StopEmpty(r) PROVE DTypeOK'
  BY <1>4 DEF StopEmpty, DTypeOK, dirVars, jobVars, gotVars, seenVars
<1>5. ASSUME NEW r \in Regs, Crash(r) PROVE DTypeOK'
  BY <1>5 DEF Crash, RaceEnds, DTypeOK, dirVars, jobVars, gotVars, seenVars
<1>6. ASSUME NEW r \in Regs, Sync(r) PROVE DTypeOK'
  BY <1>6 DEF Sync, DTypeOK, dirVars, jobVars, gotVars, regVars
<1>7. ASSUME NEW w \in Ops, OpStep(w) PROVE DTypeOK'
  <2> USE DEF GoTo, ComesToLock, RaceEnds, KeepRest, dirVars, jobVars, gotVars, regVars, seenVars
  <2>1. CASE CheckFree(w)
    BY <2>1 DEF CheckFree, DTypeOK
  <2>2. CASE CheckBusy(w)
    BY <2>2 DEF CheckBusy, DTypeOK
  <2>3. CASE GiveUp(w)
    BY <2>3 DEF GiveUp, DTypeOK
  <2>4. CASE Lock(w)
    BY <2>4 DEF Lock, DTypeOK
  <2>5. CASE Read(w)
    BY <2>5 DEF Read, DTypeOK
  <2>6. CASE Write(w)
    <3> DEFINE dir == Edited(gotFiles[w], names[w], info[w])
    <3>1. dir \in Dirs
      BY EditedType DEF DTypeOK
    <3>2. NextVersion(dir, gotFiles[w], gotVersion[w]) \in Nat
      BY NextVersionBound DEF DTypeOK
    <3> HIDE DEF dir
    <3>3. files' \in Dirs /\ version' \in Nat /\ epoch' \in Nat /\ pc' \in PcType
      BY <2>6, <3>1, <3>2 DEF Write, DTypeOK, PcType, dir
    <3> QED
      BY <2>6, <3>3 DEF Write, DTypeOK, PcType
  <2>7. CASE Erase(w)
    BY <2>7 DEF Erase, DTypeOK, EmptyDir, Dirs
  <2>8. CASE Unlock(w)
    BY <2>8 DEF Unlock, DTypeOK
  <2> QED
    BY <1>7, <2>1, <2>2, <2>3, <2>4, <2>5, <2>6, <2>7, <2>8 DEF OpStep
<1>8. CASE LockExpires
  BY <1>8 DEF LockExpires, DTypeOK, dirVars, jobVars, gotVars, regVars, seenVars
<1>9. CASE UNCHANGED dvars
  BY <1>9 DEF dvars, DTypeOK, dirVars, jobVars, gotVars, regVars, seenVars
<1> QED
  BY <1>1, <1>2, <1>3, <1>4, <1>5, <1>6, <1>7, <1>8, <1>9 DEF DNext

\* Type correctness, for every set of registries, operations, names and infos.
THEOREM DirTypeCorrect == DSpec => []DTypeOK
  BY InitType, TypeStep, PTL DEF DSpec
-----------------------------------------------------------------------------
(* The lock.                                                               *)

\* What a step does to the lock if it takes no operation into the critical
\* section or past lock().
NobodyEnters ==
    /\ locked' = locked
    /\ \A w \in Ops : /\ pc'[w] \in Critical => pc[w] \in Critical
                      /\ pc'[w] \in Held => pc[w] \in Held

LEMMA LockKept ==
    ASSUME OneWriter, HolderLocks, NobodyEnters
    PROVE  OneWriter' /\ HolderLocks'
  BY DEF OneWriter, HolderLocks, NobodyEnters

LEMMA NobodyEntersStep ==
    ASSUME DTypeOK,
           \/ \E w \in Ops, r \in Regs, S \in SUBSET Names, i \in Infos \cup {None} :
                  StartOp(w, r, S, i)
           \/ \E r \in Regs : StopEmpty(r) \/ Crash(r) \/ Sync(r)
           \/ \E w \in Ops : CheckBusy(w) \/ Read(w) \/ Write(w) \/ Erase(w)
           \/ UNCHANGED dvars
    PROVE  NobodyEnters
<1> USE DEF NobodyEnters, Critical, Held, DTypeOK, dirVars, dvars, GoTo
<1>1. ASSUME NEW w \in Ops, NEW r \in Regs, NEW S \in SUBSET Names,
             NEW i \in Infos \cup {None}, StartOp(w, r, S, i)
      PROVE NobodyEnters
  BY <1>1 DEF StartOp
<1>2. ASSUME NEW r \in Regs, StopEmpty(r) PROVE NobodyEnters
  BY <1>2 DEF StopEmpty
<1>3. ASSUME NEW r \in Regs, Crash(r) PROVE NobodyEnters
  BY <1>3 DEF Crash
<1>4. ASSUME NEW r \in Regs, Sync(r) PROVE NobodyEnters
  BY <1>4 DEF Sync
<1>5. ASSUME NEW w \in Ops, CheckBusy(w) PROVE NobodyEnters
  BY <1>5 DEF CheckBusy
<1>6. ASSUME NEW w \in Ops, Read(w) PROVE NobodyEnters
  BY <1>6 DEF Read
<1>7. ASSUME NEW w \in Ops, Write(w) PROVE NobodyEnters
  BY <1>7 DEF Write
<1>8. ASSUME NEW w \in Ops, Erase(w) PROVE NobodyEnters
  BY <1>8 DEF Erase
<1>9. CASE UNCHANGED dvars
  BY <1>9
<1> HIDE DEF NobodyEnters
<1> QED
  BY <1>1, <1>2, <1>3, <1>4, <1>5, <1>6, <1>7, <1>8, <1>9

\* The starts of operations, as one action of the registry.
Starts(w, r) ==
    \/ \E n \in Names : UnRegister(w, r, n) \/ \E i \in Infos : Register(w, r, n, i)
    \/ StopRemoves(w, r)

LEMMA StartsStart ==
    ASSUME DTypeOK, NEW w \in Ops, NEW r \in Regs, Starts(w, r)
    PROVE  \E S \in SUBSET Names, i \in Infos \cup {None} : StartOp(w, r, S, i)
<1>1. ASSUME NEW n \in Names, UnRegister(w, r, n)
      PROVE \E S \in SUBSET Names, i \in Infos \cup {None} : StartOp(w, r, S, i)
  <2>1. StartOp(w, r, {n}, None)
    BY <1>1 DEF UnRegister
  <2> QED
    BY <2>1
<1>2. ASSUME NEW n \in Names, NEW i \in Infos, Register(w, r, n, i)
      PROVE \E S \in SUBSET Names, j \in Infos \cup {None} : StartOp(w, r, S, j)
  <2>1. StartOp(w, r, {n}, i)
    BY <1>2 DEF Register
  <2> QED
    BY <2>1
<1>3. CASE StopRemoves(w, r)
  <2>1. StartOp(w, r, mine[r], None)
    BY <1>3 DEF StopRemoves
  <2>2. mine[r] \in SUBSET Names
    BY DEF DTypeOK
  <2> QED
    BY <2>1, <2>2
<1> QED
  BY <1>1, <1>2, <1>3 DEF Starts

\* A race ends when nobody is left in the critical section.
LEMMA RaceOver ==
    ASSUME DTypeOK, [DNext]_dvars, raced, ~raced'
    PROVE  \A v \in Ops : pc'[v] \notin Critical
<1>1. ASSUME RaceEnds PROVE \A v \in Ops : pc'[v] \notin Critical
  BY <1>1 DEF RaceEnds
<1>2. ASSUME NEW w \in Ops, NEW r \in Regs, Starts(w, r) PROVE raced' = raced
  BY <1>2, StartsStart DEF StartOp
<1>3. ASSUME NEW r \in Regs, StopEmpty(r) \/ Sync(r) PROVE raced' = raced
  BY <1>3 DEF StopEmpty, Sync
<1>4. ASSUME NEW w \in Ops, OpStep(w), ~Unlock(w) PROVE raced'
  BY <1>4 DEF OpStep, CheckFree, CheckBusy, GiveUp, Lock, Read, Write, Erase, ComesToLock, DTypeOK
<1>5. LockExpires => raced'
  BY DEF LockExpires
<1>6. CASE UNCHANGED dvars
  BY <1>6 DEF dvars
<1>7. ASSUME NEW r \in Regs, Crash(r) PROVE RaceEnds
  BY <1>7 DEF Crash
<1>8. ASSUME NEW w \in Ops, Unlock(w) PROVE RaceEnds
  BY <1>8 DEF Unlock
<1> QED
  BY <1>1, <1>2, <1>3, <1>4, <1>5, <1>6, <1>7, <1>8 DEF DNext, Starts

\* A step that begins no race keeps the lock.
LEMMA LockStep ==
    ASSUME DTypeOK, OneWriter, HolderLocks, [DNext]_dvars, ~raced'
    PROVE  OneWriter' /\ HolderLocks'
<1> USE DEF Critical, Held, GoTo, ComesToLock
<1>1. ASSUME NobodyEnters PROVE OneWriter' /\ HolderLocks'
  BY <1>1, LockKept
<1>2. ASSUME NEW w \in Ops, CheckFree(w) PROVE OneWriter' /\ HolderLocks'
  <2>1. \A v \in Ops : pc[v] \notin Critical
    BY <1>2 DEF CheckFree, HolderLocks
  <2> QED
    BY <1>2, <2>1 DEF CheckFree, DTypeOK, OneWriter, HolderLocks
<1>3. ASSUME NEW w \in Ops, GiveUp(w) PROVE OneWriter' /\ HolderLocks'
  BY <1>3 DEF GiveUp, DTypeOK, OneWriter, HolderLocks
<1>4. ASSUME NEW w \in Ops, Lock(w) PROVE OneWriter' /\ HolderLocks'
  BY <1>4 DEF Lock, DTypeOK, OneWriter, HolderLocks
<1>5. ASSUME NEW w \in Ops, Unlock(w) PROVE OneWriter' /\ HolderLocks'
  <2>1. \A v \in Ops : pc'[v] \in Critical => v # w /\ pc[v] \in Critical
    BY <1>5 DEF Unlock, DTypeOK
  <2>2. \A v \in Ops : pc'[v] \notin Critical
    BY <1>5, <2>1 DEF Unlock, OneWriter
  <2> QED
    BY <2>2 DEF OneWriter, HolderLocks
<1>6. CASE LockExpires
  BY <1>6 DEF LockExpires, OneWriter, HolderLocks
<1>7. ASSUME NEW w \in Ops, NEW r \in Regs, Starts(w, r) PROVE OneWriter' /\ HolderLocks'
  BY <1>1, <1>7, StartsStart, NobodyEntersStep
<1> QED
  BY <1>1, <1>2, <1>3, <1>4, <1>5, <1>6, <1>7, NobodyEntersStep DEF DNext, OpStep, Starts
-----------------------------------------------------------------------------
(* The directory.                                                          *)

\* Steps that neither change the directory nor bring an operation to a write.
DirectoryKept ==
    /\ UNCHANGED <<dirVars, gotVars>>
    /\ \A w \in Ops : pc'[w] \in {"write", "erase"} => pc'[w] = pc[w]

LEMMA FreshKept ==
    ASSUME DirectoryKept
    PROVE  (WritesFresh => WritesFresh') /\ (EmptyIsAbsent => EmptyIsAbsent')
  BY DEF WritesFresh, Stale, EmptyIsAbsent, DirectoryKept, dirVars, gotVars

LEMMA DirectoryKeptStep ==
    ASSUME DTypeOK, [DNext]_dvars
    PROVE  DirectoryKept \/ \E w \in Ops : Read(w) \/ Write(w) \/ Erase(w)
<1> USE DEF DirectoryKept, DTypeOK, dirVars, gotVars, GoTo, ComesToLock, KeepRest
<1>1. ASSUME NEW w \in Ops, NEW r \in Regs, NEW S \in SUBSET Names,
             NEW i \in Infos \cup {None}, StartOp(w, r, S, i)
      PROVE DirectoryKept
  BY <1>1 DEF StartOp
<1>2. ASSUME NEW r \in Regs, StopEmpty(r) PROVE DirectoryKept
  BY <1>2 DEF StopEmpty
<1>3. ASSUME NEW r \in Regs, Crash(r) PROVE DirectoryKept
  BY <1>3 DEF Crash
<1>4. ASSUME NEW r \in Regs, Sync(r) PROVE DirectoryKept
  BY <1>4 DEF Sync
<1>5. ASSUME NEW w \in Ops, CheckFree(w) PROVE DirectoryKept
  BY <1>5 DEF CheckFree
<1>6. ASSUME NEW w \in Ops, CheckBusy(w) PROVE DirectoryKept
  BY <1>6 DEF CheckBusy
<1>7. ASSUME NEW w \in Ops, GiveUp(w) PROVE DirectoryKept
  BY <1>7 DEF GiveUp
<1>8. ASSUME NEW w \in Ops, Lock(w) PROVE DirectoryKept
  BY <1>8 DEF Lock
<1>9. ASSUME NEW w \in Ops, Unlock(w) PROVE DirectoryKept
  BY <1>9 DEF Unlock
<1>10. CASE LockExpires
  BY <1>10 DEF LockExpires
<1>11. CASE UNCHANGED dvars
  BY <1>11 DEF dvars
<1> HIDE DEF DirectoryKept
<1>12. ASSUME NEW w \in Ops, NEW r \in Regs, Starts(w, r) PROVE DirectoryKept
  BY <1>1, <1>12, StartsStart
<1> QED
  BY <1>2, <1>3, <1>4, <1>5, <1>6, <1>7, <1>8, <1>9, <1>10, <1>11, <1>12 DEF DNext, OpStep, Starts

\* What a write does to the directory: w's copy of it is edited, and the
\* version tells unless the copy was stale.
LEMMA Written ==
    ASSUME DTypeOK, NEW w \in Ops, Write(w)
    PROVE  /\ files' = Edited(gotFiles[w], names[w], info[w])
           /\ version' \in Nat
           /\ pc' = [pc EXCEPT ![w] = pc'[w]]
           /\ \/ /\ pc'[w] = "erase" /\ files' = EmptyDir
                 /\ epoch' = epoch + 1 /\ version' = 0
              \/ /\ pc'[w] = "unlock" /\ files' # EmptyDir
                 /\ \/ epoch' = epoch + 1
                    \/ /\ epoch' = epoch
                       /\ files' # files => version' > version
                       /\ files' = files => version' = version
<1> DEFINE dir == Edited(gotFiles[w], names[w], info[w])
<1>1. gotVersion[w] \in Nat /\ version \in Nat
  BY DEF DTypeOK
<1>2. /\ NextVersion(dir, gotFiles[w], gotVersion[w]) \in Nat
      /\ dir # gotFiles[w] => NextVersion(dir, gotFiles[w], gotVersion[w]) > gotVersion[w]
      /\ dir = gotFiles[w] => NextVersion(dir, gotFiles[w], gotVersion[w]) = gotVersion[w]
  BY <1>1, NextVersionBound
<1> HIDE DEF dir
<1>3. /\ files' = dir
      /\ pc' = [pc EXCEPT ![w] = pc'[w]]
      /\ epoch' = IF dir = EmptyDir \/ Stale(w) THEN epoch + 1 ELSE epoch
      /\ \/ /\ dir = EmptyDir /\ version' = 0 /\ pc'[w] = "erase"
         \/ /\ dir # EmptyDir /\ version' = NextVersion(dir, gotFiles[w], gotVersion[w])
            /\ pc'[w] = "unlock"
  BY DEF Write, GoTo, DTypeOK, dir
<1>4. ~Stale(w) => gotFiles[w] = files /\ gotVersion[w] = version
  BY DEF Stale
<1>5. CASE dir = EmptyDir
  BY <1>3, <1>5 DEF dir
<1>6. CASE dir # EmptyDir /\ Stale(w)
  BY <1>2, <1>3, <1>6 DEF dir
<1>7. CASE dir # EmptyDir /\ ~Stale(w)
  BY <1>2, <1>3, <1>4, <1>7 DEF dir
<1> QED
  BY <1>5, <1>6, <1>7

\* The only writer leaves no other operation with a stale copy.
LEMMA FreshStep ==
    ASSUME DTypeOK, OneWriter, WritesFresh, [DNext]_dvars
    PROVE  WritesFresh'
<1>1. CASE DirectoryKept
  BY <1>1, FreshKept
<1>2. ASSUME NEW w \in Ops, Read(w) PROVE WritesFresh'
  <2>1. /\ files' = files /\ version' = version
        /\ \A v \in Ops \ {w} : /\ pc'[v] = pc[v] /\ gotFiles'[v] = gotFiles[v]
                               /\ gotVersion'[v] = gotVersion[v]
        /\ gotFiles'[w] = files /\ gotVersion'[w] = version
    BY <1>2 DEF Read, GoTo, DTypeOK, dirVars
  <2>2. pc'[w] = "erase" => files = EmptyDir
    BY <1>2 DEF Read, GoTo, DTypeOK
  <2> QED
    BY <2>1, <2>2 DEF WritesFresh, Stale
<1>3. ASSUME NEW w \in Ops, Write(w) PROVE WritesFresh'
  <2>1. pc[w] = "write"
    BY <1>3 DEF Write
  <2>2. \A v \in Ops \ {w} : pc'[v] = pc[v] /\ pc[v] \notin {"write", "erase"}
    BY <1>3, <2>1, Written DEF OneWriter, Critical, Held, DTypeOK
  <2>3. pc'[w] # "write" /\ (pc'[w] = "erase" => files' = EmptyDir)
    BY <1>3, Written
  <2> QED
    BY <2>2, <2>3 DEF WritesFresh, EmptyDir
<1>4. ASSUME NEW w \in Ops, Erase(w) PROVE WritesFresh'
  <2>1. \A v \in Ops \ {w} : pc'[v] = pc[v] /\ pc[v] \notin {"write", "erase"}
    BY <1>4 DEF Erase, GoTo, OneWriter, Critical, Held, DTypeOK
  <2>2. pc'[w] = "unlock"
    BY <1>4 DEF Erase, GoTo, DTypeOK
  <2> QED
    BY <2>1, <2>2 DEF WritesFresh
<1> QED
  BY <1>1, <1>2, <1>3, <1>4, DirectoryKeptStep

\* The lock holds after a step if no race is on then: it held before, or a race
\* has just ended.
LEMMA ShelterStep ==
    ASSUME DTypeOK, ~raced => LockHolds, [DNext]_dvars, ~raced'
    PROVE  LockHolds'
<1>1. CASE raced
  <2>1. \A v \in Ops : pc'[v] \notin Critical
    BY <1>1, RaceOver
  <2> QED
    BY <2>1 DEF LockHolds, OneWriter, HolderLocks, WritesFresh, Critical, Held
<1>2. CASE ~raced
  BY <1>2, LockStep, FreshStep DEF LockHolds
<1> QED
  BY <1>1, <1>2

LEMMA AbsentStep ==
    ASSUME DTypeOK, EmptyIsAbsent, [DNext]_dvars
    PROVE  EmptyIsAbsent'
<1>1. CASE DirectoryKept
  BY <1>1, FreshKept
<1>2. ASSUME NEW w \in Ops, Read(w) PROVE EmptyIsAbsent'
  BY <1>2 DEF Read, dirVars, EmptyIsAbsent, EmptyDir
<1>3. ASSUME NEW w \in Ops, Write(w) PROVE EmptyIsAbsent'
  BY <1>3, Written DEF EmptyIsAbsent, EmptyDir
<1>4. ASSUME NEW w \in Ops, Erase(w) PROVE EmptyIsAbsent'
  BY <1>4 DEF Erase, EmptyIsAbsent
<1> QED
  BY <1>1, <1>2, <1>3, <1>4, DirectoryKeptStep
-----------------------------------------------------------------------------
(* The readers.                                                            *)

LEMMA SeenStep ==
    ASSUME DTypeOK, EmptyIsAbsent, SeenBehind, VersionIdentifiesFiles, [DNext]_dvars
    PROVE  SeenBehind' /\ VersionIdentifiesFiles'
<1>1. epoch \in Nat /\ version \in Nat /\ \A r \in Regs : seenEpoch[r] \in Nat /\ seenVersion[r] \in Int
  BY DEF DTypeOK
<1>2. CASE UNCHANGED <<dirVars, seenVars>>
  BY <1>2 DEF dirVars, seenVars, SeenBehind, VersionIdentifiesFiles
<1>3. ASSUME NEW r \in Regs, Sync(r) PROVE SeenBehind' /\ VersionIdentifiesFiles'
  <2>1. /\ UNCHANGED dirVars
        /\ seenVersion' = [seenVersion EXCEPT ![r] = version]
        /\ seenFiles' = [seenFiles EXCEPT ![r] = files]
        /\ seenEpoch' = [seenEpoch EXCEPT ![r] = epoch]
    BY <1>3 DEF Sync
  <2> QED
    BY <1>1, <2>1 DEF dirVars, SeenBehind, VersionIdentifiesFiles, DTypeOK
<1>4. ASSUME NEW w \in Ops, Write(w) PROVE SeenBehind' /\ VersionIdentifiesFiles'
  <2>1. UNCHANGED seenVars
    BY <1>4 DEF Write, KeepRest
  <2>2. CASE epoch' = epoch + 1
    <3>1. \A r \in Regs : seenEpoch'[r] < epoch'
      BY <1>1, <2>1, <2>2 DEF SeenBehind, seenVars
    <3> QED
      BY <1>1, <2>1, <2>2, <3>1 DEF SeenBehind, VersionIdentifiesFiles, seenVars
  <2>3. CASE epoch' = epoch /\ version' > version
    BY <1>1, <1>4, <2>1, <2>3, Written DEF SeenBehind, VersionIdentifiesFiles, seenVars
  <2>4. CASE epoch' = epoch /\ version' = version /\ files' = files
    BY <2>1, <2>4 DEF SeenBehind, VersionIdentifiesFiles, seenVars
  <2> QED
    BY <1>4, <2>2, <2>3, <2>4, Written
<1>5. ASSUME NEW w \in Ops, Erase(w) PROVE SeenBehind' /\ VersionIdentifiesFiles'
  <2>1. UNCHANGED seenVars
    BY <1>5 DEF Erase, KeepRest
  <2>2. CASE files = EmptyDir
    <3>1. version = 0
      BY <2>2 DEF EmptyIsAbsent
    <3>2. UNCHANGED <<dirVars, seenVars>>
      BY <1>5, <2>1, <2>2, <3>1 DEF Erase, dirVars
    <3> QED
      BY <1>2, <3>2
  <2>3. CASE files # EmptyDir
    <3>1. epoch' = epoch + 1
      BY <1>5, <2>3 DEF Erase
    <3>2. \A r \in Regs : seenEpoch'[r] < epoch'
      BY <1>1, <2>1, <3>1 DEF SeenBehind, seenVars
    <3> QED
      BY <1>1, <2>1, <3>1, <3>2 DEF SeenBehind, VersionIdentifiesFiles, seenVars
  <2> QED
    BY <2>2, <2>3
<1>6. ASSUME NEW w \in Ops, NEW r \in Regs, Starts(w, r) PROVE UNCHANGED <<dirVars, seenVars>>
  BY <1>6, StartsStart DEF StartOp
<1>7. ASSUME NEW r \in Regs, StopEmpty(r) \/ Crash(r) PROVE UNCHANGED <<dirVars, seenVars>>
  BY <1>7 DEF StopEmpty, Crash
<1>8. ASSUME NEW w \in Ops,
             CheckFree(w) \/ CheckBusy(w) \/ GiveUp(w) \/ Lock(w) \/ Read(w) \/ Unlock(w)
      PROVE UNCHANGED <<dirVars, seenVars>>
  BY <1>8 DEF CheckFree, CheckBusy, GiveUp, Lock, Read, Unlock, KeepRest
<1>9. CASE LockExpires
  BY <1>2, <1>9 DEF LockExpires
<1>10. CASE UNCHANGED dvars
  BY <1>2, <1>10 DEF dvars
<1> QED
  BY <1>2, <1>3, <1>4, <1>5, <1>6, <1>7, <1>8, <1>9, <1>10 DEF DNext, OpStep, Starts

-----------------------------------------------------------------------------
(* The invariant and what follows from it.                                 *)

LEMMA InitIInv == DInit => DirInv
<1> SUFFICES ASSUME DInit PROVE DirInv
  OBVIOUS
<1>1. LockHolds
  BY DEF DInit, LockHolds, OneWriter, HolderLocks, WritesFresh, Critical, Held
<1>2. EmptyIsAbsent /\ SeenBehind /\ VersionIdentifiesFiles
  BY DEF DInit, EmptyIsAbsent, SeenBehind, VersionIdentifiesFiles
<1> QED
  BY <1>1, <1>2, InitType DEF DirInv

LEMMA IInvStep == DirInv /\ [DNext]_dvars => DirInv'
  BY TypeStep, ShelterStep, AbsentStep, SeenStep DEF DirInv

\* Lock, directory, pending writes and readers fit together, the lock and the
\* writes unless operations race.
THEOREM DirInvariance == DSpec => []DirInv
<1>1. DirInv /\ [DNext]_dvars => DirInv'
  BY IInvStep
<1> QED
  BY <1>1, InitIInv, PTL DEF DSpec

\* The lock excludes in spite of crashes, and no operation overwrites what
\* another one stored, unless two test the lock before one sets it, a wait runs
\* out, or the key expires, beside an operation at work; and it excludes again
\* as soon as such operations are over. (remoteCache.ts waitLock, lock, unlock)
THEOREM ExclusionHolds == DSpec => []ExclusionBreaksOnlyByRace
<1>1. DirInv => ExclusionBreaksOnlyByRace
  BY DEF DirInv, LockHolds, ExclusionBreaksOnlyByRace
<1> QED
  BY <1>1, DirInvariance, PTL

\* Between two deletions or stale writes a version stands for its files, also
\* while operations race.
THEOREM VersionsTell == DSpec => []VersionIdentifiesFiles
<1>1. DirInv => VersionIdentifiesFiles
  BY DEF DirInv
<1> QED
  BY <1>1, DirInvariance, PTL

\* The lock, the writes and the versions together: updates are lost by races
\* only, and none is missed.
THEOREM LockCorrect == DSpec => []LockSound
  BY DirTypeCorrect, ExclusionHolds, VersionsTell, PTL DEF LockSound

-----------------------------------------------------------------------------
(* The refinement of Directory.                                            *)

\* The stages one by one.
LEMMA Stages ==
    /\ StageOf["idle"] = "idle"
    /\ StageOf["wait"] = "called" /\ StageOf["lock"] = "called"
    /\ StageOf["read"] = "called" /\ StageOf["write"] = "looking"
    /\ StageOf["erase"] = "clearing" /\ StageOf["unlock"] = "applied"
    /\ StageOf["done"] = "over"
  BY DEF StageOf

\* One operation's progress changes one stage.
LEMMA StageChanged ==
    ASSUME DTypeOK, NEW w \in Ops,
           NEW l \in {"idle", "wait", "lock", "read", "write", "erase", "unlock", "done", "dead"},
           pc' = [pc EXCEPT ![w] = l]
    PROVE  [v \in Ops |-> StageOf[pc'[v]]]
               = [[v \in Ops |-> StageOf[pc[v]]] EXCEPT ![w] = StageOf[l]]
  BY DEF DTypeOK

\* Progress within a stage is no change.
LEMMA StageSame ==
    ASSUME DTypeOK, NEW w \in Ops,
           NEW l \in {"idle", "wait", "lock", "read", "write", "erase", "unlock", "done", "dead"},
           pc' = [pc EXCEPT ![w] = l], StageOf[l] = StageOf[pc[w]]
    PROVE  [v \in Ops |-> StageOf[pc'[v]]] = [v \in Ops |-> StageOf[pc[v]]]
  BY DEF DTypeOK

\* The two ways of writing the result of an operation.
LEMMA ResultIsEdited ==
    ASSUME NEW w \in Ops, NEW dir
    PROVE  Dir!Result(w, dir) = Edited(dir, names[w], info[w]) /\ Dir!Empty = EmptyDir
  BY DEF Dir!Result, Edited, Dir!Empty, EmptyDir

\* An operation that leaves an empty directory goes on to delete it.
LEMMA Settled ==
    ASSUME DTypeOK, NEW w \in Ops, NEW dir,
           pc' = [pc EXCEPT ![w] = IF dir = EmptyDir THEN "erase" ELSE "unlock"]
    PROVE  [v \in Ops |-> StageOf[pc'[v]]]
               = [[v \in Ops |-> StageOf[pc[v]]]
                     EXCEPT ![w] = IF dir = EmptyDir THEN "clearing" ELSE "applied"]
<1> DEFINE l == IF dir = EmptyDir THEN "erase" ELSE "unlock"
<1>1. StageOf[l] = IF dir = EmptyDir THEN "clearing" ELSE "applied"
  BY Stages
<1>2. [v \in Ops |-> StageOf[pc'[v]]] = [[v \in Ops |-> StageOf[pc[v]]] EXCEPT ![w] = StageOf[l]]
  BY StageChanged
<1> HIDE DEF l
<1> QED
  BY <1>1, <1>2

\* Each step of the directory is a step of Directory or leaves it as it is.
LEMMA DirStep == DirInv /\ [DNext]_dvars => [Dir!Next]_(Dir!vars)
<1> SUFFICES ASSUME DTypeOK, ~raced => WritesFresh, [DNext]_dvars
             PROVE  [Dir!Next]_(Dir!vars)
  BY DEF DirInv, LockHolds
<1> DEFINE st == [v \in Ops |-> StageOf[pc[v]]]
<1>1. ASSUME NEW w \in Ops, NEW r \in Regs, NEW S \in SUBSET Names,
             NEW i \in Infos \cup {None}, StartOp(w, r, S, i)
      PROVE Dir!Call(w)
  <2>1. pc[w] = "idle" /\ pc' = [pc EXCEPT ![w] = "wait"]
    BY <1>1 DEF StartOp
  <2>2. [v \in Ops |-> StageOf[pc'[v]]] = [st EXCEPT ![w] = "called"] /\ st[w] = "idle"
    BY <2>1, Stages, StageChanged
  <2>3. /\ names' = [names EXCEPT ![w] = S] /\ info' = [info EXCEPT ![w] = i]
        /\ UNCHANGED <<files, gotFiles>>
    BY <1>1 DEF StartOp, dirVars, gotVars
  <2> QED
    BY <2>2, <2>3 DEF Dir!Call
<1>2. ASSUME NEW r \in Regs, Crash(r) PROVE Dir!Die
  <2> DEFINE W == {w \in Ops : owner[w] = r /\ pc[w] \notin {"done", "dead"}}
  <2>1. pc' = [w \in Ops |-> IF owner[w] = r /\ pc[w] # "done" THEN "dead" ELSE pc[w]]
    BY <1>2 DEF Crash
  <2>2. \A w \in Ops : StageOf[pc'[w]] = IF w \in W THEN "over" ELSE StageOf[pc[w]]
    BY <2>1 DEF StageOf
  <2>3. \A w \in Ops : pc[w] \notin {"done", "dead"} => StageOf[pc[w]] # "over"
    BY DEF StageOf, DTypeOK
  <2>4. W \in SUBSET {w \in Ops : st[w] # "over"}
    BY <2>3
  <2>5. [w \in Ops |-> StageOf[pc'[w]]] = [w \in Ops |-> IF w \in W THEN "over" ELSE st[w]]
    BY <2>2
  <2>6. UNCHANGED <<files, names, info, gotFiles>>
    BY <1>2 DEF Crash, dirVars, jobVars, gotVars
  <2> HIDE DEF W
  <2> QED
    BY <2>4, <2>5, <2>6 DEF Dir!Die
<1>3. ASSUME NEW w \in Ops, Read(w) PROVE Dir!Look(w) \/ Dir!Skip(w)
  <2>1. /\ pc[w] = "read" /\ UNCHANGED <<files, names, info>>
        /\ gotFiles' = [gotFiles EXCEPT ![w] = files]
    BY <1>3 DEF Read, dirVars, jobVars
  <2>2. st[w] = "called"
    BY <2>1, Stages
  <2>3. CASE pc' = [pc EXCEPT ![w] = "write"]
    <3>1. [v \in Ops |-> StageOf[pc'[v]]] = [st EXCEPT ![w] = "looking"]
      BY <2>3, Stages, StageChanged
    <3> QED
      BY <2>1, <2>2, <3>1 DEF Dir!Look
  <2>4. CASE /\ Edited(files, names[w], info[w]) = files
             /\ pc' = [pc EXCEPT ![w] = IF files = EmptyDir THEN "erase" ELSE "unlock"]
    <3>1. [v \in Ops |-> StageOf[pc'[v]]]
              = [st EXCEPT ![w] = IF files = EmptyDir THEN "clearing" ELSE "applied"]
      BY <2>4, Settled
    <3> QED
      BY <2>1, <2>2, <2>4, <3>1, ResultIsEdited DEF Dir!Skip, Dir!Settle
  <2> QED
    BY <1>3, <2>3, <2>4 DEF Read, GoTo
<1>4. ASSUME NEW w \in Ops, Write(w) PROVE Dir!Apply(w)
  <2>1. pc[w] = "write" /\ UNCHANGED <<names, info, gotFiles>>
    BY <1>4 DEF Write, KeepRest, jobVars, gotVars
  <2>2. st[w] = "looking"
    BY <2>1, Stages
  <2>3. files' = Edited(gotFiles[w], names[w], info[w])
    BY <1>4, Written
  <2>4. pc' = [pc EXCEPT ![w] = IF files' = EmptyDir THEN "erase" ELSE "unlock"]
    BY <1>4 DEF Write, GoTo
  <2>5. [v \in Ops |-> StageOf[pc'[v]]]
            = [st EXCEPT ![w] = IF files' = EmptyDir THEN "clearing" ELSE "applied"]
    BY <2>4, Settled
  <2>6. ~raced => gotFiles[w] = files
    BY <2>1 DEF WritesFresh, Stale
  <2> QED
    BY <2>1, <2>2, <2>3, <2>5, <2>6, ResultIsEdited DEF Dir!Apply, Dir!Settle
<1>5. ASSUME NEW w \in Ops, Erase(w) PROVE Dir!Clear(w)
  <2>1. /\ pc[w] = "erase" /\ pc' = [pc EXCEPT ![w] = "unlock"]
        /\ files' = EmptyDir /\ UNCHANGED <<names, info, gotFiles>>
    BY <1>5 DEF Erase, GoTo, KeepRest, jobVars, gotVars
  <2>2. [v \in Ops |-> StageOf[pc'[v]]] = [st EXCEPT ![w] = "applied"] /\ st[w] = "clearing"
    BY <2>1, Stages, StageChanged
  <2>3. ~raced => files = EmptyDir
    BY <2>1 DEF WritesFresh
  <2> QED
    BY <2>1, <2>2, <2>3, ResultIsEdited DEF Dir!Clear
<1>6. ASSUME NEW w \in Ops, Unlock(w) PROVE Dir!Return(w)
  <2>1. /\ pc[w] = "unlock" /\ pc' = [pc EXCEPT ![w] = "done"]
        /\ UNCHANGED <<files, names, info, gotFiles>>
    BY <1>6 DEF Unlock, GoTo, KeepRest, jobVars, dirVars, gotVars
  <2>2. [v \in Ops |-> StageOf[pc'[v]]] = [st EXCEPT ![w] = "over"] /\ st[w] = "applied"
    BY <2>1, Stages, StageChanged
  <2> QED
    BY <2>1, <2>2 DEF Dir!Return
<1>7. ASSUME NEW w \in Ops, CheckFree(w) \/ GiveUp(w) PROVE UNCHANGED Dir!vars
  <2>1. /\ pc[w] = "wait" /\ pc' = [pc EXCEPT ![w] = "lock"]
        /\ UNCHANGED <<files, names, info, gotFiles>>
    BY <1>7 DEF CheckFree, GiveUp, ComesToLock, KeepRest, jobVars, dirVars, gotVars
  <2>2. [v \in Ops |-> StageOf[pc'[v]]] = st
    BY <2>1, Stages, StageSame
  <2> QED
    BY <2>1, <2>2 DEF Dir!vars
<1>8. ASSUME NEW w \in Ops, Lock(w) PROVE UNCHANGED Dir!vars
  <2>1. /\ pc[w] = "lock" /\ pc' = [pc EXCEPT ![w] = "read"]
        /\ UNCHANGED <<files, names, info, gotFiles>>
    BY <1>8 DEF Lock, GoTo, KeepRest, jobVars, dirVars, gotVars
  <2>2. [v \in Ops |-> StageOf[pc'[v]]] = st
    BY <2>1, Stages, StageSame
  <2> QED
    BY <2>1, <2>2 DEF Dir!vars
<1>9. CASE UNCHANGED <<files, pc, names, info, gotFiles>>
  BY <1>9 DEF Dir!vars
<1>10. ASSUME NEW w \in Ops, CheckBusy(w) PROVE UNCHANGED <<files, pc, names, info, gotFiles>>
  BY <1>10 DEF CheckBusy, dirVars, jobVars, gotVars
<1>11. ASSUME NEW r \in Regs, StopEmpty(r) \/ Sync(r)
       PROVE UNCHANGED <<files, pc, names, info, gotFiles>>
  BY <1>11 DEF StopEmpty, Sync, dirVars, jobVars, gotVars
<1>12. CASE LockExpires \/ UNCHANGED dvars
  BY <1>9, <1>12 DEF LockExpires, dvars, dirVars, jobVars, gotVars
<1>13. ASSUME NEW w \in Ops, NEW r \in Regs, Starts(w, r) PROVE Dir!Call(w)
  BY <1>1, <1>13, StartsStart
<1>14. ASSUME NEW w \in Ops, OpStep(w) PROVE [Dir!Next]_(Dir!vars)
  <2>1. Dir!Look(w) \/ Dir!Skip(w) \/ Dir!Apply(w) \/ Dir!Clear(w) \/ Dir!Return(w) => Dir!Next
    BY DEF Dir!Next
  <2> QED
    BY <1>3, <1>4, <1>5, <1>6, <1>7, <1>8, <1>9, <1>10, <1>14, <2>1 DEF OpStep
<1>15. ASSUME NEW r \in Regs, StopEmpty(r) \/ Crash(r) \/ Sync(r) PROVE [Dir!Next]_(Dir!vars)
  BY <1>2, <1>9, <1>11, <1>15 DEF Dir!Next
<1>16. ASSUME NEW w \in Ops, NEW r \in Regs, Starts(w, r) PROVE Dir!Next
  BY <1>13, <1>16 DEF Dir!Next
<1> QED
  BY <1>12, <1>14, <1>15, <1>16 DEF DNext, Starts

\* Each operation edits, once and at once, a directory that was stored during
\* its call; the one stored then, unless operations race.
THEOREM ImplementsDirectory == DSpec => KeepsDirectory
<1>1. DInit => Dir!Init
  BY DEF DInit, Dir!Init, Dir!Empty, EmptyDir, StageOf
<1> QED
  BY <1>1, DirStep, DirInvariance, PTL DEF DSpec, KeepsDirectory, Dir!Spec
=============================================================================
