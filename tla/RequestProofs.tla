--------------------------- MODULE RequestProofs ---------------------------
(***************************************************************************)
(* Proofs about the requests of clients: the bytes of their frames, what   *)
(* becomes of them, and the task queues of the connector.  First, for all  *)
(* text, ids and bodies: what protocol.ts writes is read as what was       *)
(* written.  Then, for every number of calls, every limit of attempts and  *)
(* every id the client starts at below 2^31: no call is repeated beyond    *)
(* its limit, forgotten, or given the answer of another.  Then, for every  *)
(* set of tasks and queues: one task at a time, no false timeout, no lost  *)
(* wake-up, and the refinement of TaskLine.                                *)
(***************************************************************************)
EXTENDS TaskQueue, ClientRequests, Integers, FiniteSetTheorems, SequenceTheorems,
        WellFoundedInduction, TLAPS

-----------------------------------------------------------------------------
(* Recursion and induction, by a rank that falls.  The library's theorems *)
(* take operators as parameters; here sets and functions do.              *)

LEMMA LeastNat == ASSUME NEW T, T \subseteq Nat, T # {} PROVE \E m \in T : \A k \in T : ~(k < m)
<1> DEFINE R == OpToRel(<, Nat)
<1>1. IsWellFoundedOn(R, Nat)
  BY NatLessThanWellFounded
<1>2. \A i, j \in Nat : i < j => <<i, j>> \in R
  BY DEF OpToRel
<1> HIDE DEF R
<1>3. \E x \in T : \A y \in T : ~ (<<y, x>> \in R)
  BY <1>1, WFMin
<1> QED BY <1>2, <1>3

LEMMA SetInduction == ASSUME NEW S, 0 \in S, \A n \in Nat : n \in S => n + 1 \in S PROVE Nat \subseteq S
<1> DEFINE T == Nat \ S
<1> SUFFICES ASSUME T # {} PROVE FALSE OBVIOUS
<1>1. PICK m \in T : \A k \in T : ~(k < m)
  BY LeastNat
<1>2. m # 0 /\ m - 1 \in Nat /\ m - 1 < m
  BY <1>1
<1>3. m - 1 \in S
  BY <1>1, <1>2
<1>4. (m - 1) + 1 = m BY <1>2, <1>1
<1> QED BY <1>1, <1>2, <1>3, <1>4

\* What a rank shows one element at a time holds for all.
LEMMA RankInduction ==
    ASSUME NEW D, NEW rank \in [D -> Nat], NEW S,
           \A d \in D : (\A e \in D : rank[e] < rank[d] => e \in S) => d \in S
    PROVE  D \subseteq S
<1> SUFFICES ASSUME NEW x \in D, x \notin S PROVE FALSE
  OBVIOUS
<1> DEFINE T == {rank[d] : d \in D \ S}
<1>1. T \subseteq Nat /\ T # {}
  OBVIOUS
<1>2. PICK m \in T : \A k \in T : ~(k < m)
  <2> HIDE DEF T
  <2> QED BY <1>1, LeastNat
<1>3. PICK d \in D : d \notin S /\ rank[d] = m
  OBVIOUS
<1> QED BY <1>2, <1>3

\* A step of a recursive function: its place, its value there or from the
\* value at the next place, and a rank that falls.
Recursive(D, V, rank, next, ends, base, G) ==
    /\ rank \in [D -> Nat] /\ next \in [D -> D] /\ ends \subseteq D
    /\ base \in [D -> V] /\ G \in [D -> [V -> V]]
    /\ \A d \in D : d \notin ends => rank[next[d]] < rank[d]

LEMMA Recursion ==
    ASSUME NEW D, NEW V, NEW rank, NEW next, NEW ends, NEW base, NEW G,
           Recursive(D, V, rank, next, ends, base, G)
    PROVE  \E f \in [D -> V] :
               \A d \in D : f[d] = IF d \in ends THEN base[d] ELSE G[d][f[next[d]]]
<1> USE DEF Recursive
<1> DEFINE Value(f, d) == IF d \in ends THEN base[d] ELSE G[d][f[next[d]]]
           Solves(f, n) == f \in [D -> V] /\ \A d \in D : rank[d] < n => f[d] = Value(f, d)
           Solved == {n \in Nat : \E f : Solves(f, n)}
<1>0. \A f \in [D -> V] : \A d \in D : Value(f, d) \in V
  OBVIOUS
<1>1. 0 \in Solved
  <2>1. Solves(base, 0)
    OBVIOUS
  <2> QED BY <2>1
<1>2. ASSUME NEW n \in Nat, n \in Solved PROVE n + 1 \in Solved
  <2>1. PICK f : Solves(f, n)
    BY <1>2
  <2> DEFINE g == [d \in D |-> Value(f, d)]
  <2>2. g \in [D -> V]
    BY <1>0, <2>1
  <2>3. ASSUME NEW d \in D, rank[d] < n + 1 PROVE g[d] = Value(g, d)
    <3>1. CASE d \in ends
      BY <3>1
    <3>2. CASE d \notin ends
      <4>1. next[d] \in D /\ rank[next[d]] < n
        <5>1. rank[d] \in Nat /\ next[d] \in D /\ rank[next[d]] \in Nat
          OBVIOUS
        <5> QED BY <5>1, <2>3, <3>2
      <4>2. f[next[d]] = g[next[d]]
        BY <2>1, <4>1
      <4> QED BY <4>2, <3>2
    <3> QED BY <3>1, <3>2
  <2>4. Solves(g, n + 1)
    BY <2>2, <2>3
  <2> HIDE DEF Solves
  <2> QED BY <2>4
<1>3. Nat \subseteq Solved
  <2> HIDE DEF Solved
  <2> QED BY <1>1, <1>2, SetInduction
<1>4. ASSUME NEW n \in Nat, NEW f, NEW g, Solves(f, n), Solves(g, n), NEW e \in D, rank[e] < n
      PROVE  f[e] = g[e]
  <2> DEFINE T == {k \in Nat : \E d \in D : rank[d] = k /\ k < n /\ f[d] # g[d]}
  <2> SUFFICES ASSUME f[e] # g[e] PROVE FALSE
    OBVIOUS
  <2>1. rank[e] \in T
    BY <1>4
  <2>2. PICK m \in T : \A k \in T : ~(k < m)
    <3> HIDE DEF T
    <3>1. T \subseteq Nat
      BY DEF T
    <3> QED BY <2>1, <3>1, LeastNat
  <2>3. PICK d \in D : rank[d] = m /\ m < n /\ f[d] # g[d]
    OBVIOUS
  <2>4. f[d] = Value(f, d) /\ g[d] = Value(g, d)
    BY <2>3, <1>4
  <2>5. d \notin ends
    BY <2>3, <2>4
  <2>6. next[d] \in D /\ rank[next[d]] \in Nat /\ rank[next[d]] < m
    BY <2>3, <2>5
  <2>7. f[next[d]] = g[next[d]]
    BY <2>2, <2>3, <2>6
  <2> QED BY <2>3, <2>4, <2>5, <2>7
<1> DEFINE F(n) == CHOOSE f : Solves(f, n)
           h == [d \in D |-> F(rank[d] + 1)[d]]
<1>5. ASSUME NEW n \in Nat PROVE Solves(F(n), n)
  <2> HIDE DEF Solves
  <2>1. \E f : Solves(f, n)
    BY <1>3
  <2> QED BY <2>1
<1> HIDE DEF F
<1>6. ASSUME NEW d \in D PROVE h[d] = Value(h, d) /\ h[d] \in V
  <2> DEFINE f == F(rank[d] + 1)
  <2>1. rank[d] \in Nat /\ Solves(f, rank[d] + 1)
    <3>1. rank[d] \in Nat /\ rank[d] + 1 \in Nat
      OBVIOUS
    <3> HIDE DEF Solves
    <3> QED BY <3>1, <1>5
  <2>2. h[d] = Value(f, d) /\ h[d] \in V
    <3>1. rank[d] < rank[d] + 1
      BY <2>1
    <3>2. f[d] = Value(f, d) /\ f[d] \in V
      <4> HIDE DEF f
      <4> QED BY <2>1, <3>1
    <3> QED BY <3>2
  <2>3. CASE d \in ends
    BY <2>2, <2>3
  <2>4. CASE d \notin ends
    <3> DEFINE e == next[d]
    <3>1. e \in D /\ rank[e] \in Nat /\ rank[e] < rank[d]
      BY <2>4
    <3>2. Solves(F(rank[e] + 1), rank[e] + 1)
      BY <3>1, <1>5
    <3>3. Solves(f, rank[e] + 1)
      <4> HIDE DEF f
      <4>1. \A k \in D : rank[k] < rank[e] + 1 => rank[k] < rank[d] + 1
        BY <2>1, <3>1
      <4> QED BY <2>1, <4>1
    <3>4. f[e] = F(rank[e] + 1)[e]
      <4> HIDE DEF F, Solves
      <4> QED BY <3>1, <3>2, <3>3, <1>4
    <3>5. h[e] = f[e]
      BY <3>1, <3>4
    <3> QED BY <2>2, <2>4, <3>5
  <2> QED BY <2>3, <2>4
<1>7. h \in [D -> V]
  BY <1>6
<1> QED BY <1>6, <1>7


\* A code unit of UTF-16 that is a character, and texts of them.
Unit == (0 .. 55295) \union (57344 .. 65535)
Text == {t \in Seq(Nat) : \A k \in 1 .. Len(t) : t[k] \in Unit}

LEMMA CharNumbers ==
    ASSUME NEW c \in Nat, c < 65536
    PROVE  /\ c \div 64 \in Nat /\ c % 64 \in 0 .. 63 /\ c = 64 * (c \div 64) + (c % 64)
           /\ c \div 4096 \in Nat /\ c \div 4096 < 16
           /\ (c \div 64) % 64 \in 0 .. 63 /\ c \div 64 = 64 * (c \div 4096) + ((c \div 64) % 64)
           /\ c < 2048 => c \div 64 < 32
           /\ c >= 128 => c \div 64 >= 2
OBVIOUS

LEMMA CharBytesType ==
    ASSUME NEW c \in Nat PROVE CharBytes(c) \in Seq(Nat) /\ Len(CharBytes(c)) \in {1, 2, 3}
<1>1. c \div 64 \in Nat /\ c % 64 \in Nat /\ c \div 4096 \in Nat /\ (c \div 64) % 64 \in Nat
  OBVIOUS
<1> QED BY <1>1 DEF CharBytes

LEMMA ModSums ==
    /\ \A a \in Nat : a < 32 => (192 + a) % 32 = a
    /\ \A a \in Nat : a < 16 => (224 + a) % 16 = a
    /\ \A a \in Nat : a < 64 => (128 + a) % 64 = a
OBVIOUS

\* The bytes of a character are read as that character, wherever they are.
LEMMA CharRoundTrip ==
    ASSUME NEW c \in Unit, NEW P \in Seq(Nat), NEW Q \in Seq(Nat), NEW bytes
    PROVE  bytes = (P \o CharBytes(c)) \o Q =>
               /\ CharAt(bytes, Len(P) + 1) = c
               /\ CharSize(bytes[Len(P) + 1]) = Len(CharBytes(c))
<1>b. SUFFICES ASSUME bytes = (P \o CharBytes(c)) \o Q
              PROVE  CharAt(bytes, Len(P) + 1) = c /\ CharSize(bytes[Len(P) + 1]) = Len(CharBytes(c))
  OBVIOUS
<1> DEFINE B == CharBytes(c)
           k == Len(P) + 1
<1>c. bytes = (P \o B) \o Q
  BY <1>b
<1>0. c \in Nat /\ c < 65536
  BY DEF Unit
<1>1. B \in Seq(Nat) /\ Len(B) \in {1, 2, 3}
  BY <1>0, CharBytesType
<1>2. \A i \in 1 .. Len(B) : bytes[Len(P) + i] = B[i] /\ Byte(bytes, Len(P) + i) = B[i]
  <2> HIDE DEF B
  <2>1. P \o B \in Seq(Nat) /\ Len(P \o B) = Len(P) + Len(B) /\ Len(P) \in Nat /\ Len(Q) \in Nat
    BY <1>1, ConcatProperties
  <2>2. bytes \in Seq(Nat) /\ Len(bytes) = Len(P) + Len(B) + Len(Q)
    BY <1>c, <2>1, ConcatProperties
  <2>3. ASSUME NEW i \in 1 .. Len(B) PROVE bytes[Len(P) + i] = B[i]
    <3>1. (P \o B)[Len(P) + i] = B[i]
      BY <1>1, <2>1, ConcatProperties
    <3>2. bytes[Len(P) + i] = (P \o B)[Len(P) + i]
      BY <1>c, <1>1, <2>1, ConcatProperties
    <3> QED BY <3>1, <3>2
  <2> QED BY <1>1, <2>1, <2>2, <2>3 DEF Byte
<1>3. Len(P) \in Nat /\ k + 1 = Len(P) + 2 /\ k + 2 = Len(P) + 3
  OBVIOUS
<1> HIDE DEF k
<1>k. k = Len(P) + 1 BY DEF k
<1>4. CASE c < 128
  <2>1. B = <<c>> BY <1>4 DEF CharBytes
  <2>2. bytes[k] = c BY <1>2, <2>1, <1>k
  <2>3. CharAt(bytes, k) = c /\ CharSize(bytes[k]) = 1
    BY <2>2, <1>4 DEF CharAt, CharSize
  <2> QED BY <2>1, <2>3 DEF k
<1>5. CASE 128 <= c /\ c < 2048
  <2> DEFINE a == c \div 64
             b == c % 64
  <2>1. B = <<192 + a, 128 + b>> BY <1>0, <1>5 DEF CharBytes
  <2>2. bytes[k] = 192 + a /\ Byte(bytes, k + 1) = 128 + b
    BY <1>2, <1>3, <2>1, <1>k
  <2>3. a \in Nat /\ b \in Nat /\ a < 32 /\ b < 64 /\ c = 64 * a + b
    BY <1>0, <1>5, CharNumbers
  <2> HIDE DEF a, b
  <2>4. CharAt(bytes, k) = ((192 + a) % 32) * 64 + ((128 + b) % 64) /\ CharSize(bytes[k]) = 2
    BY <2>2, <2>3 DEF CharAt, CharSize
  <2>5. (192 + a) % 32 = a /\ (128 + b) % 64 = b
    BY <2>3, ModSums
  <2>6. CharAt(bytes, k) = c
    BY <2>3, <2>4, <2>5
  <2> QED BY <2>1, <2>4, <2>6 DEF k
<1>6. CASE 2048 <= c
  <2> DEFINE a == c \div 4096
             d == (c \div 64) % 64
             b == c % 64
  <2>1. B = <<224 + a, 128 + d, 128 + b>> BY <1>0, <1>6 DEF CharBytes
  <2>2. bytes[k] = 224 + a /\ Byte(bytes, k + 1) = 128 + d /\ Byte(bytes, k + 2) = 128 + b
    BY <1>2, <1>3, <2>1, <1>k
  <2>3. a \in Nat /\ b \in Nat /\ d \in Nat /\ a < 16 /\ b < 64 /\ d < 64
        /\ c = 4096 * a + 64 * d + b
    BY <1>0, <1>6, CharNumbers
  <2> HIDE DEF a, b, d
  <2>4. CharAt(bytes, k) = ((224 + a) % 16) * 4096 + ((128 + d) % 64) * 64 + ((128 + b) % 64)
        /\ CharSize(bytes[k]) = 3
    BY <2>2, <2>3 DEF CharAt, CharSize
  <2>5. (224 + a) % 16 = a /\ (128 + b) % 64 = b /\ (128 + d) % 64 = d
    BY <2>3, ModSums
  <2>6. CharAt(bytes, k) = c
    BY <2>3, <2>4, <2>5
  <2> QED BY <2>1, <2>4, <2>6 DEF k
<1>7. c < 128 \/ (128 <= c /\ c < 2048) \/ 2048 <= c
  BY <1>0
<1> QED BY <1>4, <1>5, <1>6, <1>7

-----------------------------------------------------------------------------
(* Text: the bytes of all characters, in order.                            *)

\* strencode() and strdecode() as functions of a place.
EncodesText(f, text) ==
    /\ f \in [Nat \ {0} -> Seq(Nat)]
    /\ \A k \in Nat \ {0} :
          f[k] = IF k > Len(text) THEN <<>> ELSE CharBytes(text[k]) \o f[k + 1]

DecodesText(g, bytes) ==
    /\ g \in [Nat \ {0} -> Seq(Nat)]
    /\ \A k \in Nat \ {0} :
          g[k] = IF k > Len(bytes) THEN <<>> ELSE <<CharAt(bytes, k)>> \o g[k + CharSize(bytes[k])]

LEMMA StrEncodeRecursion ==
    ASSUME NEW text \in Seq(Nat)
    PROVE  \E f : EncodesText(f, text) /\ StrEncode(text) = f[1]
<1> DEFINE D == Nat \ {0}
           V == Seq(Nat)
           rank == [k \in D |-> IF k > Len(text) THEN 0 ELSE Len(text) + 1 - k]
           next == [k \in D |-> k + 1]
           ends == {k \in D : k > Len(text)}
           base == [k \in D |-> <<>>]
           G == [k \in D |-> [v \in V |-> IF k > Len(text) THEN v ELSE CharBytes(text[k]) \o v]]
           Value(f, k) == IF k > Len(text) THEN <<>> ELSE CharBytes(text[k]) \o f[k + 1]
           Written(f) == f = [k \in D |-> Value(f, k)]
           From == CHOOSE f : Written(f)
<1>1. /\ rank \in [D -> Nat] /\ next \in [D -> D] /\ ends \subseteq D /\ base \in [D -> V]
      /\ \A k \in D : k \notin ends => rank[next[k]] < rank[k]
  BY EmptySeq
<1>2. G \in [D -> [V -> V]]
  <2>1. ASSUME NEW k \in D, NEW v \in V, ~(k > Len(text)) PROVE CharBytes(text[k]) \o v \in V
    <3>1. text[k] \in Nat
      BY <2>1
    <3> QED BY <3>1, CharBytesType, ConcatProperties
  <2> QED BY <2>1
<1>3. PICK f \in [D -> V] : \A k \in D : f[k] = IF k \in ends THEN base[k] ELSE G[k][f[next[k]]]
  <2> HIDE DEF D, V, rank, next, ends, base, G
  <2>1. Recursive(D, V, rank, next, ends, base, G)
    BY <1>1, <1>2 DEF Recursive
  <2> QED BY <2>1, Recursion
<1>4. \A k \in D : f[k] = Value(f, k)
  <2> SUFFICES ASSUME NEW k \in D PROVE f[k] = Value(f, k)
    OBVIOUS
  <2>1. next[k] = k + 1 /\ f[k + 1] \in V
    OBVIOUS
  <2>2. G[k][f[k + 1]] = IF k > Len(text) THEN f[k + 1] ELSE CharBytes(text[k]) \o f[k + 1]
    BY <2>1
  <2>3. f[k] = IF k > Len(text) THEN <<>> ELSE G[k][f[k + 1]]
    <3> HIDE DEF G
    <3> QED BY <1>3, <2>1
  <2> HIDE DEF G
  <2> QED BY <2>2, <2>3
<1>5. Written(f)
  <2>1. f = [k \in D |-> f[k]]
    OBVIOUS
  <2> QED BY <1>4, <2>1
<1>6. Written(From)
  <2> HIDE DEF Written
  <2> QED BY <1>5
<1>7. StrEncode(text) = From[1]
  BY DEF StrEncode
<1>8. \A k \in D : From[k] = Value(From, k)
  <2> HIDE DEF From
  <2> QED BY <1>6
<1>9. From \in [D -> V]
  <2> HIDE DEF From
  <2> DEFINE S == {k \in D : From[k] \in V}
  <2>1. ASSUME NEW d \in D, \A e \in D : rank[e] < rank[d] => e \in S PROVE d \in S
    <3>1. CASE d > Len(text)
      BY <1>8, <3>1, EmptySeq
    <3>2. CASE ~(d > Len(text))
      <4>1. next[d] \in D /\ rank[next[d]] < rank[d] /\ next[d] = d + 1
        BY <1>1, <3>2
      <4>2. From[d + 1] \in V
        BY <4>1, <2>1
      <4>3. text[d] \in Nat
        BY <3>2
      <4>4. CharBytes(text[d]) \o From[d + 1] \in V
        BY <4>2, <4>3, CharBytesType, ConcatProperties
      <4> QED BY <1>8, <3>2, <4>4
    <3> QED BY <3>1, <3>2
  <2>2. D \subseteq S
    <3> HIDE DEF S, rank, D
    <3> QED BY <1>1, <2>1, RankInduction
  <2> QED BY <1>6, <2>2
<1> QED BY <1>7, <1>8, <1>9 DEF EncodesText

LEMMA CharSizes ==
    ASSUME NEW byte PROVE CharSize(byte) \in {1, 2, 3}
BY DEF CharSize

LEMMA CharAtType ==
    ASSUME NEW bytes \in Seq(Nat), NEW k \in 1 .. Len(bytes) PROVE CharAt(bytes, k) \in Nat
<1>1. \A j \in Nat \ {0} : Byte(bytes, j) \in Nat
  BY DEF Byte
<1>2. bytes[k] \in Nat /\ k + 1 \in Nat \ {0} /\ k + 2 \in Nat \ {0}
  OBVIOUS
<1>3. \A n \in Nat : n % 64 \in Nat /\ n % 32 \in Nat /\ n % 16 \in Nat
  OBVIOUS
<1>4. (Byte(bytes, k + 1) % 64) \in Nat /\ (Byte(bytes, k + 2) % 64) \in Nat
      /\ (bytes[k] % 32) \in Nat /\ (bytes[k] % 16) \in Nat
  BY <1>1, <1>2, <1>3
<1> DEFINE a == Byte(bytes, k + 1) % 64
           b == Byte(bytes, k + 2) % 64
           d == bytes[k] % 32
           e == bytes[k] % 16
<1>5. CharAt(bytes, k) = IF bytes[k] < 128 THEN bytes[k]
                         ELSE IF bytes[k] < 224 THEN d * 64 + a ELSE e * 4096 + a * 64 + b
  BY DEF CharAt
<1> HIDE DEF a, b, d, e
<1>6. a \in Nat /\ b \in Nat /\ d \in Nat /\ e \in Nat
  BY <1>4 DEF a, b, d, e
<1>7. d * 64 + a \in Nat /\ e * 4096 + a * 64 + b \in Nat
  BY <1>6
<1> QED BY <1>2, <1>5, <1>7

LEMMA StrDecodeRecursion ==
    ASSUME NEW bytes \in Seq(Nat)
    PROVE  \E g : DecodesText(g, bytes) /\ StrDecode(bytes) = g[1]
<1> DEFINE D == Nat \ {0}
           V == Seq(Nat)
           rank == [k \in D |-> IF k > Len(bytes) THEN 0 ELSE Len(bytes) + 1 - k]
           next == [k \in D |-> k + CharSize(bytes[k])]
           ends == {k \in D : k > Len(bytes)}
           base == [k \in D |-> <<>>]
           G == [k \in D |-> [v \in V |-> IF k > Len(bytes) THEN v ELSE <<CharAt(bytes, k)>> \o v]]
           Value(f, k) == IF k > Len(bytes) THEN <<>> ELSE <<CharAt(bytes, k)>> \o f[k + CharSize(bytes[k])]
           Written(f) == f = [k \in D |-> Value(f, k)]
           From == CHOOSE f : Written(f)
<1>0. \A k \in D : k + CharSize(bytes[k]) \in D /\ k + CharSize(bytes[k]) > k
  BY CharSizes
<1>1. /\ rank \in [D -> Nat] /\ next \in [D -> D] /\ ends \subseteq D /\ base \in [D -> V]
      /\ \A k \in D : k \notin ends => rank[next[k]] < rank[k]
  <2>1. rank \in [D -> Nat] /\ ends \subseteq D
    OBVIOUS
  <2>2. next \in [D -> D]
    BY <1>0
  <2>3. base \in [D -> V]
    BY EmptySeq
  <2>4. ASSUME NEW k \in D, k \notin ends PROVE rank[next[k]] < rank[k]
    <3> DEFINE n == k + CharSize(bytes[k])
    <3>1. next[k] = n /\ n \in D /\ n > k
      BY <1>0
    <3>2. Len(bytes) \in Nat /\ ~(k > Len(bytes))
      BY <2>4
    <3> HIDE DEF n, next
    <3>3. rank[k] = Len(bytes) + 1 - k /\ rank[n] = IF n > Len(bytes) THEN 0 ELSE Len(bytes) + 1 - n
      BY <3>1, <3>2
    <3> QED BY <3>1, <3>2, <3>3
  <2> QED BY <2>1, <2>2, <2>3, <2>4
<1>2. G \in [D -> [V -> V]]
  <2>1. ASSUME NEW k \in D, NEW v \in V, ~(k > Len(bytes)) PROVE <<CharAt(bytes, k)>> \o v \in V
    <3>1. CharAt(bytes, k) \in Nat
      BY <2>1, CharAtType
    <3>2. <<CharAt(bytes, k)>> \in V
      BY <3>1
    <3> QED BY <3>2, ConcatProperties
  <2> QED BY <2>1
<1>3. PICK f \in [D -> V] : \A k \in D : f[k] = IF k \in ends THEN base[k] ELSE G[k][f[next[k]]]
  <2> HIDE DEF D, V, rank, next, ends, base, G
  <2>1. Recursive(D, V, rank, next, ends, base, G)
    BY <1>1, <1>2 DEF Recursive
  <2> QED BY <2>1, Recursion
<1>4. \A k \in D : f[k] = Value(f, k)
  <2> SUFFICES ASSUME NEW k \in D PROVE f[k] = Value(f, k)
    OBVIOUS
  <2> DEFINE n == k + CharSize(bytes[k])
  <2>1. next[k] = n /\ f[n] \in V
    BY <1>0
  <2>2. G[k][f[n]] = IF k > Len(bytes) THEN f[n] ELSE <<CharAt(bytes, k)>> \o f[n]
    BY <2>1
  <2>3. f[k] = IF k > Len(bytes) THEN <<>> ELSE G[k][f[n]]
    <3> HIDE DEF G, n
    <3> QED BY <1>3, <2>1
  <2> HIDE DEF G
  <2> QED BY <2>2, <2>3
<1>5. Written(f)
  <2>1. f = [k \in D |-> f[k]]
    OBVIOUS
  <2> QED BY <1>4, <2>1
<1>6. Written(From)
  <2> HIDE DEF Written
  <2> QED BY <1>5
<1>7. StrDecode(bytes) = From[1]
  BY DEF StrDecode
<1> HIDE DEF From
<1>8. \A k \in D : From[k] = Value(From, k)
  BY <1>6
<1>9. From \in [D -> V]
  <2> DEFINE S == {k \in D : From[k] \in V}
  <2>1. ASSUME NEW d \in D, \A e \in D : rank[e] < rank[d] => e \in S PROVE d \in S
    <3>1. CASE d > Len(bytes)
      BY <1>8, <3>1, EmptySeq
    <3>2. CASE ~(d > Len(bytes))
      <4> DEFINE n == d + CharSize(bytes[d])
      <4>1. n \in D /\ rank[n] < rank[d]
        BY <1>0, <1>1, <3>2
      <4>2. From[n] \in V
        BY <4>1, <2>1
      <4>3. <<CharAt(bytes, d)>> \in V
        BY <3>2, CharAtType
      <4>4. <<CharAt(bytes, d)>> \o From[n] \in V
        BY <4>2, <4>3, ConcatProperties
      <4> QED BY <1>8, <3>2, <4>4
    <3> QED BY <3>1, <3>2
  <2>2. D \subseteq S
    <3> HIDE DEF S, rank, D
    <3> QED BY <1>1, <2>1, RankInduction
  <2> QED BY <1>6, <2>2
<1> QED BY <1>7, <1>8, <1>9 DEF DecodesText

\* What remains of a text is what is read from its bytes, whatever is before.
Reads(f, text, k) ==
    \A P \in Seq(Nat) : \A g : DecodesText(g, P \o f[k]) => g[Len(P) + 1] = SubSeq(text, k, Len(text))

LEMMA DecodeEnd ==
    ASSUME NEW P \in Seq(Nat), NEW g, DecodesText(g, P) PROVE g[Len(P) + 1] = <<>>
<1>1. Len(P) + 1 \in Nat \ {0} /\ Len(P) + 1 > Len(P)
  OBVIOUS
<1> QED BY <1>1 DEF DecodesText

LEMMA DecodeStep ==
    ASSUME NEW bytes \in Seq(Nat), NEW g, DecodesText(g, bytes), NEW k \in 1 .. Len(bytes)
    PROVE  g[k] = <<CharAt(bytes, k)>> \o g[k + CharSize(bytes[k])]
<1>1. k \in Nat \ {0} /\ ~(k > Len(bytes))
  OBVIOUS
<1> QED BY <1>1 DEF DecodesText

LEMMA ThreeParts ==
    ASSUME NEW P \in Seq(Nat), NEW B \in Seq(Nat), NEW Q \in Seq(Nat)
    PROVE  /\ P \o (B \o Q) = (P \o B) \o Q
           /\ P \o B \in Seq(Nat) /\ (P \o B) \o Q \in Seq(Nat)
           /\ Len(P \o B) = Len(P) + Len(B)
           /\ Len((P \o B) \o Q) = Len(P) + Len(B) + Len(Q)
<1>1. P \o (B \o Q) = (P \o B) \o Q
  BY ConcatAssociative
<1>2. P \o B \in Seq(Nat) /\ Len(P \o B) = Len(P) + Len(B)
  BY ConcatProperties
<1>3. (P \o B) \o Q \in Seq(Nat) /\ Len((P \o B) \o Q) = Len(P \o B) + Len(Q)
  BY <1>2, ConcatProperties
<1> QED BY <1>1, <1>2, <1>3

LEMMA DecodeChar ==
    ASSUME NEW c \in Unit, NEW P \in Seq(Nat), NEW Q \in Seq(Nat), NEW g
    PROVE  /\ P \o CharBytes(c) \in Seq(Nat)
           /\ DecodesText(g, P \o (CharBytes(c) \o Q)) =>
                  /\ DecodesText(g, (P \o CharBytes(c)) \o Q)
                  /\ g[Len(P) + 1] = <<c>> \o g[Len(P \o CharBytes(c)) + 1]
<1>0. c \in Nat
  BY DEF Unit
<1>1. PICK B \in Seq(Nat) : B = CharBytes(c)
  BY <1>0, CharBytesType
<1>2. Len(B) = 1 \/ Len(B) = 2 \/ Len(B) = 3
  BY <1>0, <1>1, CharBytesType
<1>3. /\ P \o (B \o Q) = (P \o B) \o Q
      /\ P \o B \in Seq(Nat) /\ (P \o B) \o Q \in Seq(Nat)
      /\ Len(P \o B) = Len(P) + Len(B)
      /\ Len((P \o B) \o Q) = Len(P) + Len(B) + Len(Q)
  BY ThreeParts
<1>4. SUFFICES ASSUME DecodesText(g, (P \o B) \o Q)
              PROVE  g[Len(P) + 1] = <<c>> \o g[Len(P \o B) + 1]
  BY <1>1, <1>3
<1>5. PICK bytes \in Seq(Nat) : bytes = (P \o B) \o Q
  BY <1>3
<1>6. Len(bytes) = Len(P) + Len(B) + Len(Q) /\ DecodesText(g, bytes)
  BY <1>3, <1>4, <1>5
<1>7. CharAt(bytes, Len(P) + 1) = c /\ CharSize(bytes[Len(P) + 1]) = Len(B)
  BY <1>1, <1>5, CharRoundTrip
<1>8. Len(P) \in Nat /\ Len(B) \in Nat /\ Len(B) # 0 /\ Len(Q) \in Nat
  <2>1. Len(P) \in Nat /\ Len(B) \in Nat /\ Len(Q) \in Nat
    OBVIOUS
  <2>2. Len(B) # 0
    <3>1. \A n \in Nat : n = 1 \/ n = 2 \/ n = 3 => n # 0
      OBVIOUS
    <3> QED BY <1>2, <2>1, <3>1, Zenon
  <2> QED BY <2>1, <2>2
<1>9. Len(P) + 1 \in 1 .. Len(bytes)
  BY <1>6, <1>8
<1>10. g[Len(P) + 1] = <<c>> \o g[Len(P) + 1 + Len(B)]
  BY <1>6, <1>7, <1>9, DecodeStep
<1>11. Len(P) + 1 + Len(B) = Len(P \o B) + 1
  BY <1>3, <1>8
<1> QED BY <1>10, <1>11

LEMMA ReadsEnd ==
    ASSUME NEW f, NEW text \in Seq(Nat), EncodesText(f, text)
    PROVE  Reads(f, text, Len(text) + 1)
<1>1. f[Len(text) + 1] = <<>>
  <2>1. Len(text) + 1 \in Nat \ {0} /\ Len(text) + 1 > Len(text)
    OBVIOUS
  <2> QED BY <2>1 DEF EncodesText
<1>2. SubSeq(text, Len(text) + 1, Len(text)) = <<>>
  <2>1. Len(text) \in Int /\ Len(text) + 1 \in Int /\ Len(text) < Len(text) + 1
    OBVIOUS
  <2> QED BY <2>1, SubSeqEmpty
<1>3. \A P \in Seq(Nat) : P \o <<>> = P
  BY ConcatEmptySeq
<1> QED BY <1>1, <1>2, <1>3, DecodeEnd DEF Reads

LEMMA ReadsStep ==
    ASSUME NEW f, NEW text \in Text, EncodesText(f, text), NEW k \in 1 .. Len(text),
           Reads(f, text, k + 1)
    PROVE  Reads(f, text, k)
<1>1. text \in Seq(Nat) /\ text[k] \in Unit
  BY DEF Text
<1>2. f[k + 1] \in Seq(Nat) /\ f[k] = CharBytes(text[k]) \o f[k + 1]
  <2>1. k \in Nat \ {0} /\ k + 1 \in Nat \ {0} /\ ~(k > Len(text))
    BY <1>1
  <2> QED BY <2>1 DEF EncodesText
<1>3. SubSeq(text, k, Len(text)) = <<text[k]>> \o SubSeq(text, k + 1, Len(text))
  <2>1. Len(text) \in k .. Len(text)
    BY <1>1
  <2> QED BY <1>1, <2>1, SubSeqRecursiveFirst
<1>4. SUFFICES ASSUME NEW P \in Seq(Nat), NEW g, DecodesText(g, P \o f[k])
               PROVE  g[Len(P) + 1] = SubSeq(text, k, Len(text))
  BY DEF Reads
<1>c. PICK c \in Unit : c = text[k]
  BY <1>1
<1>q. PICK Q \in Seq(Nat) : Q = f[k + 1]
  BY <1>2
<1>5. DecodesText(g, P \o (CharBytes(c) \o Q))
  BY <1>2, <1>4, <1>c, <1>q
<1>6. /\ P \o CharBytes(c) \in Seq(Nat)
      /\ DecodesText(g, (P \o CharBytes(c)) \o Q)
      /\ g[Len(P) + 1] = <<c>> \o g[Len(P \o CharBytes(c)) + 1]
  BY <1>5, DecodeChar
<1>b. PICK B \in Seq(Nat) : B = P \o CharBytes(c)
  BY <1>6
<1>7. g[Len(B) + 1] = SubSeq(text, k + 1, Len(text))
  <2>1. DecodesText(g, B \o f[k + 1])
    BY <1>6, <1>b, <1>q
  <2> QED BY <2>1 DEF Reads
<1> QED BY <1>3, <1>6, <1>7, <1>b, <1>c

LEMMA TextFrom ==
    ASSUME NEW f, NEW text \in Text, EncodesText(f, text)
    PROVE  Reads(f, text, 1)
<1> DEFINE D == 1 .. Len(text) + 1
           rank == [k \in D |-> Len(text) + 1 - k]
           S == {k \in D : Reads(f, text, k)}
<1>0. text \in Seq(Nat) /\ Len(text) \in Nat
  BY DEF Text
<1>1. rank \in [D -> Nat]
  BY <1>0
<1>2. ASSUME NEW k \in D, \A e \in D : rank[e] < rank[k] => e \in S PROVE k \in S
  <2>1. CASE k = Len(text) + 1
    BY <1>0, <2>1, ReadsEnd
  <2>2. CASE k \in 1 .. Len(text)
    <3>1. k + 1 \in D /\ rank[k + 1] < rank[k]
      BY <1>0, <2>2
    <3>2. Reads(f, text, k + 1)
      BY <1>2, <3>1
    <3> QED BY <2>2, <3>2, ReadsStep
  <2> QED BY <1>0, <2>1, <2>2
<1>3. D \subseteq S
  <2> HIDE DEF D, S, rank
  <2> QED BY <1>1, <1>2, RankInduction
<1>4. 1 \in D
  BY <1>0
<1> QED BY <1>3, <1>4

\* strdecode() returns the text that strencode() was given.
THEOREM TextRoundTrip ==
    ASSUME NEW text \in Text
    PROVE  StrEncode(text) \in Seq(Nat) /\ StrDecode(StrEncode(text)) = text
<1>1. text \in Seq(Nat)
  BY DEF Text
<1>2. PICK f : EncodesText(f, text) /\ StrEncode(text) = f[1]
  BY <1>1, StrEncodeRecursion
<1>3. f[1] \in Seq(Nat)
  BY <1>2 DEF EncodesText
<1>4. PICK g : DecodesText(g, f[1]) /\ StrDecode(f[1]) = g[1]
  BY <1>3, StrDecodeRecursion
<1>5. <<>> \o f[1] = f[1] /\ <<>> \in Seq(Nat) /\ Len(<<>>) + 1 = 1
  BY <1>3, ConcatEmptySeq
<1>6. g[1] = SubSeq(text, 1, Len(text))
  <2>1. Reads(f, text, 1)
    BY <1>2, TextFrom
  <2>2. DecodesText(g, <<>> \o f[1])
    BY <1>4, <1>5
  <2>3. g[Len(<<>>) + 1] = SubSeq(text, 1, Len(text))
    BY <1>5, <2>1, <2>2 DEF Reads
  <2> QED BY <1>5, <2>3
<1> QED BY <1>1, <1>2, <1>3, <1>4, <1>6, SubSeqFull

-----------------------------------------------------------------------------
(* Message ids: seven bits a byte, and the length reserved for them.       *)

LEMMA ByteNumbers ==
    ASSUME NEW n \in Nat
    PROVE  /\ n \div 128 \in Nat /\ n % 128 \in Nat /\ n % 128 < 128
           /\ n = 128 * (n \div 128) + (n % 128)
           /\ (n \div 128 = 0) <=> (n < 128)
           /\ n >= 128 => n \div 128 < n
           /\ (n % 128) + 128 >= 128 /\ ((n % 128) + 128) % 128 = n % 128
OBVIOUS

LEMMA IdBytesRecursion ==
    /\ \A n \in Nat : n < 128 => IdBytes(n) = <<n>>
    /\ \A n \in Nat : ~(n < 128) => IdBytes(n) = <<(n % 128) + 128>> \o IdBytes(n \div 128)
    /\ \A n \in Nat : IdBytes(n) \in Seq(Nat)
<1> DEFINE V == Seq(Nat)
           rank == [n \in Nat |-> n]
           next == [n \in Nat |-> n \div 128]
           ends == {n \in Nat : n < 128}
           base == [n \in Nat |-> <<n>>]
           G == [n \in Nat |-> [v \in V |-> <<(n % 128) + 128>> \o v]]
           Value(f, n) == IF n < 128 THEN <<n>> ELSE <<(n % 128) + 128>> \o f[n \div 128]
           Written(f) == f = [n \in Nat |-> Value(f, n)]
           From == CHOOSE f : Written(f)
<1>1. /\ rank \in [Nat -> Nat] /\ next \in [Nat -> Nat] /\ ends \subseteq Nat /\ base \in [Nat -> V]
      /\ \A n \in Nat : n \notin ends => rank[next[n]] < rank[n]
  BY ByteNumbers
<1>2. \A n \in Nat, v \in V : <<(n % 128) + 128>> \o v \in V
  <2> SUFFICES ASSUME NEW n \in Nat, NEW v \in V PROVE <<(n % 128) + 128>> \o v \in V
    OBVIOUS
  <2>1. PICK b \in Nat : b = (n % 128) + 128
    BY ByteNumbers
  <2>2. <<b>> \in V
    OBVIOUS
  <2>3. <<b>> \o v \in V
    BY <2>2, ConcatProperties
  <2> QED BY <2>1, <2>3
<1>3. PICK f \in [Nat -> V] : \A n \in Nat : f[n] = IF n \in ends THEN base[n] ELSE G[n][f[next[n]]]
  <2>1. G \in [Nat -> [V -> V]]
    BY <1>2
  <2> HIDE DEF V, rank, next, ends, base, G
  <2>2. Recursive(Nat, V, rank, next, ends, base, G)
    BY <1>1, <2>1 DEF Recursive
  <2> QED BY <2>2, Recursion
<1>4. \A n \in Nat : f[n] = Value(f, n)
  <2> SUFFICES ASSUME NEW n \in Nat PROVE f[n] = Value(f, n)
    OBVIOUS
  <2>1. PICK k \in Nat : k = n \div 128
    BY ByteNumbers
  <2>2. G[n][f[k]] = <<(n % 128) + 128>> \o f[k]
    OBVIOUS
  <2>3. f[n] = IF n < 128 THEN <<n>> ELSE G[n][f[k]]
    <3> HIDE DEF G
    <3> QED BY <1>3, <2>1
  <2> HIDE DEF G
  <2> QED BY <2>1, <2>2, <2>3
<1>5. Written(f)
  <2>1. f = [n \in Nat |-> f[n]]
    OBVIOUS
  <2> QED BY <1>4, <2>1
<1>6. Written(From)
  <2> HIDE DEF Written
  <2> QED BY <1>5
<1>7. \A n \in Nat : IdBytes(n) = From[n]
  BY DEF IdBytes
<1> HIDE DEF From
<1>8. \A n \in Nat : From[n] = Value(From, n)
  BY <1>6
<1>9. \A n \in Nat : From[n] \in V
  <2> DEFINE S == {n \in Nat : From[n] \in V}
  <2>1. ASSUME NEW n \in Nat, \A k \in Nat : rank[k] < rank[n] => k \in S PROVE n \in S
    <3>1. CASE n < 128
      <4>1. From[n] = <<n>>
        BY <1>8, <3>1
      <4>2. <<n>> \in V
        OBVIOUS
      <4> QED BY <4>1, <4>2
    <3>2. CASE ~(n < 128)
      <4>1. PICK k \in Nat : k = n \div 128 /\ k < n
        BY <3>2, ByteNumbers
      <4>2. From[k] \in V
        BY <4>1, <2>1
      <4>3. From[n] = <<(n % 128) + 128>> \o From[k]
        BY <1>8, <3>2, <4>1
      <4>4. <<(n % 128) + 128>> \o From[k] \in V
        <5> HIDE DEF V
        <5> QED BY <1>2, <4>2
      <4> QED BY <4>3, <4>4
    <3> QED BY <3>1, <3>2
  <2>2. Nat \subseteq S
    <3> DEFINE D == Nat
    <3>1. rank \in [D -> Nat] /\ \A n \in D : (\A k \in D : rank[k] < rank[n] => k \in S) => n \in S
      <4> HIDE DEF S
      <4> QED BY <1>1, <2>1
    <3> HIDE DEF S, rank, D
    <3>2. D \subseteq S
      BY <3>1, RankInduction
    <3> QED BY <3>2 DEF D
  <2> QED BY <2>2
<1>10. \A n \in Nat : n \div 128 \in Nat
  BY ByteNumbers
<1>11. \A n \in Nat : n < 128 => IdBytes(n) = <<n>>
  BY <1>7, <1>8
<1>12. ASSUME NEW n \in Nat, ~(n < 128) PROVE IdBytes(n) = <<(n % 128) + 128>> \o IdBytes(n \div 128)
  <2>1. PICK k \in Nat : k = n \div 128
    BY <1>10
  <2>2. IdBytes(n) = <<(n % 128) + 128>> \o From[k]
    BY <1>7, <1>8, <1>12, <2>1
  <2> QED BY <1>7, <2>1, <2>2
<1>13. \A n \in Nat : IdBytes(n) \in Seq(Nat)
  BY <1>7, <1>9
<1> QED BY <1>11, <1>12, <1>13

LEMMA IdLengthRecursion ==
    /\ \A n \in Nat : n < 128 => IdLength(n) = 1
    /\ \A n \in Nat : ~(n < 128) => IdLength(n) = 1 + IdLength(n \div 128)
<1> DEFINE rank == [n \in Nat |-> n]
           next == [n \in Nat |-> n \div 128]
           ends == {n \in Nat : n < 128}
           base == [n \in Nat |-> 1]
           G == [n \in Nat |-> [v \in Nat |-> 1 + v]]
           Value(f, n) == IF n \div 128 = 0 THEN 1 ELSE 1 + f[n \div 128]
           Written(f) == f = [n \in Nat |-> Value(f, n)]
           From == CHOOSE f : Written(f)
<1>1. /\ rank \in [Nat -> Nat] /\ next \in [Nat -> Nat] /\ ends \subseteq Nat /\ base \in [Nat -> Nat]
      /\ \A n \in Nat : n \notin ends => rank[next[n]] < rank[n]
      /\ G \in [Nat -> [Nat -> Nat]]
  BY ByteNumbers
<1>2. PICK f \in [Nat -> Nat] : \A n \in Nat : f[n] = IF n \in ends THEN base[n] ELSE G[n][f[next[n]]]
  <2> HIDE DEF rank, next, ends, base, G
  <2>2. Recursive(Nat, Nat, rank, next, ends, base, G)
    BY <1>1 DEF Recursive
  <2> QED BY <2>2, Recursion
<1>3. Written(f)
  <2>1. \A n \in Nat : f[n] = Value(f, n)
    <3> SUFFICES ASSUME NEW n \in Nat PROVE f[n] = Value(f, n)
      OBVIOUS
    <3>1. PICK k \in Nat : k = n \div 128
      BY ByteNumbers
    <3>2. f[n] = IF n < 128 THEN 1 ELSE 1 + f[k]
      BY <1>2, <3>1
    <3>3. (n < 128) <=> (k = 0)
      BY <3>1, ByteNumbers
    <3> QED BY <3>1, <3>2, <3>3
  <2>2. f = [n \in Nat |-> f[n]]
    OBVIOUS
  <2> QED BY <2>1, <2>2
<1>4. Written(From)
  <2> HIDE DEF Written
  <2> QED BY <1>3
<1>5. \A n \in Nat : IdLength(n) = From[n]
  BY DEF IdLength
<1> HIDE DEF From
<1>6. \A n \in Nat : From[n] = Value(From, n)
  BY <1>4
<1> QED BY <1>5, <1>6, ByteNumbers

\* The length that is reserved for an id is the number of bytes it gets.
LEMMA IdLengthExact ==
    ASSUME NEW id \in Nat
    PROVE  Len(IdBytes(id)) = IdLength(id) /\ Len(IdBytes(id)) > 0
<1> DEFINE rank == [n \in Nat |-> n]
           S == {n \in Nat : Len(IdBytes(n)) = IdLength(n) /\ Len(IdBytes(n)) > 0}
<1>1. rank \in [Nat -> Nat]
  OBVIOUS
<1>2. ASSUME NEW n \in Nat, \A k \in Nat : rank[k] < rank[n] => k \in S PROVE n \in S
  <2>1. CASE n < 128
    <3>1. IdBytes(n) = <<n>> /\ IdLength(n) = 1
      BY <2>1, IdBytesRecursion, IdLengthRecursion
    <3>2. Len(<<n>>) = 1
      OBVIOUS
    <3> QED BY <3>1, <3>2
  <2>2. CASE ~(n < 128)
    <3>1. PICK k \in Nat : k = n \div 128 /\ k < n
      BY <2>2, ByteNumbers
    <3>2. PICK b \in Nat : b = (n % 128) + 128
      BY ByteNumbers
    <3>3. PICK B \in Seq(Nat) : B = IdBytes(k)
      BY IdBytesRecursion
    <3>4. Len(B) = IdLength(k) /\ Len(B) > 0
      BY <1>2, <3>1, <3>3
    <3>5. IdBytes(n) = <<b>> \o B /\ IdLength(n) = 1 + Len(B)
      BY <2>2, <3>1, <3>2, <3>3, <3>4, IdBytesRecursion, IdLengthRecursion
    <3>6. Len(<<b>> \o B) = 1 + Len(B)
      BY ConcatProperties
    <3> QED BY <3>4, <3>5, <3>6
  <2> QED BY <2>1, <2>2
<1>3. Nat \subseteq S
  <2> HIDE DEF S, rank
  <2> QED BY <1>1, <1>2, RankInduction
<1> QED BY <1>3

\* The elements of three sequences one after the other.
LEMMA PartsOf ==
    ASSUME NEW P \in Seq(Nat), NEW B \in Seq(Nat), NEW Q \in Seq(Nat), NEW bytes \in Seq(Nat)
    PROVE  bytes = (P \o B) \o Q =>
               /\ Len(P) \in Nat /\ Len(B) \in Nat /\ Len(Q) \in Nat
               /\ Len(bytes) = Len(P) + Len(B) + Len(Q)
               /\ \A i \in 1 .. Len(P) : bytes[i] = P[i]
               /\ \A i \in 1 .. Len(B) : bytes[Len(P) + i] = B[i]
               /\ \A i \in 1 .. Len(Q) : bytes[Len(P) + Len(B) + i] = Q[i]
<1>1. PICK A \in Seq(Nat) : A = P \o B
  BY ConcatProperties
<1>2. Len(A) = Len(P) + Len(B) /\ \A i \in 1 .. Len(P) + Len(B) : A[i] = IF i <= Len(P) THEN P[i] ELSE B[i - Len(P)]
  BY <1>1, ConcatProperties
<1>3. PICK C \in Seq(Nat) : C = A \o Q
  BY ConcatProperties
<1>4. Len(C) = Len(A) + Len(Q) /\ \A i \in 1 .. Len(A) + Len(Q) : C[i] = IF i <= Len(A) THEN A[i] ELSE Q[i - Len(A)]
  BY <1>3, ConcatProperties
<1>5. Len(P) \in Nat /\ Len(B) \in Nat /\ Len(Q) \in Nat /\ Len(A) \in Nat
  OBVIOUS
<1>6. ASSUME NEW i \in 1 .. Len(P) PROVE C[i] = P[i]
  <2>1. i \in 1 .. Len(P) + Len(B) /\ i <= Len(P)
    BY <1>5
  <2>2. i \in 1 .. Len(A) + Len(Q) /\ i <= Len(A)
    BY <1>2, <1>5, <2>1
  <2> QED BY <1>2, <1>4, <2>1, <2>2
<1>7. ASSUME NEW i \in 1 .. Len(B) PROVE C[Len(P) + i] = B[i]
  <2>1. PICK j \in Nat : j = Len(P) + i
    BY <1>5
  <2>2. j \in 1 .. Len(P) + Len(B) /\ ~(j <= Len(P)) /\ j - Len(P) = i
    BY <1>5, <2>1
  <2>3. A[j] = B[i]
    BY <1>2, <2>2
  <2>4. j \in 1 .. Len(A) + Len(Q) /\ j <= Len(A)
    BY <1>2, <1>5, <2>2
  <2> QED BY <1>4, <2>1, <2>3, <2>4
<1>8. ASSUME NEW i \in 1 .. Len(Q) PROVE C[Len(P) + Len(B) + i] = Q[i]
  <2>1. PICK j \in Nat : j = Len(P) + Len(B) + i
    BY <1>5
  <2>2. j \in 1 .. Len(A) + Len(Q) /\ ~(j <= Len(A)) /\ j - Len(A) = i
    BY <1>2, <1>5, <2>1
  <2> QED BY <1>4, <2>1, <2>2
<1>9. bytes = (P \o B) \o Q => bytes = C
  BY <1>1, <1>3
<1> QED BY <1>2, <1>4, <1>5, <1>6, <1>7, <1>8, <1>9

LEMMA IdAtRecursion ==
    ASSUME NEW bytes \in Seq(Nat), NEW k \in 1 .. Len(bytes)
    PROVE  IdAt(bytes, k) = IF bytes[k] < 128 THEN bytes[k]
                            ELSE (bytes[k] % 128) + 128 * IdAt(bytes, k + 1)
<1> DEFINE D == Nat \ {0}
           rank == [j \in D |-> IF j > Len(bytes) THEN 0 ELSE Len(bytes) + 1 - j]
           next == [j \in D |-> j + 1]
           ends == {j \in D : j > Len(bytes) \/ bytes[j] < 128}
           base == [j \in D |-> IF j > Len(bytes) THEN 0 ELSE bytes[j]]
           G == [j \in D |-> [v \in Nat |-> IF j > Len(bytes) THEN 0 ELSE (bytes[j] % 128) + 128 * v]]
           Value(f, j) == IF j > Len(bytes) THEN 0
                          ELSE IF bytes[j] < 128 THEN bytes[j]
                          ELSE (bytes[j] % 128) + 128 * f[j + 1]
           Written(f) == f = [j \in D |-> Value(f, j)]
           From == CHOOSE f : Written(f)
<1>1. /\ rank \in [D -> Nat] /\ next \in [D -> D] /\ ends \subseteq D
      /\ \A j \in D : j \notin ends => rank[next[j]] < rank[j]
  OBVIOUS
<1>2. \A j \in D : ~(j > Len(bytes)) => bytes[j] \in Nat
  OBVIOUS
<1>3. base \in [D -> Nat]
  BY <1>2
<1>4. G \in [D -> [Nat -> Nat]]
  <2>1. \A b, v \in Nat : (b % 128) + 128 * v \in Nat
    OBVIOUS
  <2> QED BY <1>2, <2>1
<1>5. PICK f \in [D -> Nat] : \A j \in D : f[j] = IF j \in ends THEN base[j] ELSE G[j][f[next[j]]]
  <2> DEFINE V == Nat
  <2>1. base \in [D -> V] /\ G \in [D -> [V -> V]]
    BY <1>3, <1>4
  <2> HIDE DEF D, V, rank, next, ends, base, G
  <2>2. Recursive(D, V, rank, next, ends, base, G)
    BY <1>1, <2>1 DEF Recursive
  <2>3. \E f \in [D -> V] : \A j \in D : f[j] = IF j \in ends THEN base[j] ELSE G[j][f[next[j]]]
    BY <2>2, Recursion
  <2> QED BY <2>3 DEF V
<1>6. Written(f)
  <2>1. ASSUME NEW j \in D PROVE f[j] = Value(f, j)
    <3>1. next[j] = j + 1 /\ f[j + 1] \in Nat
      OBVIOUS
    <3>2. G[j][f[j + 1]] = IF j > Len(bytes) THEN 0 ELSE (bytes[j] % 128) + 128 * f[j + 1]
      BY <3>1
    <3>3. f[j] = IF j \in ends THEN base[j] ELSE G[j][f[j + 1]]
      <4> HIDE DEF G, base, ends
      <4> QED BY <1>5, <3>1
    <3> HIDE DEF G
    <3> QED BY <3>2, <3>3
  <2>2. f = [j \in D |-> f[j]]
    OBVIOUS
  <2> QED BY <2>1, <2>2
<1>7. Written(From)
  <2> HIDE DEF Written
  <2> QED BY <1>6
<1>8. IdAt(bytes, k) = From[k] /\ IdAt(bytes, k + 1) = From[k + 1]
  BY DEF IdAt
<1> HIDE DEF From
<1>9. From[k] = Value(From, k)
  <2>1. k \in D
    OBVIOUS
  <2> QED BY <1>7, <2>1
<1>10. ~(k > Len(bytes))
  OBVIOUS
<1> QED BY <1>8, <1>9, <1>10

\* All the bytes of an id but the last have the top bit.
LEMMA IdBytesShape ==
    ASSUME NEW id \in Nat, NEW B \in Seq(Nat), B = IdBytes(id)
    PROVE  /\ Len(B) \in Nat \ {0}
           /\ B[Len(B)] < 128
           /\ \A j \in 1 .. Len(B) - 1 : B[j] >= 128
<1> DEFINE D == Nat
           rank == [n \in D |-> n]
           Shape(b) == Len(b) \in Nat \ {0} /\ b[Len(b)] < 128 /\ \A j \in 1 .. Len(b) - 1 : b[j] >= 128
           S == {n \in D : \A b \in Seq(Nat) : b = IdBytes(n) => Shape(b)}
<1>1. rank \in [D -> Nat]
  OBVIOUS
<1>2. ASSUME NEW n \in D, \A k \in D : rank[k] < rank[n] => k \in S PROVE n \in S
  <2>1. CASE n < 128
    <3>1. IdBytes(n) = <<n>>
      BY <2>1, IdBytesRecursion
    <3>2. Shape(<<n>>)
      BY <2>1
    <3> QED BY <3>1, <3>2
  <2>2. CASE ~(n < 128)
    <3>1. PICK k \in Nat : k = n \div 128 /\ k < n
      BY <2>2, ByteNumbers
    <3>2. PICK b \in Nat : b = (n % 128) + 128 /\ b >= 128
      BY ByteNumbers
    <3>3. PICK C \in Seq(Nat) : C = IdBytes(k)
      BY IdBytesRecursion
    <3>4. Shape(C)
      BY <1>2, <3>1, <3>3
    <3>5. IdBytes(n) = <<b>> \o C
      BY <2>2, <3>1, <3>2, <3>3, IdBytesRecursion
    <3>a. <<b>> \in Seq(Nat)
      OBVIOUS
    <3>6. PICK A \in Seq(Nat) : A = <<b>> \o C
      BY <3>a, ConcatProperties
    <3>7. Len(A) = 1 + Len(C) /\ \A i \in 1 .. 1 + Len(C) : A[i] = IF i <= 1 THEN b ELSE C[i - 1]
      BY <3>6, ConcatProperties
    <3>8. PICK l \in Nat \ {0} : l = Len(C)
      BY <3>4
    <3>9. A[l + 1] = C[l] /\ \A j \in 1 .. l : A[j] = IF j = 1 THEN b ELSE C[j - 1]
      BY <3>7, <3>8
    <3>10. C[l] < 128 /\ \A j \in 1 .. l - 1 : C[j] >= 128
      BY <3>4, <3>8
    <3>11. ASSUME NEW j \in 1 .. l PROVE A[j] >= 128
      <4>1. CASE j = 1
        BY <3>2, <3>9, <4>1
      <4>2. CASE j # 1
        <5>1. j - 1 \in 1 .. l - 1
          BY <3>8, <4>2
        <5> QED BY <3>9, <3>10, <4>2, <5>1
      <4> QED BY <4>1, <4>2
    <3>12. Shape(A)
      BY <3>7, <3>8, <3>9, <3>10, <3>11
    <3> QED BY <3>5, <3>6, <3>12
  <2> QED BY <2>1, <2>2
<1>3. D \subseteq S
  <2> HIDE DEF S, rank, D
  <2> QED BY <1>1, <1>2, RankInduction
<1> QED BY <1>3

\* An id is read as what was written, whatever is before it and after it.
IdReads(id) ==
    \A P, Q, B, bytes \in Seq(Nat) :
        B = IdBytes(id) /\ bytes = (P \o B) \o Q => IdAt(bytes, Len(P) + 1) = id

LEMMA IdRoundTrip ==
    \A id \in Nat : IdReads(id)
<1> DEFINE D == Nat
           rank == [n \in D |-> n]
           S == {n \in D : IdReads(n)}
<1>1. rank \in [D -> Nat]
  OBVIOUS
<1>2. ASSUME NEW n \in D, \A k \in D : rank[k] < rank[n] => k \in S PROVE n \in S
  <2>1. CASE n < 128
    <3>1. ASSUME NEW P \in Seq(Nat), NEW Q \in Seq(Nat), NEW B \in Seq(Nat), NEW bytes \in Seq(Nat),
                 B = IdBytes(n) /\ bytes = (P \o B) \o Q
          PROVE  IdAt(bytes, Len(P) + 1) = n
      <4>1. B = <<n>>
        BY <2>1, <3>1, IdBytesRecursion
      <4>2. Len(B) = 1 /\ B[1] = n
        BY <4>1
      <4>3. PICK k \in Nat : k = Len(P) + 1
        OBVIOUS
      <4>4. k \in 1 .. Len(bytes) /\ bytes[k] = n
        <5>1. /\ Len(P) \in Nat /\ Len(Q) \in Nat /\ Len(bytes) = Len(P) + Len(B) + Len(Q)
              /\ \A i \in 1 .. Len(B) : bytes[Len(P) + i] = B[i]
          BY <3>1, PartsOf
        <5> QED BY <4>2, <4>3, <5>1
      <4>5. IdAt(bytes, k) = n
        BY <2>1, <4>4, IdAtRecursion
      <4> QED BY <4>3, <4>5
    <3> QED BY <3>1 DEF IdReads
  <2>2. CASE ~(n < 128)
    <3>1. PICK h \in Nat : h = n \div 128 /\ h < n
      BY <2>2, ByteNumbers
    <3>2. PICK b \in Nat : b = (n % 128) + 128 /\ b >= 128
      BY ByteNumbers
    <3>3. n = 128 * h + (b % 128)
      BY <3>1, <3>2, ByteNumbers
    <3>4. PICK C \in Seq(Nat) : C = IdBytes(h)
      BY IdBytesRecursion
    <3>5. IdBytes(n) = <<b>> \o C
      BY <2>2, <3>1, <3>2, <3>4, IdBytesRecursion
    <3>6. IdReads(h)
      BY <1>2, <3>1
    <3>a. <<b>> \in Seq(Nat)
      OBVIOUS
    <3>7. PICK U \in Seq(Nat) : U = <<b>>
      BY <3>a
    <3>8. Len(U) = 1 /\ U[1] = b
      BY <3>7
    <3>b. \A P \in Seq(Nat) : P \o (U \o C) = (P \o U) \o C /\ P \o U \in Seq(Nat)
      BY ThreeParts
    <3>9. ASSUME NEW P \in Seq(Nat), NEW Q \in Seq(Nat), NEW B \in Seq(Nat), NEW bytes \in Seq(Nat),
                 B = IdBytes(n) /\ bytes = (P \o B) \o Q
          PROVE  IdAt(bytes, Len(P) + 1) = n
      <4>1. B = U \o C
        BY <3>5, <3>7, <3>9
      <4>2. PICK A \in Seq(Nat) : A = P \o U
        BY <3>b
      <4>3. P \o B = A \o C
        <5>1. P \o (U \o C) = (P \o U) \o C
          BY <3>b
        <5> QED BY <4>1, <4>2, <5>1
      <4>4. bytes = (A \o C) \o Q
        BY <3>9, <4>3
      <4>5. IdAt(bytes, Len(A) + 1) = h
        BY <3>4, <3>6, <4>4 DEF IdReads
      <4>6. Len(A) = Len(P) + 1 /\ \A i \in 1 .. Len(U) : A[Len(P) + i] = U[i]
        <5>1. Len(A) = Len(P) + Len(U) /\ \A i \in 1 .. Len(P) + Len(U) : A[i] = IF i <= Len(P) THEN P[i] ELSE U[i - Len(P)]
          BY <4>2, ConcatProperties
        <5>2. PICK p \in Nat : p = Len(P)
          OBVIOUS
        <5>3. Len(A) = p + 1 /\ A[p + 1] = b
          <6>1. PICK j \in Nat : j = p + 1
            OBVIOUS
          <6>2. j \in 1 .. Len(P) + Len(U) /\ ~(j <= Len(P)) /\ j - Len(P) = 1
            BY <3>8, <5>2, <6>1
          <6>3. A[j] = U[1]
            BY <5>1, <6>2
          <6> QED BY <3>8, <5>1, <5>2, <6>1, <6>3
        <5>4. \A i \in 1 .. Len(U) : i = 1
          BY <3>8
        <5> QED BY <3>8, <5>2, <5>3, <5>4
      <4>7. PICK k \in Nat : k = Len(P) + 1
        OBVIOUS
      <4>8. k \in 1 .. Len(bytes) /\ bytes[k] = b
        <5>1. /\ Len(A) \in Nat /\ Len(C) \in Nat /\ Len(Q) \in Nat /\ Len(bytes) = Len(A) + Len(C) + Len(Q)
              /\ \A i \in 1 .. Len(A) : bytes[i] = A[i]
          BY <4>4, PartsOf
        <5>2. k \in 1 .. Len(A) /\ A[k] = b
          BY <3>8, <4>6, <4>7
        <5> QED BY <5>1, <5>2
      <4>9. k + 1 = Len(A) + 1
        BY <4>6, <4>7
      <4>10. IdAt(bytes, k + 1) = h
        BY <4>5, <4>9
      <4>11. IdAt(bytes, k) = (b % 128) + 128 * h
        <5>1. ~(b < 128)
          BY <3>2
        <5>2. IdAt(bytes, k) = IF bytes[k] < 128 THEN bytes[k] ELSE (bytes[k] % 128) + 128 * IdAt(bytes, k + 1)
          BY <4>8, IdAtRecursion
        <5> QED BY <4>8, <4>10, <5>1, <5>2
      <4> QED BY <3>3, <3>2, <4>7, <4>11
    <3> QED BY <3>9 DEF IdReads
  <2> QED BY <2>1, <2>2
<1>3. D \subseteq S
  <2> HIDE DEF S, rank, D
  <2> QED BY <1>1, <1>2, RankInduction
<1> QED BY <1>3

\* So is the place where it ends.
IdIn(id, P, B, Q, bytes) == B = IdBytes(id) /\ bytes = (P \o B) \o Q

LEMMA IdEndRoundTrip ==
    ASSUME NEW id \in Nat, NEW P \in Seq(Nat), NEW Q \in Seq(Nat), NEW B \in Seq(Nat),
           NEW bytes \in Seq(Nat), IdIn(id, P, B, Q, bytes)
    PROVE  IdEnd(bytes, Len(P) + 1) = Len(P) + Len(B)
<1>1. B = IdBytes(id) /\ bytes = (P \o B) \o Q
  BY DEF IdIn
<1>2. /\ Len(P) \in Nat /\ Len(B) \in Nat /\ Len(Q) \in Nat /\ Len(bytes) = Len(P) + Len(B) + Len(Q)
      /\ \A i \in 1 .. Len(B) : bytes[Len(P) + i] = B[i]
  BY <1>1, PartsOf
<1>3. /\ Len(B) # 0 /\ B[Len(B)] < 128
      /\ \A j \in 1 .. Len(B) - 1 : B[j] >= 128
  BY <1>1, IdBytesShape
<1>4. PICK p, l, n \in Nat : p = Len(P) /\ l = Len(B) /\ n = Len(bytes)
  BY <1>2
<1>5. /\ l # 0 /\ p + l <= n /\ p + l \in p + 1 .. n
  BY <1>2, <1>3, <1>4
<1>6. bytes[p + l] < 128
  <2>1. l \in 1 .. Len(B)
    BY <1>4, <1>5
  <2> QED BY <1>2, <1>3, <1>4, <2>1
<1>7. ASSUME NEW j \in p + 1 .. p + l - 1 PROVE bytes[j] >= 128
  <2>1. PICK i \in Nat : j = p + i /\ i \in 1 .. l - 1
    <3>1. j - p \in Nat /\ j = p + (j - p) /\ j - p \in 1 .. l - 1
      OBVIOUS
    <3> QED BY <3>1
  <2>2. i \in 1 .. Len(B) /\ i \in 1 .. Len(B) - 1
    BY <1>4, <2>1
  <2> QED BY <1>2, <1>3, <1>4, <2>1, <2>2
<1> DEFINE Last(last) == bytes[last] < 128 /\ \A j \in p + 1 .. last - 1 : bytes[j] >= 128
<1>8. Last(p + l)
  BY <1>6, <1>7
<1>9. ASSUME NEW m \in p + 1 .. n, Last(m) PROVE m = p + l
  <2>1. \A j \in p + 1 .. n : bytes[j] \in Nat
    BY <1>4
  <2>2. ~(m < p + l)
    <3>1. SUFFICES ASSUME m < p + l PROVE FALSE
      OBVIOUS
    <3>2. m \in p + 1 .. p + l - 1
      BY <3>1
    <3>3. bytes[m] >= 128
      BY <1>7, <3>2
    <3> QED BY <1>9, <2>1, <3>3
  <2>3. ~(p + l < m)
    <3>1. SUFFICES ASSUME p + l < m PROVE FALSE
      OBVIOUS
    <3>2. p + l \in p + 1 .. m - 1
      BY <1>5, <3>1
    <3> QED BY <1>5, <1>6, <1>9, <2>1, <3>2
  <2> QED BY <2>2, <2>3
<1>10. IdEnd(bytes, p + 1) = CHOOSE m \in p + 1 .. n : Last(m)
  BY <1>4 DEF IdEnd
<1>11. (CHOOSE m \in p + 1 .. n : Last(m)) = p + l
  <2> HIDE DEF Last
  <2> QED BY <1>5, <1>8, <1>9
<1> QED BY <1>4, <1>10, <1>11

-----------------------------------------------------------------------------
(* Messages: flag, id, route and body.                                     *)

\* The messages that Message.encode() accepts: what has no id or route is 0 or
\* empty there, and a route of more than 255 bytes is refused.  Larger ids are
\* not refused, but shifts take them for negative numbers.
Sendable ==
    {m \in [type : {REQUEST, NOTIFY, RESPONSE, PUSH}, id : Nat, route : Text, body : Seq(Nat)] :
        /\ m.id <= MaxId
        /\ ~HasId(m.type) => m.id = 0
        /\ ~HasRoute(m.type) => m.route = <<>>
        /\ Len(StrEncode(m.route)) <= 255}

\* The parts of an encoded message.
IdPart(m) == IF HasId(m.type) THEN IdBytes(m.id) ELSE <<>>
RoutePart(m) == IF HasRoute(m.type) THEN RouteBytes(m.route) ELSE <<>>

LEMMA PartTypes ==
    ASSUME NEW m \in Sendable
    PROVE  /\ m.type \in Nat /\ m.type < 4 /\ m.id \in Nat /\ m.route \in Text /\ m.body \in Seq(Nat)
           /\ Flag(m.type) \in Seq(Nat) /\ Len(Flag(m.type)) = 1 /\ Flag(m.type)[1] = 2 * m.type
           /\ IdPart(m) \in Seq(Nat) /\ RoutePart(m) \in Seq(Nat)
<1>1. m.type \in {0, 1, 2, 3} /\ m.id \in Nat /\ m.route \in Text /\ m.body \in Seq(Nat)
  BY DEF Sendable, REQUEST, NOTIFY, RESPONSE, PUSH
<1>2. m.type \in Nat /\ m.type < 4
  BY <1>1
<1>3. Flag(m.type) \in Seq(Nat) /\ Len(Flag(m.type)) = 1 /\ Flag(m.type)[1] = 2 * m.type
  <2>1. PICK b \in Nat : b = 2 * m.type
    BY <1>2
  <2>2. Flag(m.type) = <<b>> /\ <<b>> \in Seq(Nat)
    BY <2>1 DEF Flag
  <2> QED BY <2>1, <2>2
<1>4. IdPart(m) \in Seq(Nat)
  BY <1>1, IdBytesRecursion, EmptySeq DEF IdPart
<1>5. RoutePart(m) \in Seq(Nat)
  <2>1. RouteBytes(m.route) \in Seq(Nat)
    <3>1. PICK T \in Seq(Nat) : T = StrEncode(m.route)
      BY <1>1, TextRoundTrip
    <3>2. PICK b \in Nat : b = Len(T) % 256
      OBVIOUS
    <3>3. <<b>> \in Seq(Nat)
      OBVIOUS
    <3>4. <<b>> \o T \in Seq(Nat)
      BY <3>3, ConcatProperties
    <3> QED BY <3>1, <3>2, <3>4 DEF RouteBytes
  <2> QED BY <2>1, EmptySeq DEF RoutePart
<1> QED BY <1>1, <1>2, <1>3, <1>4, <1>5

\* The reserved length is the length of the parts, so nothing is cut off.
LEMMA EncodedParts ==
    ASSUME NEW m \in Sendable
    PROVE  /\ EncodeMessage(m) \in Seq(Nat)
           /\ EncodeMessage(m) = ((Flag(m.type) \o IdPart(m)) \o RoutePart(m)) \o m.body
<1>1. PICK F, I, R, B \in Seq(Nat) :
          F = Flag(m.type) /\ I = IdPart(m) /\ R = RoutePart(m) /\ B = m.body
  BY PartTypes
<1>2. PICK H \in Seq(Nat) : H = F \o I
  BY ConcatProperties
<1>3. Len(H) = Len(F) + Len(I)
  BY <1>2, ConcatProperties
<1>4. PICK E \in Seq(Nat) : E = (H \o R) \o B
  BY ThreeParts
<1>5. Len(E) = Len(F) + Len(I) + Len(R) + Len(B)
  <2>1. Len(E) = Len(H) + Len(R) + Len(B)
    BY <1>4, PartsOf
  <2> QED BY <1>3, <2>1
<1>6. Len(F) = 1
  BY <1>1, PartTypes
<1>7. Len(I) = IF HasId(m.type) THEN IdLength(m.id) ELSE 0
  <2>1. CASE HasId(m.type)
    <3>1. I = IdBytes(m.id) /\ m.id \in Nat
      BY <1>1, <2>1, PartTypes DEF IdPart
    <3> QED BY <2>1, <3>1, IdLengthExact
  <2>2. CASE ~HasId(m.type)
    <3>1. I = <<>>
      BY <1>1, <2>2 DEF IdPart
    <3> QED BY <2>2, <3>1
  <2> QED BY <2>1, <2>2
<1> DEFINE length == 1 + (IF HasId(m.type) THEN IdLength(m.id) ELSE 0) + Len(R) + Len(B)
<1>8. EncodeMessage(m) = SubSeq(E, 1, length)
  BY <1>1, <1>2, <1>4 DEF EncodeMessage, IdPart, RoutePart
<1>9. length = Len(E)
  BY <1>5, <1>6, <1>7
<1> HIDE DEF length
<1>10. SubSeq(E, 1, length) = E
  BY <1>9, SubSeqFull
<1> QED BY <1>1, <1>2, <1>4, <1>8, <1>10

LEMMA SubSeqIs ==
    ASSUME NEW s \in Seq(Nat), NEW t \in Seq(Nat), NEW m \in Nat
    PROVE  m + Len(t) <= Len(s) /\ (\A i \in 1 .. Len(t) : s[m + i] = t[i]) =>
               SubSeq(s, m + 1, m + Len(t)) = t
<1>1. SUFFICES ASSUME m + Len(t) <= Len(s), \A i \in 1 .. Len(t) : s[m + i] = t[i]
               PROVE  SubSeq(s, m + 1, m + Len(t)) = t
  OBVIOUS
<1>n. PICK n \in Nat : n = Len(t)
  OBVIOUS
<1>a. PICK a \in Nat : a = m + 1
  OBVIOUS
<1>b. PICK b \in Nat : b = m + n
  OBVIOUS
<1>2. a = m + 1 /\ n = Len(t) /\ b = m + n
  BY <1>n, <1>a, <1>b
<1>3. a \in Int /\ b \in Int /\ b - a + 1 = n /\ (a <= b <=> n # 0)
  BY <1>2
<1>4. \A i \in a .. b : s[i] \in Nat
  <2>1. Len(s) \in Nat /\ b <= Len(s)
    BY <1>1, <1>2
  <2> QED BY <1>2, <2>1
<1>5. /\ SubSeq(s, a, b) \in Seq(Nat) /\ Len(SubSeq(s, a, b)) = IF a <= b THEN b - a + 1 ELSE 0
      /\ \A i \in 1 .. b - a + 1 : SubSeq(s, a, b)[i] = s[a + i - 1]
  BY <1>3, <1>4, SubSeqProperties
<1>6. PICK S \in Seq(Nat) : S = SubSeq(s, a, b)
  BY <1>5
<1>7. Len(S) = n
  BY <1>3, <1>5, <1>6
<1>8. \A i \in 1 .. n : a + i - 1 = m + i
  BY <1>2
<1>9. \A i \in 1 .. Len(S) : S[i] = t[i]
  BY <1>1, <1>2, <1>3, <1>5, <1>6, <1>7, <1>8
<1>10. S = t
  BY <1>2, <1>7, <1>9, SeqEqual
<1> QED BY <1>2, <1>6, <1>10

LEMMA MiddleAndEnd ==
    ASSUME NEW P \in Seq(Nat), NEW B \in Seq(Nat), NEW Q \in Seq(Nat), NEW bytes \in Seq(Nat)
    PROVE  bytes = (P \o B) \o Q =>
               /\ SubSeq(bytes, Len(P) + 1, Len(P) + Len(B)) = B
               /\ SubSeq(bytes, Len(P) + Len(B) + 1, Len(bytes)) = Q
<1>1. SUFFICES ASSUME bytes = (P \o B) \o Q
               PROVE  /\ SubSeq(bytes, Len(P) + 1, Len(P) + Len(B)) = B
                      /\ SubSeq(bytes, Len(P) + Len(B) + 1, Len(bytes)) = Q
  OBVIOUS
<1>2. /\ Len(P) \in Nat /\ Len(B) \in Nat /\ Len(Q) \in Nat /\ Len(bytes) = Len(P) + Len(B) + Len(Q)
      /\ \A i \in 1 .. Len(B) : bytes[Len(P) + i] = B[i]
      /\ \A i \in 1 .. Len(Q) : bytes[Len(P) + Len(B) + i] = Q[i]
  BY <1>1, PartsOf
<1>3. PICK p, b, q \in Nat : p = Len(P) /\ b = Len(B) /\ q = Len(Q)
  BY <1>2
<1>4. \A i \in 1 .. p + b + q : bytes[i] \in Nat
  BY <1>2, <1>3
<1>5. SubSeq(bytes, p + 1, p + b) = B
  <2>1. p + Len(B) <= Len(bytes) /\ \A i \in 1 .. Len(B) : bytes[p + i] = B[i]
    BY <1>2, <1>3
  <2> QED BY <1>3, <2>1, SubSeqIs
<1>6. SubSeq(bytes, p + b + 1, p + b + q) = Q
  <2>1. PICK m \in Nat : m = p + b
    OBVIOUS
  <2>2. m + Len(Q) <= Len(bytes) /\ \A i \in 1 .. Len(Q) : bytes[m + i] = Q[i]
    BY <1>2, <1>3, <2>1
  <2>3. SubSeq(bytes, m + 1, m + Len(Q)) = Q
    BY <2>2, SubSeqIs
  <2> QED BY <1>3, <2>1, <2>3
<1> QED BY <1>2, <1>3, <1>5, <1>6

LEMMA EmptyText ==
    StrDecode(<<>>) = <<>>
<1>1. <<>> \in Seq(Nat) /\ Len(<<>>) + 1 = 1
  BY EmptySeq
<1>2. PICK g : DecodesText(g, <<>>) /\ StrDecode(<<>>) = g[1]
  BY <1>1, StrDecodeRecursion
<1>3. g[Len(<<>>) + 1] = <<>>
  BY <1>1, <1>2, DecodeEnd
<1> QED BY <1>1, <1>2, <1>3

LEMMA SmallNumbers ==
    /\ \A t \in Nat : t < 4 => ((2 * t) \div 2) % 8 = t
    /\ \A n \in Nat : n <= 255 => n % 256 = n
<1>1. \A t \in Nat : (2 * t) \div 2 = t /\ (t < 4 => t % 8 = t)
  OBVIOUS
<1> QED BY <1>1

LEMMA Regroup ==
    ASSUME NEW H \in Seq(Nat), NEW R \in Seq(Nat), NEW B \in Seq(Nat)
    PROVE  \E Q \in Seq(Nat) : (H \o R) \o B = H \o Q
<1>1. (H \o R) \o B = H \o (R \o B)
  BY ConcatAssociative
<1>2. R \o B \in Seq(Nat)
  BY ConcatProperties
<1> QED BY <1>1, <1>2

LEMMA EncodedRest ==
    ASSUME NEW m \in Sendable
    PROVE  \E Q \in Seq(Nat) : EncodeMessage(m) = (Flag(m.type) \o IdPart(m)) \o Q
<1>1. PICK H \in Seq(Nat) : H = Flag(m.type) \o IdPart(m)
  <2>1. Flag(m.type) \in Seq(Nat) /\ IdPart(m) \in Seq(Nat)
    BY PartTypes
  <2> QED BY <2>1, ConcatProperties
<1>2. PICK R \in Seq(Nat) : R = RoutePart(m)
  BY PartTypes
<1>3. PICK B \in Seq(Nat) : B = m.body
  BY PartTypes
<1>4. PICK Q \in Seq(Nat) : (H \o R) \o B = H \o Q
  BY Regroup
<1> QED BY <1>1, <1>2, <1>3, <1>4, EncodedParts

LEMMA IdSplit ==
    ASSUME NEW F \in Seq(Nat), NEW I \in Seq(Nat), NEW Q \in Seq(Nat), NEW e \in Seq(Nat), NEW id \in Nat
    PROVE  I = IdBytes(id) /\ Len(F) = 1 /\ e = (F \o I) \o Q =>
               IdAt(e, 2) = id /\ IdEnd(e, 2) = 1 + Len(I)
<1>1. SUFFICES ASSUME I = IdBytes(id), Len(F) = 1, e = (F \o I) \o Q
               PROVE  IdAt(e, 2) = id /\ IdEnd(e, 2) = 1 + Len(I)
  OBVIOUS
<1>a. I = IdBytes(id) /\ e = (F \o I) \o Q
  BY <1>1
<1>2. IdAt(e, Len(F) + 1) = id
  BY <1>a, IdRoundTrip DEF IdReads
<1>3. IdEnd(e, Len(F) + 1) = Len(F) + Len(I)
  <2>1. IdIn(id, F, I, Q, e)
    BY <1>a DEF IdIn
  <2> QED BY <2>1, IdEndRoundTrip
<1>4. Len(F) + 1 = 2
  BY <1>1
<1> QED BY <1>1, <1>2, <1>3, <1>4

\* A route is preceded by its length.
LEMMA RouteSplit ==
    ASSUME NEW H \in Seq(Nat), NEW route \in Text
    PROVE  Len(StrEncode(route)) <= 255 =>
               \E T, A \in Seq(Nat) :
                   /\ StrDecode(T) = route /\ H \o RouteBytes(route) = A \o T
                   /\ Len(A) = Len(H) + 1
                   /\ RouteBytes(route)[1] = Len(T) /\ Len(RouteBytes(route)) = Len(T) + 1
<1>0. \A S, U \in Seq(Nat) : H \o (S \o U) = (H \o S) \o U
  BY ConcatAssociative
<1>1. PICK T \in Seq(Nat) : T = StrEncode(route) /\ StrDecode(T) = route
  BY TextRoundTrip
<1>2. SUFFICES ASSUME Len(T) <= 255
               PROVE  \E A \in Seq(Nat) :
                          /\ H \o RouteBytes(route) = A \o T
                          /\ Len(A) = Len(H) + 1
                          /\ RouteBytes(route)[1] = Len(T) /\ Len(RouteBytes(route)) = Len(T) + 1
  BY <1>1
<1>3. PICK n \in Nat : n = Len(T)
  OBVIOUS
<1>4. n % 256 = n
  BY <1>2, <1>3, SmallNumbers
<1>5. <<n>> \in Seq(Nat)
  OBVIOUS
<1>6. PICK N \in Seq(Nat) : N = <<n>> /\ Len(N) = 1 /\ N[1] = n
  BY <1>5
<1>7. RouteBytes(route) = N \o T
  BY <1>1, <1>3, <1>4, <1>6 DEF RouteBytes
<1>8. Len(N \o T) = n + 1 /\ (N \o T)[1] = n
  <2>1. Len(N \o T) = Len(N) + Len(T) /\ \A i \in 1 .. Len(N) + Len(T) : (N \o T)[i] = IF i <= Len(N) THEN N[i] ELSE T[i - Len(N)]
    BY ConcatProperties
  <2>2. 1 \in 1 .. Len(N) + Len(T) /\ 1 <= Len(N)
    BY <1>3, <1>6
  <2> QED BY <1>3, <1>6, <2>1, <2>2
<1>9. H \o (N \o T) = (H \o N) \o T
  BY <1>0
<1>10. H \o N \in Seq(Nat) /\ Len(H \o N) = Len(H) + 1
  BY <1>6, ConcatProperties
<1> QED BY <1>3, <1>7, <1>8, <1>9, <1>10

\* Message.decode() returns what Message.encode() was given.
THEOREM MessageRoundTrip ==
    ASSUME NEW m \in Sendable
    PROVE  EncodeMessage(m) \in Seq(Nat) /\ DecodeMessage(EncodeMessage(m)) = m
<1>1. PICK F, I, R, B \in Seq(Nat) :
          F = Flag(m.type) /\ I = IdPart(m) /\ R = RoutePart(m) /\ B = m.body
  BY PartTypes
<1>2. PICK H \in Seq(Nat) : H = F \o I
  BY ConcatProperties
<1>3. PICK e \in Seq(Nat) : e = EncodeMessage(m) /\ e = (H \o R) \o B
  BY <1>1, <1>2, EncodedParts
<1>9. PICK Q \in Seq(Nat) : e = (F \o I) \o Q
  BY <1>1, <1>3, EncodedRest
<1>4. PICK type, id \in Nat : type = m.type /\ id = m.id /\ type < 4
  BY PartTypes
<1>5. Len(F) = 1 /\ F[1] = 2 * type
  BY <1>1, <1>4, PartTypes
<1>6. Len(H) = 1 + Len(I) /\ H[1] = 2 * type
  <2>1. Len(H) = Len(F) + Len(I) /\ \A i \in 1 .. Len(F) + Len(I) : H[i] = IF i <= Len(F) THEN F[i] ELSE I[i - Len(F)]
    BY <1>2, ConcatProperties
  <2>2. 1 \in 1 .. Len(F) + Len(I) /\ 1 <= Len(F)
    BY <1>5
  <2> QED BY <1>5, <2>1, <2>2
<1>7. /\ Len(H) \in Nat /\ Len(R) \in Nat /\ Len(B) \in Nat /\ Len(e) = Len(H) + Len(R) + Len(B)
      /\ \A i \in 1 .. Len(H) : e[i] = H[i]
      /\ \A i \in 1 .. Len(R) : e[Len(H) + i] = R[i]
  BY <1>3, PartsOf
<1>8. (e[1] \div 2) % 8 = m.type
  <2>1. 1 \in 1 .. Len(H)
    BY <1>6
  <2>2. e[1] = 2 * type
    BY <1>6, <1>7, <2>1
  <2> QED BY <1>4, <2>2, SmallNumbers
<1>10. HasId(m.type) => IdAt(e, 2) = id /\ IdEnd(e, 2) = Len(H)
  <2>1. SUFFICES ASSUME HasId(m.type) PROVE IdAt(e, 2) = id /\ IdEnd(e, 2) = Len(H)
    OBVIOUS
  <2>2. I = IdBytes(id)
    BY <1>1, <1>4, <2>1 DEF IdPart
  <2>3. IdAt(e, 2) = id /\ IdEnd(e, 2) = 1 + Len(I)
    BY <1>5, <1>9, <2>2, IdSplit
  <2> QED BY <1>6, <2>3
<1>11. ~HasId(m.type) => m.id = 0 /\ Len(H) = 1
  <2>1. SUFFICES ASSUME ~HasId(m.type) PROVE m.id = 0 /\ Len(H) = 1
    OBVIOUS
  <2>2. I = <<>>
    BY <1>1, <2>1 DEF IdPart
  <2>3. Len(I) = 0
    BY <2>2
  <2>4. m.id = 0
    BY <2>1 DEF Sendable
  <2> QED BY <1>6, <2>3, <2>4
<1> DEFINE last == IF HasId(m.type) THEN IdEnd(e, 2) ELSE 1
           after == IF HasRoute(m.type) THEN last + 1 + e[last + 1] ELSE last
<1>12. last = Len(H)
  BY <1>10, <1>11
<1>13. (IF HasId(m.type) THEN IdAt(e, 2) ELSE 0) = m.id
  BY <1>4, <1>10, <1>11
<1> HIDE DEF last
<1>14. StrDecode(SubSeq(e, last + 2, after)) = m.route /\ SubSeq(e, after + 1, Len(e)) = m.body
  <2>1. CASE HasRoute(m.type)
    <3>1. R = RouteBytes(m.route)
      BY <1>1, <2>1 DEF RoutePart
    <3>2. m.route \in Text /\ Len(StrEncode(m.route)) <= 255
      BY PartTypes DEF Sendable
    <3>3. PICK T, A \in Seq(Nat) :
              /\ StrDecode(T) = m.route /\ H \o R = A \o T /\ Len(A) = Len(H) + 1
              /\ R[1] = Len(T) /\ Len(R) = Len(T) + 1
      BY <3>1, <3>2, RouteSplit
    <3>4. PICK n \in Nat : n = Len(T)
      OBVIOUS
    <3>8. e[last + 1] = n
      <4>1. 1 \in 1 .. Len(R)
        BY <3>3, <3>4
      <4> QED BY <1>7, <1>12, <3>3, <3>4, <4>1
    <3>9. after = Len(H) + 1 + n
      BY <1>12, <2>1, <3>8
    <3>12. e = (A \o T) \o B
      BY <1>3, <3>3
    <3>13. SubSeq(e, Len(A) + 1, Len(A) + Len(T)) = T /\ SubSeq(e, Len(A) + Len(T) + 1, Len(e)) = B
      BY <3>12, MiddleAndEnd
    <3>14. last + 2 = Len(A) + 1 /\ after = Len(A) + Len(T)
      BY <1>7, <1>12, <3>3, <3>4, <3>9
    <3> HIDE DEF after
    <3> QED BY <1>1, <3>3, <3>13, <3>14
  <2>2. CASE ~HasRoute(m.type)
    <3>1. R = <<>> /\ m.route = <<>>
      BY <1>1, <2>2 DEF RoutePart, Sendable
    <3>2. Len(R) = 0
      BY <3>1
    <3>3. after = Len(H)
      BY <1>12, <2>2
    <3>4. SubSeq(e, Len(H) + Len(R) + 1, Len(e)) = B
      BY <1>3, MiddleAndEnd
    <3>5. Len(H) + Len(R) + 1 = after + 1
      BY <1>7, <3>2, <3>3
    <3>6. SubSeq(e, last + 2, after) = <<>>
      <4>1. last + 2 \in Int /\ after \in Int /\ after < last + 2
        BY <1>7, <1>12, <3>3
      <4> HIDE DEF after
      <4> QED BY <4>1, SubSeqEmpty
    <3> HIDE DEF after
    <3> QED BY <1>1, <3>1, <3>4, <3>5, <3>6, EmptyText
  <2> QED BY <2>1, <2>2
<1>15. DecodeMessage(e) = [type |-> m.type, id |-> m.id, route |-> m.route, body |-> m.body]
  BY <1>8, <1>13, <1>14 DEF DecodeMessage, last
<1>16. m = [type |-> m.type, id |-> m.id, route |-> m.route, body |-> m.body]
  BY DEF Sendable
<1> QED BY <1>3, <1>15, <1>16

-----------------------------------------------------------------------------
(* Packages.                                                               *)

\* The length of a body has three bytes.
BodyLimit == 16777216

LEMMA LengthNumbers ==
    ASSUME NEW n \in Nat, n < BodyLimit
    PROVE  /\ (n \div 65536) % 256 \in Nat /\ (n \div 256) % 256 \in Nat /\ n % 256 \in Nat
           /\ ((n \div 65536) % 256) * 65536 + ((n \div 256) % 256) * 256 + (n % 256) = n
BY DEF BodyLimit

LEMMA BodySizeType ==
    ASSUME NEW bytes \in Seq(Nat), NEW o \in Nat PROVE BodySize(bytes, o) \in Nat
<1>1. \A k \in Nat \ {0} : Byte(bytes, k) \in Nat
  BY DEF Byte
<1>a. PICK a \in Nat : a = Byte(bytes, o + 1)
  BY <1>1
<1>b. PICK b \in Nat : b = Byte(bytes, o + 2)
  BY <1>1
<1>c. PICK c \in Nat : c = Byte(bytes, o + 3)
  BY <1>1
<1>2. a * 65536 + b * 256 + c \in Nat
  OBVIOUS
<1> QED BY <1>2, <1>a, <1>b, <1>c DEF BodySize

LEMMA DecodePackagesRecursion ==
    ASSUME NEW bytes \in Seq(Nat)
    PROVE  \E f :
              /\ DecodePackages(bytes) = f[1]
              /\ \A o \in Nat \ {0} :
                    f[o] = IF o > Len(bytes) THEN <<>>
                           ELSE <<[type |-> bytes[o], body |-> SubSeq(bytes, o + 4, o + 3 + BodySize(bytes, o))]>>
                                \o f[o + 4 + BodySize(bytes, o)]
<1> DEFINE D == Nat \ {0}
           Package(o) == [type |-> bytes[o], body |-> SubSeq(bytes, o + 4, o + 3 + BodySize(bytes, o))]
           V == Seq({Package(o) : o \in D})
           after == [o \in D |-> o + 4 + BodySize(bytes, o)]
           rank == [o \in D |-> IF o > Len(bytes) THEN 0 ELSE Len(bytes) + 1 - o]
           ends == {o \in D : o > Len(bytes)}
           base == [o \in D |-> <<>>]
           G == [o \in D |-> [v \in V |-> <<Package(o)>> \o v]]
           Value(f, o) == IF o > Len(bytes) THEN <<>>
                          ELSE <<[type |-> bytes[o], body |-> SubSeq(bytes, o + 4, o + 3 + BodySize(bytes, o))]>>
                               \o f[o + 4 + BodySize(bytes, o)]
           Written(f) == f = [o \in D |-> Value(f, o)]
           From == CHOOSE f : Written(f)
<1>0. \A o \in D : after[o] = o + 4 + BodySize(bytes, o) /\ after[o] \in D /\ after[o] > o
  <2> SUFFICES ASSUME NEW o \in D PROVE after[o] = o + 4 + BodySize(bytes, o) /\ after[o] \in D /\ after[o] > o
    OBVIOUS
  <2>1. PICK n \in Nat : n = BodySize(bytes, o)
    BY BodySizeType
  <2>2. o + 4 + n \in D /\ o + 4 + n > o
    OBVIOUS
  <2> QED BY <2>1, <2>2
<1>1. /\ rank \in [D -> Nat] /\ after \in [D -> D] /\ ends \subseteq D
      /\ \A o \in D : o \notin ends => rank[after[o]] < rank[o]
  <2>1. rank \in [D -> Nat] /\ ends \subseteq D
    OBVIOUS
  <2>2. after \in [D -> D]
    BY <1>0
  <2> HIDE DEF after
  <2>3. ASSUME NEW o \in D, o \notin ends PROVE rank[after[o]] < rank[o]
    <3>1. PICK k \in D : k = after[o] /\ k > o
      BY <1>0
    <3>2. ~(o > Len(bytes))
      BY <2>3
    <3> QED BY <3>1, <3>2
  <2> QED BY <2>1, <2>2, <2>3
<1>2. base \in [D -> V]
  BY EmptySeq
<1>3. G \in [D -> [V -> V]]
  <2>1. ASSUME NEW o \in D, NEW v \in V PROVE <<Package(o)>> \o v \in V
    <3> DEFINE S == {Package(q) : q \in D}
    <3>1. PICK p \in S : p = Package(o)
      OBVIOUS
    <3> HIDE DEF S, Package
    <3>2. <<p>> \in Seq(S) /\ v \in Seq(S)
      BY DEF S
    <3>3. <<p>> \o v \in Seq(S)
      BY <3>2, ConcatProperties
    <3> QED BY <3>1, <3>3 DEF S
  <2> HIDE DEF V, Package
  <2> QED BY <2>1
<1>4. PICK f \in [D -> V] : \A o \in D : f[o] = IF o \in ends THEN base[o] ELSE G[o][f[after[o]]]
  <2> HIDE DEF D, V, rank, after, ends, base, G
  <2>1. Recursive(D, V, rank, after, ends, base, G)
    BY <1>1, <1>2, <1>3 DEF Recursive
  <2> QED BY <2>1, Recursion
<1>5. Written(f)
  <2>1. ASSUME NEW o \in D PROVE f[o] = Value(f, o)
    <3>1. PICK k \in D : k = after[o] /\ k = o + 4 + BodySize(bytes, o)
      BY <1>0
    <3> HIDE DEF after, V, Package
    <3>2. G[o][f[k]] = <<Package(o)>> \o f[k]
      BY <3>1
    <3>3. f[o] = IF o \in ends THEN base[o] ELSE G[o][f[k]]
      <4> HIDE DEF G, base, ends
      <4> QED BY <1>4, <3>1
    <3> HIDE DEF G
    <3>4. f[o] = IF o > Len(bytes) THEN <<>> ELSE <<Package(o)>> \o f[k]
      BY <3>2, <3>3
    <3> QED BY <3>1, <3>4 DEF Package
  <2>2. f = [o \in D |-> f[o]]
    OBVIOUS
  <2> HIDE DEF Value
  <2> QED BY <2>1, <2>2
<1>6. Written(From)
  <2> HIDE DEF Written
  <2> QED BY <1>5
<1>7. DecodePackages(bytes) = From[1]
  BY DEF DecodePackages
<1> HIDE DEF From
<1>8. \A o \in D : From[o] = Value(From, o)
  <2> HIDE DEF Value
  <2> QED BY <1>6
<1> QED BY <1>7, <1>8

\* Package.decode() finds the one package of a frame that Package.encode() made.
THEOREM PackageRoundTrip ==
    ASSUME NEW type \in Nat, NEW body \in Seq(Nat), Len(body) < BodyLimit
    PROVE  DecodePackages(EncodePackage(type, body)) = <<[type |-> type, body |-> body]>>
<1>1. PICK n \in Nat : n = Len(body) /\ n < BodyLimit
  OBVIOUS
<1>2. PICK x, y, z \in Nat : x = (n \div 65536) % 256 /\ y = (n \div 256) % 256 /\ z = n % 256
                             /\ x * 65536 + y * 256 + z = n
  BY <1>1, LengthNumbers
<1>h. <<type, x, y, z>> \in Seq(Nat)
  OBVIOUS
<1>3. PICK h \in Seq(Nat) : h = <<type, x, y, z>> /\ Len(h) = 4 /\ h[1] = type /\ h[2] = x /\ h[3] = y /\ h[4] = z
  BY <1>h
<1>4. PICK e \in Seq(Nat) : e = h \o body
  BY ConcatProperties
<1>5. EncodePackage(type, body) = e
  BY <1>1, <1>2, <1>3, <1>4 DEF EncodePackage
<1>6. Len(e) = n + 4 /\ e[1] = type /\ e[2] = x /\ e[3] = y /\ e[4] = z
  <2>1. Len(e) = Len(h) + Len(body) /\ \A i \in 1 .. Len(h) + Len(body) : e[i] = IF i <= Len(h) THEN h[i] ELSE body[i - Len(h)]
    BY <1>4, ConcatProperties
  <2>2. \A i \in 1 .. 4 : e[i] = h[i]
    BY <1>1, <1>3, <2>1
  <2> QED BY <1>1, <1>3, <2>1, <2>2
<1>7. BodySize(e, 1) = n
  <2>1. Byte(e, 2) = x /\ Byte(e, 3) = y /\ Byte(e, 4) = z
    BY <1>6 DEF Byte
  <2>2. BodySize(e, 1) = Byte(e, 2) * 65536 + Byte(e, 3) * 256 + Byte(e, 4)
    BY DEF BodySize
  <2> QED BY <1>2, <2>1, <2>2
<1>8. SubSeq(e, 5, n + 4) = body
  <2>1. 4 + Len(body) <= Len(e) /\ \A i \in 1 .. Len(body) : e[4 + i] = body[i]
    <3>1. e = (h \o body) \o <<>> /\ <<>> \in Seq(Nat)
      BY <1>4, ConcatEmptySeq, EmptySeq
    <3>2. \A i \in 1 .. Len(body) : e[Len(h) + i] = body[i]
      BY <3>1, PartsOf
    <3> QED BY <1>1, <1>3, <1>6, <3>2
  <2>2. SubSeq(e, 4 + 1, 4 + Len(body)) = body
    BY <2>1, SubSeqIs
  <2>3. 4 + 1 = 5 /\ 4 + Len(body) = n + 4
    BY <1>1
  <2> QED BY <2>2, <2>3
<1>9. PICK f :
         /\ DecodePackages(e) = f[1]
         /\ \A o \in Nat \ {0} :
               f[o] = IF o > Len(e) THEN <<>>
                      ELSE <<[type |-> e[o], body |-> SubSeq(e, o + 4, o + 3 + BodySize(e, o))]>>
                           \o f[o + 4 + BodySize(e, o)]
  BY DecodePackagesRecursion
<1>10. f[n + 5] = <<>>
  <2>1. n + 5 \in Nat \ {0} /\ n + 5 > Len(e)
    BY <1>6
  <2> QED BY <1>9, <2>1
<1>11. f[1] = <<[type |-> type, body |-> body]>> \o f[n + 5]
  <2>1. ~(1 > Len(e)) /\ 1 \in Nat \ {0} /\ 1 + 4 = 5
    BY <1>6
  <2>2. 1 + 3 + BodySize(e, 1) = n + 4 /\ 1 + 4 + BodySize(e, 1) = n + 5
    BY <1>7
  <2>3. f[1] = <<[type |-> e[1], body |-> SubSeq(e, 1 + 4, 1 + 3 + BodySize(e, 1))]>> \o f[1 + 4 + BodySize(e, 1)]
    BY <1>9, <2>1
  <2> QED BY <1>6, <1>8, <2>1, <2>2, <2>3
<1> DEFINE p == [type |-> type, body |-> body]
<1>12. <<p>> \o <<>> = <<p>>
  <2> HIDE DEF p
  <2>1. <<p>> \in Seq({p})
    OBVIOUS
  <2> QED BY <2>1, ConcatEmptySeq
<1> QED BY <1>5, <1>9, <1>10, <1>11, <1>12

-----------------------------------------------------------------------------
(* The messages of the clients, and their frames.                          *)

\* Every id of the model has at most five bytes, as every id below 2^35.
LEMMA IdLengthBound ==
    \A id \in Nat : id <= MaxId => IdLength(id) \in 1 .. 5
<1>1. \A n \in Nat : n < 128 => IdLength(n) \in 1 .. 1
  BY IdLengthRecursion
<1>2. \A n \in Nat : n \div 128 \in Nat
  OBVIOUS
<1>3. \A n \in Nat : n < 16384 => n \div 128 < 128
  OBVIOUS
<1>4. \A n \in Nat : n < 2097152 => n \div 128 < 16384
  OBVIOUS
<1>5. \A n \in Nat : n < 268435456 => n \div 128 < 2097152
  OBVIOUS
<1>6. \A n \in Nat : n <= MaxId => n \div 128 < 268435456
  BY DEF MaxId
<1>7. \A n \in Nat : n < 16384 => IdLength(n) \in 1 .. 2
  BY <1>1, <1>2, <1>3, IdLengthRecursion
<1>8. \A n \in Nat : n < 2097152 => IdLength(n) \in 1 .. 3
  BY <1>1, <1>2, <1>4, <1>7, IdLengthRecursion
<1>9. \A n \in Nat : n < 268435456 => IdLength(n) \in 1 .. 4
  BY <1>1, <1>2, <1>5, <1>8, IdLengthRecursion
<1> QED BY <1>1, <1>2, <1>6, <1>9, IdLengthRecursion

\* The route is text, and its bytes are at most three for each character.
LEMMA RouteShort ==
    ROUTE \in Text /\ StrEncode(ROUTE) \in Seq(Nat) /\ Len(StrEncode(ROUTE)) <= 12
<1>0. ROUTE \in Seq(Nat) /\ Len(ROUTE) = 4
  BY DEF ROUTE
<1>1. ROUTE[1] = 97 /\ ROUTE[2] = 46 /\ ROUTE[3] = 233 /\ ROUTE[4] = 8364
  BY DEF ROUTE
<1>a. PICK t \in Seq(Nat) : t = ROUTE
  BY <1>0
<1>2. Len(t) = 4 /\ t[1] = 97 /\ t[2] = 46 /\ t[3] = 233 /\ t[4] = 8364
  BY <1>0, <1>1, <1>a
<1>3. t \in Text
  <2>1. \A k \in 1 .. 4 : k = 1 \/ k = 2 \/ k = 3 \/ k = 4
    OBVIOUS
  <2>2. 97 \in Unit /\ 46 \in Unit /\ 233 \in Unit /\ 8364 \in Unit
    BY DEF Unit
  <2>3. \A k \in 1 .. 4 : t[k] \in Unit
    BY <1>2, <2>1, <2>2
  <2>4. \A k \in 1 .. Len(t) : t[k] \in Unit
    BY <1>2, <2>3
  <2> QED BY <2>4 DEF Text
<1>4. PICK f : EncodesText(f, t) /\ StrEncode(t) = f[1]
  BY StrEncodeRecursion
<1>b. \A k \in Nat \ {0} : f[k] \in Seq(Nat)
  BY <1>4 DEF EncodesText
<1>5. f[5] = <<>>
  <2>1. 5 \in Nat \ {0} /\ 5 > Len(t)
    BY <1>2
  <2> QED BY <1>4, <2>1 DEF EncodesText
<1>7. ASSUME NEW k \in 1 .. 4 PROVE Len(f[k]) <= 3 + Len(f[k + 1])
  <2>1. PICK c \in Nat : c = t[k]
    BY <1>2
  <2>2. PICK C \in Seq(Nat) : C = CharBytes(c) /\ Len(C) \in {1, 2, 3}
    BY CharBytesType
  <2>3. k \in Nat \ {0} /\ k + 1 \in Nat \ {0} /\ ~(k > Len(t))
    BY <1>2
  <2>4. PICK T \in Seq(Nat) : T = f[k + 1]
    BY <1>b, <2>3
  <2>5. f[k] = C \o T
    BY <1>4, <2>1, <2>2, <2>3, <2>4 DEF EncodesText
  <2>6. Len(C \o T) = Len(C) + Len(T)
    BY ConcatProperties
  <2>7. Len(C \o T) <= 3 + Len(T)
    <3>1. \A a \in {1, 2, 3}, b \in Nat : a + b <= 3 + b
      OBVIOUS
    <3>2. Len(C) \in {1, 2, 3} /\ Len(T) \in Nat
      BY <2>2
    <3>3. Len(C) + Len(T) <= 3 + Len(T)
      BY <3>1, <3>2
    <3> QED BY <2>6, <3>3
  <2> QED BY <2>4, <2>5, <2>7
<1>8. PICK S \in Seq(Nat) : S = f[1]
  BY <1>b
<1>9. \A k \in Nat \ {0} : Len(f[k]) \in Nat
  BY <1>b
<1>10. Len(f[5]) = 0
  BY <1>5
<1>11. Len(S) <= 12
  <2>1. Len(f[1]) <= 3 + Len(f[2]) /\ Len(f[2]) <= 3 + Len(f[3]) /\ Len(f[3]) <= 3 + Len(f[4]) /\ Len(f[4]) <= 3 + Len(f[5])
    <3>1. 1 + 1 = 2 /\ 2 + 1 = 3 /\ 3 + 1 = 4 /\ 4 + 1 = 5
      OBVIOUS
    <3> QED BY <1>7, <3>1
  <2>2. Len(f[1]) \in Nat /\ Len(f[2]) \in Nat /\ Len(f[3]) \in Nat /\ Len(f[4]) \in Nat
    BY <1>9
  <2>3. PICK a, b, c, d, e \in Nat :
            a = Len(f[1]) /\ b = Len(f[2]) /\ c = Len(f[3]) /\ d = Len(f[4]) /\ e = Len(f[5])
    BY <1>10, <2>2
  <2>4. a <= 3 + b /\ b <= 3 + c /\ c <= 3 + d /\ d <= 3 + e /\ e = 0
    BY <1>10, <2>1, <2>3
  <2>5. a <= 12
    BY <2>4
  <2> QED BY <1>8, <2>3, <2>5
<1> QED BY <1>a, <1>3, <1>4, <1>8, <1>11

-----------------------------------------------------------------------------
\* The messages of the model: the route is ROUTE or empty, the body short.
Short(m) == m \in Sendable /\ m.route \in {<<>>, ROUTE} /\ Len(m.body) <= 2

LEMMA EmptyTextBytes == <<>> \in Text /\ StrEncode(<<>>) = <<>>
<1>1. <<>> \in Seq(Nat) /\ Len(<<>>) = 0
  BY EmptySeq
<1>2. PICK f : EncodesText(f, <<>>) /\ StrEncode(<<>>) = f[1]
  BY <1>1, StrEncodeRecursion
<1> QED BY <1>1, <1>2 DEF EncodesText, Text

\* Its bytes fit a package.
LEMMA ShortFits ==
    ASSUME NEW m, Short(m)
    PROVE  EncodeMessage(m) \in Seq(Nat) /\ Len(EncodeMessage(m)) < BodyLimit
<1>1. m \in Sendable
  BY DEF Short
<1>2. PICK F, I, R, B \in Seq(Nat) :
          F = Flag(m.type) /\ I = IdPart(m) /\ R = RoutePart(m) /\ B = m.body
  BY <1>1, PartTypes
<1>3. Len(F) = 1 /\ Len(B) <= 2
  BY <1>1, <1>2, PartTypes DEF Short
<1>4. Len(I) <= 5
  <2>1. CASE HasId(m.type)
    <3>1. PICK id \in Nat : id = m.id /\ id <= MaxId
      BY <1>1 DEF Sendable
    <3>2. I = IdBytes(id)
      BY <1>2, <2>1, <3>1 DEF IdPart
    <3>3. Len(IdBytes(id)) = IdLength(id)
      BY IdLengthExact
    <3>4. IdLength(id) \in 1 .. 5
      BY <3>1, IdLengthBound
    <3> QED BY <3>2, <3>3, <3>4
  <2>2. CASE ~HasId(m.type)
    BY <1>2, <2>2 DEF IdPart
  <2> QED BY <2>1, <2>2
<1>5. Len(R) <= 13
  <2>1. CASE HasRoute(m.type)
    <3>1. PICK T \in Seq(Nat) : T = StrEncode(m.route) /\ Len(T) <= 12
      <4>1. CASE m.route = ROUTE
        BY <4>1, RouteShort
      <4>2. CASE m.route = <<>>
        <5>1. <<>> \in Seq(Nat) /\ Len(<<>>) <= 12
          BY EmptySeq
        <5> QED BY <4>2, <5>1, EmptyTextBytes
      <4> QED BY <4>1, <4>2 DEF Short
    <3>2. PICK n \in Nat : n = Len(T) % 256
      OBVIOUS
    <3>3. PICK N \in Seq(Nat) : N = <<n>> /\ Len(N) = 1
      <4>1. <<n>> \in Seq(Nat) /\ Len(<<n>>) = 1
        OBVIOUS
      <4> QED BY <4>1
    <3>4. R = N \o T
      BY <1>2, <2>1, <3>1, <3>2, <3>3 DEF RoutePart, RouteBytes
    <3>5. Len(N \o T) = Len(N) + Len(T)
      BY ConcatProperties
    <3> QED BY <3>1, <3>3, <3>4, <3>5
  <2>2. CASE ~HasRoute(m.type)
    BY <1>2, <2>2 DEF RoutePart
  <2> QED BY <2>1, <2>2
<1>6. PICK H \in Seq(Nat) : H = F \o I /\ Len(H) = Len(F) + Len(I)
  BY ConcatProperties
<1>7. PICK E \in Seq(Nat) : E = (H \o R) \o B
  BY ThreeParts
<1>8. Len(E) = Len(H) + Len(R) + Len(B)
  BY <1>7, PartsOf
<1>9. E = EncodeMessage(m)
  BY <1>1, <1>2, <1>6, <1>7, EncodedParts
<1>10. Len(E) < BodyLimit
  BY <1>3, <1>4, <1>5, <1>6, <1>8 DEF BodyLimit
<1> QED BY <1>9, <1>10

\* Such a frame is read as the one message it was made of.
LEMMA FrameRead ==
    ASSUME NEW m, Short(m)
    PROVE  Messages(Frame(m.type, m.id, m.route, m.body)) = {m}
<1>1. m \in Sendable
  BY DEF Short
<1>2. m = [type |-> m.type, id |-> m.id, route |-> m.route, body |-> m.body]
  BY <1>1 DEF Sendable
<1>3. PICK e \in Seq(Nat) : e = EncodeMessage(m) /\ Len(e) < BodyLimit
  BY ShortFits
<1>4. DecodeMessage(e) = m
  BY <1>1, <1>3, MessageRoundTrip
<1> DEFINE f == EncodePackage(DATA, e)
           p == [type |-> DATA, body |-> e]
<1>5. DATA \in Nat
  BY DEF DATA
<1>6. DecodePackages(f) = <<p>>
  BY <1>3, <1>5, PackageRoundTrip
<1>7. Frame(m.type, m.id, m.route, m.body) = f
  BY <1>2, <1>3 DEF Frame
<1>8. p.body = e
  OBVIOUS
<1> HIDE DEF f, p
<1>9. DOMAIN <<p>> = {1} /\ <<p>>[1] = p
  OBVIOUS
<1>10. Messages(f) = {DecodeMessage(<<p>>[k].body) : k \in {1}}
  BY <1>6, <1>9 DEF Messages
<1> QED BY <1>4, <1>7, <1>8, <1>9, <1>10

\* The messages that clients may send, the frame of one, and its answer.
ReqMsg(id, c) == [type |-> REQUEST, id |-> id, route |-> ROUTE, body |-> <<c>>]
NoteMsg(c) == [type |-> NOTIFY, id |-> 0, route |-> ROUTE, body |-> <<c>>]
MsgSet == {ReqMsg(id, c) : id \in 1 .. MaxId, c \in Calls} \union {NoteMsg(c) : c \in Calls}

Ask(m) == Frame(m.type, m.id, m.route, m.body)
ReplyMsg(m, code) == [type |-> RESPONSE, id |-> m.id, route |-> <<>>, body |-> <<code, m.body[1]>>]
Reply(m, code) == Frame(RESPONSE, m.id, <<>>, <<code, m.body[1]>>)

LEMMA MsgFields ==
    /\ \A id, c : LET m == ReqMsg(id, c) IN m.type = REQUEST /\ m.id = id /\ m.body[1] = c
    /\ \A c : LET m == NoteMsg(c) IN m.type = NOTIFY /\ m.id = 0 /\ m.body[1] = c
BY DEF ReqMsg, NoteMsg

LEMMA MaxIdTyped == MaxId \in Nat
BY SMT DEF MaxId

LEMMA MsgShape ==
    ASSUME NEW m \in MsgSet
    PROVE  /\ m.body[1] \in Calls
           /\ m.id \in Nat /\ m.id <= MaxId
           /\ \/ m.id # 0 /\ m = ReqMsg(m.id, m.body[1])
              \/ m.id = 0 /\ m = NoteMsg(m.body[1])
<1>1. CASE \E id \in 1 .. MaxId, c \in Calls : m = ReqMsg(id, c)
  <2>1. PICK id \in 1 .. MaxId, c \in Calls : m = ReqMsg(id, c)
    BY <1>1
  <2>2. m.id = id /\ m.body[1] = c
    BY <2>1, MsgFields
  <2>3. id \in Nat /\ id <= MaxId /\ id # 0
    BY MaxIdTyped
  <2> QED BY <2>1, <2>2, <2>3
<1>2. CASE \E c \in Calls : m = NoteMsg(c)
  <2>1. PICK c \in Calls : m = NoteMsg(c)
    BY <1>2
  <2>2. m.id = 0 /\ m.body[1] = c
    BY <2>1, MsgFields
  <2>3. 0 \in Nat /\ 0 <= MaxId
    BY MaxIdTyped
  <2> QED BY <2>1, <2>2, <2>3
<1> QED BY <1>1, <1>2 DEF MsgSet

LEMMA BodiesTyped ==
    /\ \A c \in Calls : <<c>> \in Seq(Nat) /\ Len(<<c>>) <= 2
    /\ \A code \in {0, 1}, c \in Calls : <<code, c>> \in Seq(Nat) /\ Len(<<code, c>>) <= 2
<1>1. \A c \in Calls : c \in Nat
  BY BoundsAssumption DEF Calls
<1>2. \A c \in Nat : <<c>> \in Seq(Nat) /\ Len(<<c>>) <= 2
  OBVIOUS
<1>3. \A code, c \in Nat : <<code, c>> \in Seq(Nat) /\ Len(<<code, c>>) <= 2
  OBVIOUS
<1> QED BY <1>1, <1>2, <1>3

LEMMA MsgShort ==
    ASSUME NEW m \in MsgSet
    PROVE  /\ Short(m)
           /\ \A code \in {0, 1} : m.id # 0 => Short(ReplyMsg(m, code))
<1>0. ROUTE \in Text /\ Len(StrEncode(ROUTE)) <= 255 /\ <<>> \in Text /\ Len(StrEncode(<<>>)) <= 255
  <2>1. Len(StrEncode(ROUTE)) <= 255
    <3>1. PICK S \in Seq(Nat) : S = StrEncode(ROUTE) /\ Len(S) <= 12
      BY RouteShort
    <3>2. Len(S) <= 255
      BY <3>1
    <3> QED BY <3>1, <3>2
  <2>2. Len(StrEncode(<<>>)) <= 255
    <3>1. Len(<<>>) <= 255
      OBVIOUS
    <3> QED BY <3>1, EmptyTextBytes
  <2> QED BY <2>1, <2>2, RouteShort, EmptyTextBytes
<1>1. Short(m)
  <2>1. PICK id \in Nat, c \in Calls : id = m.id /\ c = m.body[1] /\ id <= MaxId
    BY MsgShape
  <2>2. PICK b \in Seq(Nat) : b = <<c>> /\ Len(b) <= 2
    BY BodiesTyped
  <2>3. CASE m = ReqMsg(id, c)
    <3>1. m = [type |-> REQUEST, id |-> id, route |-> ROUTE, body |-> b]
      BY <2>2, <2>3 DEF ReqMsg
    <3> QED BY <1>0, <2>1, <2>2, <3>1 DEF Short, Sendable, HasId, HasRoute, REQUEST
  <2>4. CASE id = 0 /\ m = NoteMsg(c)
    <3>1. m = [type |-> NOTIFY, id |-> 0, route |-> ROUTE, body |-> b]
      BY <2>2, <2>4 DEF NoteMsg
    <3> QED BY <1>0, <2>1, <2>2, <2>4, <3>1 DEF Short, Sendable, HasId, HasRoute, NOTIFY, REQUEST, RESPONSE
  <2> QED BY <2>1, <2>3, <2>4, MsgShape
<1>2. ASSUME NEW code \in {0, 1} PROVE Short(ReplyMsg(m, code))
  <2>1. PICK id \in Nat, c \in Calls : id = m.id /\ c = m.body[1] /\ id <= MaxId
    BY MsgShape
  <2>2. PICK b \in Seq(Nat) : b = <<code, c>> /\ Len(b) <= 2
    BY BodiesTyped
  <2>3. ReplyMsg(m, code) = [type |-> RESPONSE, id |-> id, route |-> <<>>, body |-> b]
    BY <2>1, <2>2 DEF ReplyMsg
  <2> QED BY <1>0, <2>1, <2>2, <2>3 DEF Short, Sendable, HasId, HasRoute, RESPONSE, REQUEST, NOTIFY, PUSH
<1> QED BY <1>1, <1>2

\* A frame is read as the message that was sent.
LEMMA AskRead ==
    ASSUME NEW m \in MsgSet
    PROVE  Messages(Ask(m)) = {m} /\ (CHOOSE n \in Messages(Ask(m)) : TRUE) = m
<1>1. Messages(Ask(m)) = {m}
  BY MsgShort, FrameRead DEF Ask
<1> QED BY <1>1

LEMMA ReplyFields ==
    \A m, code : LET r == ReplyMsg(m, code) IN
        r.type = RESPONSE /\ r.id = m.id /\ r.route = <<>> /\ r.body = <<code, m.body[1]>>
        /\ r.body[1] = code /\ r.body[2] = m.body[1]
BY DEF ReplyMsg

LEMMA ReplyRead ==
    ASSUME NEW m \in MsgSet, NEW code \in {0, 1}
    PROVE  m.id # 0 =>
               /\ Messages(Reply(m, code)) = {ReplyMsg(m, code)}
               /\ (CHOOSE n \in Messages(Reply(m, code)) : TRUE) = ReplyMsg(m, code)
<1>1. SUFFICES ASSUME m.id # 0 PROVE Messages(Reply(m, code)) = {ReplyMsg(m, code)}
  OBVIOUS
<1>2. PICK r : r = ReplyMsg(m, code) /\ Short(r)
  BY <1>1, MsgShort
<1>3. r.type = RESPONSE /\ r.id = m.id /\ r.route = <<>> /\ r.body = <<code, m.body[1]>>
  BY <1>2, ReplyFields
<1>4. Messages(Frame(r.type, r.id, r.route, r.body)) = {r}
  BY <1>2, FrameRead
<1> QED BY <1>2, <1>3, <1>4 DEF Reply

\* So the frames of two messages differ, and those of their answers.
LEMMA AsksDiffer ==
    ASSUME NEW m \in MsgSet, NEW n \in MsgSet
    PROVE  Ask(m) = Ask(n) => m = n
<1>1. Messages(Ask(m)) = {m} /\ Messages(Ask(n)) = {n}
  BY AskRead
<1> QED BY <1>1

LEMMA RepliesDiffer ==
    ASSUME NEW m \in MsgSet, NEW n \in MsgSet, NEW c1 \in {0, 1}, NEW c2 \in {0, 1}
    PROVE  m.id # 0 /\ n.id # 0 /\ Reply(m, c1) = Reply(n, c2) => m = n /\ c1 = c2
<1>1. SUFFICES ASSUME m.id # 0, n.id # 0, Reply(m, c1) = Reply(n, c2) PROVE m = n /\ c1 = c2
  OBVIOUS
<1>2. Messages(Reply(m, c1)) = {ReplyMsg(m, c1)} /\ Messages(Reply(n, c2)) = {ReplyMsg(n, c2)}
  BY <1>1, ReplyRead
<1>3. ReplyMsg(m, c1) = ReplyMsg(n, c2)
  BY <1>1, <1>2
<1>4. m.id = n.id /\ m.body[1] = n.body[1] /\ c1 = c2
  BY <1>3, ReplyFields
<1>5. m = ReqMsg(m.id, m.body[1]) /\ n = ReqMsg(n.id, n.body[1])
  BY <1>1, MsgShape
<1> QED BY <1>4, <1>5

-----------------------------------------------------------------------------
\* A message leads to one call of the router: the second call of next() is refused.
JobOf(m, at) == [msg |-> m, number |-> 2, at |-> at]

LEMMA OneJob ==
    ASSUME nexts \in {1, 2}, NEW m
    PROVE  /\ Jobs(m) = {JobOf(m, IF place = "frontend" THEN "running" ELSE "asked")}
           /\ Cardinality(Jobs(m)) = 1
<1>1. Dispatches \in Seq(Nat) /\ Len(Dispatches) = 1 + nexts /\ Dispatches[1] = 0
      /\ \A k \in 2 .. 1 + nexts : Dispatches[k] = 1
  <2>1. PICK Z \in Seq(Nat) : Z = <<0>> /\ Len(Z) = 1 /\ Z[1] = 0
    <3>1. <<0>> \in Seq(Nat)
      OBVIOUS
    <3> QED BY <3>1
  <2>2. PICK O \in Seq(Nat) : O = [k \in 1 .. nexts |-> 1] /\ Len(O) = nexts /\ \A k \in 1 .. nexts : O[k] = 1
    <3> DEFINE O == [k \in 1 .. nexts |-> 1]
    <3>1. nexts \in Nat
      OBVIOUS
    <3>2. O \in Seq(Nat)
      BY <3>1, SeqDef
    <3>3. Len(O) = nexts
      BY <3>1, <3>2, LenProperties
    <3> QED BY <3>2, <3>3
  <2>3. Dispatches = Z \o O
    BY <2>1, <2>2 DEF Dispatches
  <2>4. Z \o O \in Seq(Nat) /\ Len(Z \o O) = Len(Z) + Len(O)
        /\ \A i \in 1 .. Len(Z) + Len(O) : (Z \o O)[i] = IF i <= Len(Z) THEN Z[i] ELSE O[i - Len(Z)]
    BY ConcatProperties
  <2>5. \A k \in 2 .. 1 + nexts : (Z \o O)[k] = 1
    <3>1. ASSUME NEW k \in 2 .. 1 + nexts PROVE (Z \o O)[k] = 1
      <4>1. k \in 1 .. Len(Z) + Len(O) /\ ~(k <= Len(Z)) /\ k - Len(Z) \in 1 .. nexts
        BY <2>1, <2>2
      <4>2. (Z \o O)[k] = O[k - Len(Z)]
        BY <2>4, <4>1
      <4> QED BY <2>2, <4>1, <4>2
    <3> QED BY <3>1
  <2>6. (Z \o O)[1] = 0
    <3>1. 1 \in 1 .. Len(Z) + Len(O) /\ 1 <= Len(Z)
      BY <2>1, <2>2
    <3> QED BY <2>1, <2>4, <3>1
  <2> QED BY <2>1, <2>2, <2>3, <2>4, <2>5, <2>6
<1>2. DOMAIN Dispatches = 1 .. 1 + nexts
  BY <1>1, LenProperties
<1>3. {k \in DOMAIN Dispatches : Dispatches[k] = 1 /\ Passes(k)} = {2}
  <2>1. 2 \in 1 .. 1 + nexts /\ Dispatches[2] = 1
    BY <1>1
  <2>2. Passes(2)
    <3>1. \A j \in 1 .. 2 - 1 : j = 1
      OBVIOUS
    <3> QED BY <1>1, <2>1, <3>1 DEF Passes
  <2>3. ASSUME NEW k \in 1 .. 1 + nexts, Dispatches[k] = 1, Passes(k) PROVE k = 2
    <3>1. k = 1 \/ k = 2 \/ k = 3
      OBVIOUS
    <3>2. k # 1
      BY <1>1, <2>3
    <3>3. k # 3
      <4>1. SUFFICES ASSUME k = 3 PROVE FALSE
        OBVIOUS
      <4>2. 2 \in 1 .. k - 1
        BY <4>1
      <4>3. Dispatches[2] < Dispatches[k]
        BY <2>3, <4>2 DEF Passes
      <4> QED BY <2>1, <2>3, <4>3
    <3> QED BY <3>1, <3>2, <3>3
  <2> QED BY <1>2, <2>1, <2>2, <2>3
<1>4. Jobs(m) = {JobOf(m, IF place = "frontend" THEN "running" ELSE "asked")}
  BY <1>3 DEF Jobs, JobOf
<1> QED BY <1>4, FS_Singleton

-----------------------------------------------------------------------------
(* The inductive invariant of the requests.                                *)

\* The ids of the attempts, and the call and the attempts left of each.
Ids == first + 1 .. first + Len(tries)
CallOf(id) == Try(id).call
LeftOf(id) == Try(id).left

\* The messages that the client has made so far, and those of a call.
AllMsgs ==
    {ReqMsg(id, CallOf(id)) : id \in Ids} \union {NoteMsg(c) : c \in {c \in Calls : result[c] = "told"}}
MadeOf(c) == {m \in AllMsgs : m.body[1] = c}

FieldsSound ==
    /\ transport \in {"ws", "udp"} /\ first \in FirstIds /\ open \in BOOLEAN
    /\ place \in {"frontend", "backend", "nowhere", "untyped"} /\ nexts \in {1, 2}
    /\ tries \in Seq([call : Calls, left : 0 .. MaxReqAttempts - 1]) /\ Len(tries) <= MaxAttempts
    /\ routeMap \subseteq Ids /\ callbacks \subseteq Ids /\ timers \subseteq Ids
    /\ result \in [Calls -> {"none", "told", "pending", "ok", "error", "timeout"}]
    /\ answer \in [Calls -> Calls \union {0}]
    /\ ran \in [Calls -> Nat]

\* No two attempts of a call have as many left, and the timer that is running
\* is of the latest one.
AttemptsDiffer ==
    /\ \A id1, id2 \in Ids : CallOf(id1) = CallOf(id2) /\ LeftOf(id1) = LeftOf(id2) => id1 = id2
    /\ \A id1 \in timers, id2 \in Ids : CallOf(id1) = CallOf(id2) => LeftOf(id1) <= LeftOf(id2)
    /\ \A id \in Ids : result[CallOf(id)] \notin {"none", "told"}
    /\ transport = "ws" => timers = {}

\* What is under way to the server or being handled there are messages of the client.
FramesSound ==
    /\ asks \subseteq {Ask(m) : m \in AllMsgs}
    /\ running \subseteq AllMsgs
    /\ jobs \subseteq [msg : AllMsgs, number : {2}, at : {"asked", "running", "ok", "error"}]

\* What is under way to the client are answers to them; one with a value comes from a run.
AnswersSound ==
    \A f \in answers : \E m \in AllMsgs, code \in {0, 1} :
        m.id # 0 /\ f = Reply(m, code) /\ (code = 0 => ran[m.body[1]] > 0)

\* A job comes after its frame, and runs the controller unless a backend is asked for it.
JobsSound ==
    /\ \A j \in jobs : Ask(j.msg) \notin asks
    /\ \A j \in jobs : IF j.at = "asked" THEN place = "backend" ELSE ran[j.msg.body[1]] > 0

\* The messages of a call whose controller is still to run, each of which
\* counts for one of its runs.
Waiting(c) == {m \in MadeOf(c) : Ask(m) \in asks \/ JobOf(m, "asked") \in jobs}
Counted ==
    /\ IsFiniteSet(AllMsgs)
    /\ \A c \in Calls : ran[c] + Cardinality(Waiting(c)) <= Cardinality(MadeOf(c))

\* A message that can still be answered.
UnderWay(m) ==
    /\ m.id \in routeMap \intersect callbacks
    /\ Ask(m) \in asks \/ m \in running \/ \E code \in {0, 1} : Reply(m, code) \in answers

RunningHasJob == \A m \in running : \E j \in jobs : j.msg = m
PendingUnderWay ==
    \A c \in Calls : transport = "ws" /\ open /\ place # "untyped" /\ result[c] = "pending" =>
        \E m \in MadeOf(c) : UnderWay(m)

ReqInv ==
    /\ FieldsSound /\ AttemptsDiffer /\ FramesSound /\ AnswersSound /\ JobsSound
    /\ OwnAnswer /\ Counted /\ RunningHasJob /\ PendingUnderWay

-----------------------------------------------------------------------------
LEMMA BoundsTyped ==
    /\ MaxAttempts \in Nat /\ FirstIds \subseteq Nat
    /\ \A id \in FirstIds : id + MaxAttempts <= MaxId
<1>1. MaxAttempts \in Nat
  <2>1. PICK a, b \in Nat : a = MaxReqAttempts /\ b = MaxCalls
    BY BoundsAssumption
  <2>2. a * b \in Nat
    OBVIOUS
  <2>3. a * b + 1 \in Nat
    BY <2>2
  <2> QED BY <2>1, <2>3 DEF MaxAttempts
<1> QED BY <1>1, FirstIdsAssumption

LEMMA IdsTyped ==
    ASSUME FieldsSound
    PROVE  /\ first \in Nat /\ reqId \in Nat /\ Ids = first + 1 .. reqId
           /\ Ids \subseteq 1 .. MaxId
           /\ reqId + 1 \notin Ids /\ reqId + 1 \in Nat
           /\ Len(tries) < MaxAttempts => reqId + 1 \in 1 .. MaxId
           /\ \A id \in Ids : id - first \in 1 .. Len(tries)
           /\ \A id \in Ids : CallOf(id) \in Calls /\ LeftOf(id) \in 0 .. MaxReqAttempts - 1
<1>1. first \in Nat /\ first + MaxAttempts <= MaxId /\ MaxAttempts \in Nat
  BY BoundsTyped DEF FieldsSound
<1>2. PICK n \in Nat : n = Len(tries) /\ n <= MaxAttempts
  BY DEF FieldsSound
<1>3. reqId = first + n
  BY <1>2 DEF reqId
<1>4. Ids = first + 1 .. first + n
  BY <1>2 DEF Ids
<1>5. MaxId \in Nat
  BY MaxIdTyped
<1>6. \A id \in Ids : id \in 1 .. MaxId /\ id - first \in 1 .. n
  BY <1>1, <1>2, <1>4, <1>5
<1>7. \A id \in Ids : CallOf(id) \in Calls /\ LeftOf(id) \in 0 .. MaxReqAttempts - 1
  <2> DEFINE S == [call : Calls, left : 0 .. MaxReqAttempts - 1]
  <2>1. tries \in Seq(S)
    BY DEF FieldsSound
  <2>2. \A r \in S : r.call \in Calls /\ r.left \in 0 .. MaxReqAttempts - 1
    OBVIOUS
  <2> HIDE DEF S
  <2>3. \A k \in 1 .. n : tries[k] \in S
    BY <1>2, <2>1, ElementOfSeq
  <2> QED BY <1>6, <2>2, <2>3 DEF CallOf, LeftOf, Try
<1>8. n < MaxAttempts => first + n + 1 \in 1 .. MaxId
  BY <1>1, <1>5
<1>9. first + n + 1 \notin Ids
  BY <1>1, <1>4
<1> QED BY <1>1, <1>2, <1>3, <1>4, <1>6, <1>7, <1>8, <1>9

LEMMA AllMsgsShape ==
    ASSUME FieldsSound
    PROVE  /\ AllMsgs \subseteq MsgSet
           /\ \A m \in AllMsgs : m.id # 0 => m.id \in Ids /\ m.body[1] = CallOf(m.id)
           /\ \A m \in AllMsgs : m.id = 0 => result[m.body[1]] = "told"
           /\ \A id \in Ids : ReqMsg(id, CallOf(id)) \in AllMsgs
           /\ \A m, n \in AllMsgs : m.id = n.id /\ m.id # 0 => m = n
<1>1. ASSUME NEW m \in AllMsgs, NEW id \in Ids, m = ReqMsg(id, CallOf(id))
      PROVE  m \in MsgSet /\ m.id = id /\ m.id # 0 /\ m.body[1] = CallOf(id)
  <2>1. m.id = id /\ m.body[1] = CallOf(id)
    BY <1>1, MsgFields
  <2>2. id \in 1 .. MaxId /\ CallOf(id) \in Calls
    BY IdsTyped
  <2>3. m \in MsgSet
    BY <1>1, <2>2 DEF MsgSet
  <2>4. id # 0
    BY <2>2
  <2> QED BY <2>1, <2>3, <2>4
<1>2. ASSUME NEW m \in AllMsgs, NEW c \in Calls, result[c] = "told", m = NoteMsg(c)
      PROVE  m \in MsgSet /\ m.id = 0 /\ result[m.body[1]] = "told"
  <2>1. m.id = 0 /\ m.body[1] = c
    BY <1>2, MsgFields
  <2> QED BY <1>2, <2>1 DEF MsgSet
<1>3. \A m \in AllMsgs : \/ \E id \in Ids : m = ReqMsg(id, CallOf(id))
                         \/ \E c \in Calls : result[c] = "told" /\ m = NoteMsg(c)
  BY DEF AllMsgs
<1>4. \A id \in Ids : ReqMsg(id, CallOf(id)) \in AllMsgs
  BY DEF AllMsgs
<1>5. \A m, n \in AllMsgs : m.id = n.id /\ m.id # 0 => m = n
  BY <1>1, <1>2, <1>3
<1> QED BY <1>1, <1>2, <1>3, <1>4, <1>5

\* A step that makes no message.
LEMMA SameMsgs ==
    ASSUME FieldsSound, tries' = tries, first' = first,
           \A c \in Calls : result'[c] = "told" <=> result[c] = "told"
    PROVE  /\ AllMsgs' = AllMsgs /\ Ids' = Ids
           /\ \A id : CallOf(id)' = CallOf(id) /\ LeftOf(id)' = LeftOf(id)
           /\ \A c : MadeOf(c)' = MadeOf(c)
<1>1. Ids' = Ids /\ \A id : CallOf(id)' = CallOf(id) /\ LeftOf(id)' = LeftOf(id)
  BY DEF Ids, CallOf, LeftOf, Try
<1>2. {c \in Calls : result'[c] = "told"} = {c \in Calls : result[c] = "told"}
  OBVIOUS
<1>3. AllMsgs' = AllMsgs
  BY <1>1, <1>2 DEF AllMsgs
<1>4. \A c : MadeOf(c)' = MadeOf(c)
  BY <1>3 DEF MadeOf
<1> QED BY <1>1, <1>3, <1>4

\* A step that makes an attempt.
Grows(id, c, n) ==
    /\ id \in 1 .. MaxId /\ id \notin Ids
    /\ tries' \in Seq([call : Calls, left : 0 .. MaxReqAttempts - 1]) /\ Len(tries') <= MaxAttempts
    /\ Ids' = Ids \union {id}
    /\ \A old \in Ids : CallOf(old)' = CallOf(old) /\ LeftOf(old)' = LeftOf(old)
    /\ CallOf(id)' = c /\ LeftOf(id)' = n
    /\ AllMsgs' = AllMsgs \union {ReqMsg(id, c)}
    /\ ReqMsg(id, c) \notin AllMsgs /\ ReqMsg(id, c) \in MsgSet

LEMMA OneMoreAttempt ==
    ASSUME FieldsSound, NEW c \in Calls, NEW n \in 0 .. MaxReqAttempts - 1, Attempt(c, n),
           \A d \in Calls : result'[d] = "told" <=> result[d] = "told"
    PROVE  \E id : id = reqId + 1 /\ Grows(id, c, n)
<1>1. first' = first /\ tries' = Append(tries, [call |-> c, left |-> n]) /\ Len(tries) < MaxAttempts
  BY DEF Attempt, options
<1>2. PICK k \in Nat : k = Len(tries)
  BY DEF FieldsSound
<1>3. PICK r \in [call : Calls, left : 0 .. MaxReqAttempts - 1] : r = [call |-> c, left |-> n]
  OBVIOUS
<1>4. /\ tries' \in Seq([call : Calls, left : 0 .. MaxReqAttempts - 1]) /\ Len(tries') = k + 1
      /\ \A i \in 1 .. k : tries'[i] = tries[i]
      /\ tries'[k + 1] = r
  BY <1>1, <1>2, <1>3, AppendProperties DEF FieldsSound
<1>5. first \in Nat /\ reqId = first + k /\ Ids = first + 1 .. first + k
  BY <1>2, IdsTyped DEF reqId
<1>a. PICK id \in 1 .. MaxId : id = reqId + 1 /\ id \notin Ids
  BY <1>1, IdsTyped
<1>b. id = first + k + 1
  BY <1>5, <1>a
<1>6. Ids' = first + 1 .. first + k + 1
  <2>1. Ids' = first' + 1 .. first' + Len(tries')
    BY DEF Ids
  <2>2. first + (k + 1) = first + k + 1
    BY <1>5
  <2> QED BY <1>1, <1>4, <2>1, <2>2
<1>7. Ids' = Ids \union {id}
  BY <1>5, <1>6, <1>b
<1>9. ASSUME NEW old \in Ids PROVE CallOf(old)' = CallOf(old) /\ LeftOf(old)' = LeftOf(old)
  <2>1. old - first \in 1 .. k
    BY <1>2, IdsTyped
  <2>2. tries'[old - first'] = tries[old - first]
    BY <1>1, <1>4, <2>1
  <2> QED BY <2>2 DEF CallOf, LeftOf, Try
<1>10. CallOf(id)' = c /\ LeftOf(id)' = n
  <2>2. id - first' = k + 1
    BY <1>1, <1>5, <1>b
  <2>3. tries'[id - first'] = r
    BY <1>4, <2>2
  <2> QED BY <1>3, <2>3 DEF CallOf, LeftOf, Try
<1>11. AllMsgs' = AllMsgs \union {ReqMsg(id, c)}
  <2>1. {d \in Calls : result'[d] = "told"} = {d \in Calls : result[d] = "told"}
    OBVIOUS
  <2>2. AllMsgs' = {ReqMsg(i, CallOf(i)') : i \in Ids'} \union {NoteMsg(d) : d \in {d \in Calls : result'[d] = "told"}}
    BY DEF AllMsgs
  <2>3. {ReqMsg(i, CallOf(i)') : i \in Ids'} = {ReqMsg(i, CallOf(i)) : i \in Ids} \union {ReqMsg(id, c)}
    BY <1>7, <1>9, <1>10
  <2> QED BY <2>1, <2>2, <2>3 DEF AllMsgs
<1>12. ReqMsg(id, c) \in MsgSet
  BY DEF MsgSet
<1>13. ReqMsg(id, c) \notin AllMsgs
  <2>1. ReqMsg(id, c).id = id /\ id # 0
    BY MsgFields
  <2> QED BY <1>a, <2>1, AllMsgsShape
<1>14. Len(tries') <= MaxAttempts
  BY <1>1, <1>2, <1>4, BoundsTyped
<1> QED BY <1>a, <1>4, <1>7, <1>9, <1>10, <1>11, <1>12, <1>13, <1>14 DEF Grows

LEMMA OneMoreNote ==
    ASSUME FieldsSound, NEW c \in Calls, result[c] = "none", result' = [result EXCEPT ![c] = "told"],
           tries' = tries, first' = first
    PROVE  /\ Ids' = Ids /\ \A id : CallOf(id)' = CallOf(id) /\ LeftOf(id)' = LeftOf(id)
           /\ AllMsgs' = AllMsgs \union {NoteMsg(c)}
           /\ NoteMsg(c) \notin AllMsgs /\ NoteMsg(c) \in MsgSet
<1>1. Ids' = Ids /\ \A id : CallOf(id)' = CallOf(id) /\ LeftOf(id)' = LeftOf(id)
  BY DEF Ids, CallOf, LeftOf, Try
<1>2. {d \in Calls : result'[d] = "told"} = {d \in Calls : result[d] = "told"} \union {c}
  BY DEF FieldsSound
<1>3. AllMsgs' = AllMsgs \union {NoteMsg(c)}
  BY <1>1, <1>2 DEF AllMsgs
<1>4. NoteMsg(c) \notin AllMsgs
  <2>1. NoteMsg(c).id = 0 /\ NoteMsg(c).body[1] = c
    BY MsgFields
  <2> QED BY <2>1, AllMsgsShape
<1> QED BY <1>1, <1>3, <1>4 DEF MsgSet

-----------------------------------------------------------------------------
(* What the steps have in common.                                          *)

LEMMA SubsetSize ==
    ASSUME NEW S, IsFiniteSet(S), NEW T, T \subseteq S
    PROVE  IsFiniteSet(T) /\ Cardinality(T) \in Nat /\ Cardinality(S) \in Nat /\ Cardinality(T) <= Cardinality(S)
<1>1. T \in SUBSET S
  OBVIOUS
<1>2. IsFiniteSet(T) /\ Cardinality(T) <= Cardinality(S)
  BY <1>1, FS_Subset
<1> QED BY <1>2, FS_CardinalityType

LEMMA PutSize ==
    ASSUME NEW S, IsFiniteSet(S), NEW x
    PROVE  x \notin S => Cardinality(S \union {x}) = Cardinality(S) + 1 /\ IsFiniteSet(S \union {x})
                         /\ Cardinality(S) \in Nat
BY FS_AddElement, FS_CardinalityType

LEMMA TakeSize ==
    ASSUME NEW S, IsFiniteSet(S), NEW x \in S
    PROVE  Cardinality(S \ {x}) + 1 = Cardinality(S) /\ IsFiniteSet(S \ {x}) /\ Cardinality(S \ {x}) \in Nat
<1>1. IsFiniteSet(S \ {x}) /\ Cardinality(S \ {x}) = Cardinality(S) - 1
  BY FS_RemoveElement
<1>2. Cardinality(S) \in Nat /\ Cardinality(S \ {x}) \in Nat
  BY <1>1, FS_CardinalityType
<1> QED BY <1>1, <1>2

LEMMA WaitingFinite ==
    ASSUME Counted, NEW c
    PROVE  /\ IsFiniteSet(MadeOf(c)) /\ IsFiniteSet(Waiting(c))
           /\ Cardinality(MadeOf(c)) \in Nat /\ Cardinality(Waiting(c)) \in Nat
<1>1. MadeOf(c) \subseteq AllMsgs /\ Waiting(c) \subseteq AllMsgs
  BY DEF MadeOf, Waiting
<1> QED BY <1>1, SubsetSize DEF Counted

-----------------------------------------------------------------------------
\* The count, when no message is made and no controller begins.
LEMMA CountedKept ==
    ASSUME FieldsSound, Counted, AllMsgs' = AllMsgs, ran' = ran,
           \A m \in AllMsgs : Ask(m) \in asks' \/ JobOf(m, "asked") \in jobs'
                                  => Ask(m) \in asks \/ JobOf(m, "asked") \in jobs
    PROVE  Counted'
<1>1. ASSUME NEW c \in Calls PROVE ran'[c] + Cardinality(Waiting(c)') <= Cardinality(MadeOf(c)')
  <2>1. MadeOf(c)' = MadeOf(c)
    BY DEF MadeOf
  <2>2. Waiting(c)' \subseteq Waiting(c)
    BY <2>1 DEF Waiting, MadeOf
  <2>3. IsFiniteSet(Waiting(c)) /\ Cardinality(MadeOf(c)) \in Nat
    BY WaitingFinite
  <2>4. PICK a, b, d, r \in Nat : a = Cardinality(Waiting(c)') /\ b = Cardinality(Waiting(c))
                                  /\ d = Cardinality(MadeOf(c)) /\ r = ran[c] /\ a <= b
    <3>1. Cardinality(Waiting(c)') \in Nat /\ Cardinality(Waiting(c)) \in Nat
          /\ Cardinality(Waiting(c)') <= Cardinality(Waiting(c))
      BY <2>2, <2>3, SubsetSize
    <3>2. ran[c] \in Nat
      BY DEF FieldsSound
    <3> QED BY <2>3, <3>1, <3>2
  <2>5. r + b <= d
    BY <2>4 DEF Counted
  <2>6. r + a <= d
    BY <2>4, <2>5
  <2> QED BY <2>1, <2>4, <2>6
<1> QED BY <1>1 DEF Counted

\* The count, when a controller begins for a message that was waiting.
LEMMA CountedRun ==
    ASSUME FieldsSound, Counted, AllMsgs' = AllMsgs, NEW m \in AllMsgs, NEW c \in Calls, m.body[1] = c,
           ran' = [ran EXCEPT ![c] = @ + 1],
           Ask(m) \in asks \/ JobOf(m, "asked") \in jobs,
           Ask(m) \notin asks' /\ JobOf(m, "asked") \notin jobs',
           \A n \in AllMsgs : Ask(n) \in asks' \/ JobOf(n, "asked") \in jobs'
                                  => Ask(n) \in asks \/ JobOf(n, "asked") \in jobs
    PROVE  Counted'
<1>1. ASSUME NEW d \in Calls PROVE ran'[d] + Cardinality(Waiting(d)') <= Cardinality(MadeOf(d)')
  <2>1. MadeOf(d)' = MadeOf(d)
    BY DEF MadeOf
  <2>2. Waiting(d)' \subseteq Waiting(d)
    BY <2>1 DEF Waiting, MadeOf
  <2>3. IsFiniteSet(Waiting(d)) /\ Cardinality(MadeOf(d)) \in Nat /\ Cardinality(Waiting(d)) \in Nat
    BY WaitingFinite
  <2>4. ran[d] \in Nat /\ ran[d] + Cardinality(Waiting(d)) <= Cardinality(MadeOf(d))
    BY DEF FieldsSound, Counted
  <2>5. CASE d = c
    <3>1. m \in Waiting(d) /\ m \notin Waiting(d)'
      BY <2>1, <2>5 DEF Waiting, MadeOf
    <3>2. Waiting(d)' \subseteq Waiting(d) \ {m}
      BY <2>2, <3>1
    <3>3. IsFiniteSet(Waiting(d) \ {m}) /\ Cardinality(Waiting(d) \ {m}) + 1 = Cardinality(Waiting(d))
          /\ Cardinality(Waiting(d) \ {m}) \in Nat
      BY <2>3, <3>1, TakeSize
    <3>4. Cardinality(Waiting(d)') \in Nat /\ Cardinality(Waiting(d)') <= Cardinality(Waiting(d) \ {m})
      BY <3>2, <3>3, SubsetSize
    <3>5. ran'[d] = ran[d] + 1
      BY <2>5 DEF FieldsSound
    <3> QED BY <2>1, <2>3, <2>4, <3>3, <3>4, <3>5
  <2>6. CASE d # c
    <3>1. ran'[d] = ran[d]
      BY <2>6 DEF FieldsSound
    <3>2. Cardinality(Waiting(d)') \in Nat /\ Cardinality(Waiting(d)') <= Cardinality(Waiting(d))
      BY <2>2, <2>3, SubsetSize
    <3> QED BY <2>1, <2>3, <2>4, <3>1, <3>2
  <2> QED BY <2>5, <2>6
<1> QED BY <1>1 DEF Counted

\* The parts of the invariant about the server, when a message is made.
LEMMA Sent ==
    ASSUME ReqInv, NEW m \in MsgSet, m \notin AllMsgs, AllMsgs' = AllMsgs \union {m},
           asks' \subseteq asks \union {Ask(m)}, UNCHANGED <<place, server, answers>>
    PROVE  FramesSound' /\ AnswersSound' /\ JobsSound' /\ Counted' /\ RunningHasJob'
<1> USE DEF ReqInv, server
<1>1. AllMsgs \subseteq MsgSet
  BY AllMsgsShape
<1>2. FramesSound'
  <2>1. asks' \subseteq {Ask(n) : n \in AllMsgs'}
    BY DEF FramesSound
  <2>2. \A j \in jobs : j \in [msg : AllMsgs', number : {2}, at : {"asked", "running", "ok", "error"}]
    BY DEF FramesSound
  <2> QED BY <2>1, <2>2 DEF FramesSound
<1>3. AnswersSound'
  BY DEF AnswersSound
<1>4. JobsSound'
  <2>1. ASSUME NEW j \in jobs PROVE Ask(j.msg) \notin asks'
    <3>1. j.msg \in AllMsgs /\ j.msg # m
      BY DEF FramesSound
    <3>2. Ask(j.msg) # Ask(m)
      BY <1>1, <3>1, AsksDiffer
    <3> QED BY <3>2 DEF JobsSound
  <2> QED BY <2>1 DEF JobsSound
<1>5. Counted'
  <2>0. IsFiniteSet(AllMsgs')
    BY FS_AddElement DEF Counted
  <2>1. ASSUME NEW c \in Calls PROVE ran'[c] + Cardinality(Waiting(c)') <= Cardinality(MadeOf(c)')
    <3>1. IsFiniteSet(Waiting(c)) /\ IsFiniteSet(MadeOf(c))
          /\ Cardinality(MadeOf(c)) \in Nat /\ Cardinality(Waiting(c)) \in Nat
      BY WaitingFinite
    <3>2. ran[c] \in Nat /\ ran'[c] = ran[c] /\ ran[c] + Cardinality(Waiting(c)) <= Cardinality(MadeOf(c))
      BY DEF FieldsSound, Counted
    <3>3. \A n \in AllMsgs : Ask(n) # Ask(m)
      BY <1>1, AsksDiffer
    <3>4. MadeOf(c)' = IF m.body[1] = c THEN MadeOf(c) \union {m} ELSE MadeOf(c)
      BY DEF MadeOf
    <3>5. Waiting(c)' \subseteq IF m.body[1] = c THEN Waiting(c) \union {m} ELSE Waiting(c)
      BY <3>3, <3>4 DEF Waiting, MadeOf
    <3>6. CASE m.body[1] = c
      <4>1. m \notin MadeOf(c) /\ m \notin Waiting(c)
        BY DEF MadeOf, Waiting
      <4>2. Cardinality(MadeOf(c) \union {m}) = Cardinality(MadeOf(c)) + 1
        BY <3>1, <4>1, PutSize
      <4>3. Cardinality(Waiting(c) \union {m}) = Cardinality(Waiting(c)) + 1 /\ IsFiniteSet(Waiting(c) \union {m})
        BY <3>1, <4>1, PutSize
      <4>4. Cardinality(Waiting(c)') \in Nat /\ Cardinality(Waiting(c)') <= Cardinality(Waiting(c) \union {m})
        BY <3>5, <3>6, <4>3, SubsetSize
      <4> QED BY <3>1, <3>2, <3>4, <3>6, <4>2, <4>3, <4>4
    <3>7. CASE m.body[1] # c
      <4>1. Cardinality(Waiting(c)') \in Nat /\ Cardinality(Waiting(c)') <= Cardinality(Waiting(c))
        BY <3>1, <3>5, <3>7, SubsetSize
      <4> QED BY <3>1, <3>2, <3>4, <3>7, <4>1
    <3> QED BY <3>6, <3>7
  <2> QED BY <2>0, <2>1 DEF Counted
<1>6. RunningHasJob'
  BY DEF RunningHasJob
<1> QED BY <1>2, <1>3, <1>4, <1>5, <1>6

-----------------------------------------------------------------------------
(* The steps of the client.                                                *)

\* The first attempt of a call.
LEMMA RequestKeeps ==
    ASSUME ReqInv, NEW c \in Calls, RequestOverWS(c) \/ RequestOverUDP(c)
    PROVE  ReqInv'
<1> USE DEF ReqInv
<1>1. /\ result[c] = "none" /\ result' = [result EXCEPT ![c] = "pending"]
      /\ callbacks' = callbacks \union {reqId + 1} /\ answer' = answer
  BY DEF RequestOverWS, RequestOverUDP, Called
<1>2. PICK n \in 0 .. MaxReqAttempts - 1 :
          /\ Attempt(c, n)
          /\ IF transport = "ws" THEN timers' = timers ELSE timers' = timers \union {reqId + 1}
  BY BoundsAssumption DEF RequestOverWS, RequestOverUDP
<1>3. \A d \in Calls : result'[d] = "told" <=> result[d] = "told"
  BY <1>1 DEF FieldsSound
<1>4. PICK id : id = reqId + 1 /\ Grows(id, c, n)
  BY <1>2, <1>3, OneMoreAttempt
<1> DEFINE m == ReqMsg(id, c)
<1>5. /\ routeMap' = routeMap \union {id} /\ UNCHANGED <<options, open, server, answers>>
      /\ asks' = IF open THEN asks \union {Frame(REQUEST, id, ROUTE, <<c>>)} ELSE asks
  BY <1>2, <1>4 DEF Attempt
<1>6. asks' = IF open THEN asks \union {Ask(m)} ELSE asks
  BY <1>5 DEF Ask, ReqMsg
<1>7. m \in MsgSet /\ m \notin AllMsgs /\ AllMsgs' = AllMsgs \union {m}
  BY <1>4 DEF Grows
<1>8. m.id = id /\ m.body[1] = c
  BY MsgFields
<1> HIDE DEF m
<1>9. FramesSound' /\ AnswersSound' /\ JobsSound' /\ Counted' /\ RunningHasJob'
  BY <1>5, <1>6, <1>7, Sent DEF options
<1>10. FieldsSound'
  <2>1. Ids' = Ids \union {id}
    BY <1>4 DEF Grows
  <2>2. routeMap' \subseteq Ids' /\ callbacks' \subseteq Ids' /\ timers' \subseteq Ids'
    BY <1>1, <1>2, <1>4, <1>5, <2>1 DEF FieldsSound
  <2>3. result' \in [Calls -> {"none", "told", "pending", "ok", "error", "timeout"}]
    BY <1>1 DEF FieldsSound
  <2>4. tries' \in Seq([call : Calls, left : 0 .. MaxReqAttempts - 1]) /\ Len(tries') <= MaxAttempts
    BY <1>4 DEF Grows
  <2>5. MaxAttempts' = MaxAttempts
    BY DEF MaxAttempts
  <2> QED BY <1>1, <1>5, <2>2, <2>3, <2>4, <2>5 DEF FieldsSound, options, server
<1>11. AttemptsDiffer'
  <2>1. \A old \in Ids : CallOf(old) # c /\ CallOf(old) \in Calls
    BY <1>1, IdsTyped DEF AttemptsDiffer
  <2>2. Ids' = Ids \union {id} /\ id \notin Ids /\ CallOf(id)' = c /\ LeftOf(id)' = n
        /\ \A old \in Ids : CallOf(old)' = CallOf(old) /\ LeftOf(old)' = LeftOf(old)
    BY <1>4 DEF Grows
  <2>3. transport' = transport
    BY <1>5 DEF options
  <2>4. timers' \subseteq timers \union {id} /\ (transport = "ws" => timers' = timers) /\ timers \subseteq Ids
    BY <1>2, <1>4 DEF FieldsSound
  <2>5. \A d \in Calls : d # c => result'[d] = result[d]
    BY <1>1 DEF FieldsSound
  <2>6. result'[c] = "pending"
    BY <1>1 DEF FieldsSound
  <2>7. \A i, k \in Ids' : CallOf(i)' = CallOf(k)' /\ LeftOf(i)' = LeftOf(k)' => i = k
    BY <2>1, <2>2 DEF AttemptsDiffer
  <2>8. \A i \in timers', k \in Ids' : CallOf(i)' = CallOf(k)' => LeftOf(i)' <= LeftOf(k)'
    BY <2>1, <2>2, <2>4 DEF AttemptsDiffer
  <2>9. \A i \in Ids' : result'[CallOf(i)'] \notin {"none", "told"}
    BY <2>1, <2>2, <2>5, <2>6 DEF AttemptsDiffer
  <2> QED BY <2>3, <2>4, <2>7, <2>8, <2>9 DEF AttemptsDiffer
<1>12. OwnAnswer'
  BY <1>1, <1>5 DEF OwnAnswer, FieldsSound, server
<1>13. PendingUnderWay'
  <2>1. SUFFICES ASSUME NEW d \in Calls, transport' = "ws", open', place' # "untyped", result'[d] = "pending"
                 PROVE  \E k \in MadeOf(d)' : UnderWay(k)'
    BY DEF PendingUnderWay
  <2>2. transport = "ws" /\ place # "untyped" /\ open' = open /\ running' = running /\ answers' = answers
    BY <1>5, <2>1 DEF options, server
  <2>3. CASE d = c
    <3>1. m \in MadeOf(d)'
      BY <1>7, <1>8, <2>3 DEF MadeOf
    <3>2. UnderWay(m)'
      BY <1>1, <1>4, <1>5, <1>6, <1>8, <2>1, <2>2 DEF UnderWay
    <3> QED BY <3>1, <3>2
  <2>4. CASE d # c
    <3>1. PICK k \in MadeOf(d) : UnderWay(k)
      BY <1>1, <2>1, <2>2, <2>4 DEF PendingUnderWay, FieldsSound
    <3>2. k \in MadeOf(d)'
      BY <1>7, <3>1 DEF MadeOf
    <3>3. UnderWay(k)'
      BY <1>1, <1>5, <1>6, <2>2, <3>1 DEF UnderWay
    <3> QED BY <3>2, <3>3
  <2> QED BY <2>3, <2>4
<1> QED BY <1>9, <1>10, <1>11, <1>12, <1>13

LEMMA NotifyKeeps ==
    ASSUME ReqInv, NEW c \in Calls, Notify(c)
    PROVE  ReqInv'
<1> USE DEF ReqInv
<1>1. /\ result[c] = "none" /\ result' = [result EXCEPT ![c] = "told"]
      /\ UNCHANGED <<options, open, tries, routeMap, callbacks, timers, answer, server, answers>>
      /\ asks' = asks \union {Frame(NOTIFY, 0, ROUTE, <<c>>)}
  BY DEF Notify
<1>2. tries' = tries /\ first' = first /\ transport' = transport
  BY <1>1 DEF options
<1> DEFINE m == NoteMsg(c)
<1>3. /\ Ids' = Ids /\ \A id : CallOf(id)' = CallOf(id) /\ LeftOf(id)' = LeftOf(id)
      /\ AllMsgs' = AllMsgs \union {m} /\ m \notin AllMsgs /\ m \in MsgSet
  BY <1>1, <1>2, OneMoreNote
<1>4. asks' = asks \union {Ask(m)}
  BY <1>1 DEF Ask, NoteMsg
<1> HIDE DEF m
<1>5. FramesSound' /\ AnswersSound' /\ JobsSound' /\ Counted' /\ RunningHasJob'
  BY <1>1, <1>3, <1>4, Sent DEF options
<1>6. FieldsSound'
  BY <1>1, <1>3 DEF FieldsSound, options, server, MaxAttempts
<1>7. AttemptsDiffer'
  <2>1. \A i \in Ids : CallOf(i) # c /\ CallOf(i) \in Calls
    BY <1>1, IdsTyped DEF AttemptsDiffer
  <2>2. \A i \in Ids : result'[CallOf(i)] \notin {"none", "told"}
    BY <1>1, <2>1 DEF AttemptsDiffer, FieldsSound
  <2> QED BY <1>1, <1>2, <1>3, <2>2 DEF AttemptsDiffer
<1>8. OwnAnswer'
  BY <1>1 DEF OwnAnswer, FieldsSound, server
<1>9. PendingUnderWay'
  <2>1. SUFFICES ASSUME NEW d \in Calls, transport' = "ws", open', place' # "untyped", result'[d] = "pending"
                 PROVE  \E k \in MadeOf(d)' : UnderWay(k)'
    BY DEF PendingUnderWay
  <2>2. open' = open /\ place' = place /\ running' = running /\ answers' = answers /\ d # c
    BY <1>1, <2>1 DEF server, options, FieldsSound
  <2>3. PICK k \in MadeOf(d) : UnderWay(k)
    BY <1>1, <1>2, <2>1, <2>2 DEF PendingUnderWay, FieldsSound
  <2>4. k \in MadeOf(d)'
    BY <1>3, <2>3 DEF MadeOf
  <2>5. UnderWay(k)'
    BY <1>1, <1>4, <2>2, <2>3 DEF UnderWay
  <2> QED BY <2>4, <2>5
<1> QED BY <1>5, <1>6, <1>7, <1>8, <1>9

\* A later attempt.
LEMMA RetryKeeps ==
    ASSUME ReqInv, NEW t \in timers, Try(t).left > 0,
           Attempt(Try(t).call, Try(t).left - 1),
           timers' = (timers \ {t}) \union {reqId + 1},
           callbacks' = (callbacks \ {reqId}) \union {reqId + 1},
           UNCHANGED <<result, answer>>
    PROVE  ReqInv'
<1> USE DEF ReqInv
<1>1. t \in Ids /\ transport # "ws"
  BY DEF FieldsSound, AttemptsDiffer
<1>2. PICK c \in Calls : c = Try(t).call
  BY <1>1, IdsTyped DEF CallOf
<1>3. PICK n \in 0 .. MaxReqAttempts - 1 : n = Try(t).left - 1
  <2>1. LeftOf(t) \in 0 .. MaxReqAttempts - 1 /\ LeftOf(t) > 0 /\ MaxReqAttempts \in Nat
    BY <1>1, IdsTyped, BoundsAssumption DEF LeftOf
  <2>2. LeftOf(t) - 1 \in 0 .. MaxReqAttempts - 1
    BY <2>1
  <2> QED BY <2>2 DEF LeftOf
<1>4. Attempt(c, n)
  BY <1>2, <1>3
<1>5. PICK id : id = reqId + 1 /\ Grows(id, c, n)
  BY <1>4, OneMoreAttempt
<1> DEFINE m == ReqMsg(id, c)
<1>6. /\ routeMap' = routeMap \union {id} /\ UNCHANGED <<options, open, server, answers>>
      /\ asks' = IF open THEN asks \union {Frame(REQUEST, id, ROUTE, <<c>>)} ELSE asks
  BY <1>4, <1>5 DEF Attempt
<1>7. asks' \subseteq asks \union {Ask(m)}
  BY <1>6 DEF Ask, ReqMsg
<1>8. m \in MsgSet /\ m \notin AllMsgs /\ AllMsgs' = AllMsgs \union {m}
  BY <1>5 DEF Grows
<1> HIDE DEF m
<1>9. FramesSound' /\ AnswersSound' /\ JobsSound' /\ Counted' /\ RunningHasJob'
  BY <1>6, <1>7, <1>8, Sent DEF options
<1>10. FieldsSound'
  <2>1. Ids' = Ids \union {id}
    BY <1>5 DEF Grows
  <2>2. routeMap' \subseteq Ids' /\ callbacks' \subseteq Ids' /\ timers' \subseteq Ids'
    BY <1>5, <1>6, <2>1 DEF FieldsSound
  <2>4. tries' \in Seq([call : Calls, left : 0 .. MaxReqAttempts - 1]) /\ Len(tries') <= MaxAttempts
    BY <1>5 DEF Grows
  <2>5. MaxAttempts' = MaxAttempts
    BY DEF MaxAttempts
  <2> QED BY <1>6, <2>2, <2>4, <2>5 DEF FieldsSound, options, server
<1>11. AttemptsDiffer'
  <2>1. \A i \in Ids : CallOf(i) = c => LeftOf(t) <= LeftOf(i)
    BY <1>1, <1>2 DEF AttemptsDiffer, CallOf
  <2>2. Ids' = Ids \union {id} /\ id \notin Ids /\ CallOf(id)' = c /\ LeftOf(id)' = n
        /\ \A i \in Ids : CallOf(i)' = CallOf(i) /\ LeftOf(i)' = LeftOf(i)
    BY <1>5 DEF Grows
  <2>3. LeftOf(t) \in Int /\ n \in Int /\ n = LeftOf(t) - 1 /\ \A i \in Ids : LeftOf(i) \in Int
    BY <1>1, <1>3, IdsTyped DEF LeftOf
  <2>4. \A i \in Ids : CallOf(i) = c => n < LeftOf(i)
    BY <2>1, <2>3
  <2>5. transport' = transport
    BY <1>6 DEF options
  <2>6. \A i \in timers : CallOf(i) = c => i = t
    <3>1. SUFFICES ASSUME NEW i \in timers, CallOf(i) = c PROVE i = t
      OBVIOUS
    <3>2. i \in Ids /\ CallOf(t) = c
      BY <1>2 DEF FieldsSound, CallOf
    <3>3. LeftOf(i) <= LeftOf(t) /\ LeftOf(t) <= LeftOf(i)
      BY <1>1, <3>1, <3>2 DEF AttemptsDiffer
    <3>4. LeftOf(i) = LeftOf(t)
      BY <2>3, <3>2, <3>3
    <3> QED BY <1>1, <3>1, <3>2, <3>4 DEF AttemptsDiffer
  <2>7. \A i, k \in Ids' : CallOf(i)' = CallOf(k)' /\ LeftOf(i)' = LeftOf(k)' => i = k
    <3>1. \A i \in Ids : CallOf(i) = c => LeftOf(i) # n
      BY <2>3, <2>4
    <3> QED BY <2>2, <3>1 DEF AttemptsDiffer
  <2>8. \A i \in timers', k \in Ids' : CallOf(i)' = CallOf(k)' => LeftOf(i)' <= LeftOf(k)'
    <3>1. \A i \in timers' : i = id \/ (i \in timers /\ i # t /\ i \in Ids)
      BY <1>5 DEF FieldsSound
    <3>2. \A k \in Ids' : CallOf(k)' = c => n <= LeftOf(k)'
      BY <2>2, <2>3, <2>4
    <3>3. \A i \in timers : i # t /\ i \in Ids => CallOf(i) # c
      BY <2>6
    <3>4. ASSUME NEW i \in timers', NEW k \in Ids', CallOf(i)' = CallOf(k)' PROVE LeftOf(i)' <= LeftOf(k)'
      <4>1. CASE i = id
        BY <2>2, <3>2, <3>4, <4>1
      <4>2. CASE i \in timers /\ i # t /\ i \in Ids
        <5>1. CallOf(i)' = CallOf(i) /\ LeftOf(i)' = LeftOf(i) /\ CallOf(i) # c
          BY <2>2, <3>3, <4>2
        <5>2. k \in Ids /\ CallOf(k)' = CallOf(k) /\ LeftOf(k)' = LeftOf(k)
          BY <2>2, <3>4, <5>1
        <5> QED BY <3>4, <4>2, <5>1, <5>2 DEF AttemptsDiffer
      <4> QED BY <3>1, <4>1, <4>2
    <3> QED BY <3>4
  <2>9. \A i \in Ids' : result'[CallOf(i)'] \notin {"none", "told"}
    <3>1. result[c] \notin {"none", "told"}
      BY <1>1, <1>2 DEF AttemptsDiffer, CallOf
    <3> QED BY <2>2, <3>1 DEF AttemptsDiffer
  <2> QED BY <1>1, <2>5, <2>7, <2>8, <2>9 DEF AttemptsDiffer
<1>12. OwnAnswer'
  BY <1>6 DEF OwnAnswer, server
<1>13. PendingUnderWay'
  BY <1>1, <1>6 DEF PendingUnderWay, options
<1> QED BY <1>9, <1>10, <1>11, <1>12, <1>13

\* A step of the client that makes no message and sends nothing.
LEMMA ClientStep ==
    ASSUME ReqInv, tries' = tries, UNCHANGED <<options, open, server, asks>>, answers' \subseteq answers,
           \A c \in Calls : \/ result'[c] = result[c]
                            \/ result[c] = "pending" /\ result'[c] \in {"ok", "error", "timeout"},
           result' \in [Calls -> {"none", "told", "pending", "ok", "error", "timeout"}],
           timers' \subseteq timers
    PROVE  /\ AllMsgs' = AllMsgs /\ Ids' = Ids /\ \A c : MadeOf(c)' = MadeOf(c)
           /\ AttemptsDiffer' /\ FramesSound' /\ AnswersSound' /\ JobsSound' /\ Counted' /\ RunningHasJob'
<1> USE DEF ReqInv, options, server
<1>1. /\ AllMsgs' = AllMsgs /\ Ids' = Ids /\ \A c : MadeOf(c)' = MadeOf(c)
      /\ \A id : CallOf(id)' = CallOf(id) /\ LeftOf(id)' = LeftOf(id)
  <2>1. \A c \in Calls : result'[c] = "told" <=> result[c] = "told"
    OBVIOUS
  <2> QED BY <2>1, SameMsgs
<1>2. AttemptsDiffer'
  <2>1. \A i \in Ids : result'[CallOf(i)] \notin {"none", "told"}
    <3>1. \A i \in Ids : CallOf(i) \in Calls
      BY IdsTyped
    <3> QED BY <3>1 DEF AttemptsDiffer
  <2>2. timers \subseteq Ids
    BY DEF FieldsSound
  <2> QED BY <1>1, <2>1, <2>2 DEF AttemptsDiffer
<1>3. FramesSound'
  BY <1>1 DEF FramesSound
<1>4. AnswersSound'
  BY <1>1 DEF AnswersSound
<1>5. JobsSound'
  BY DEF JobsSound
<1>6. Counted'
  BY <1>1, CountedKept
<1>7. RunningHasJob'
  BY DEF RunningHasJob
<1> QED BY <1>1, <1>2, <1>3, <1>4, <1>5, <1>6, <1>7

\* The timer of a last attempt.
LEMMA GiveUpKeeps ==
    ASSUME ReqInv, NEW t \in timers,
           timers' = timers \ {t}, callbacks' = callbacks \ {reqId},
           Settle(Try(t).call, 0, "timeout"),
           UNCHANGED <<options, open, tries, routeMap, server, asks, answers>>
    PROVE  ReqInv'
<1> USE DEF ReqInv
<1>1. t \in Ids /\ transport # "ws"
  BY DEF FieldsSound, AttemptsDiffer
<1>2. PICK c \in Calls : c = Try(t).call
  BY <1>1, IdsTyped DEF CallOf
<1>3. \/ result' = result /\ answer' = answer
      \/ /\ result[c] = "pending"
         /\ result' = [result EXCEPT ![c] = "timeout"] /\ answer' = [answer EXCEPT ![c] = 0]
  BY <1>2 DEF Settle
<1>4. \A d \in Calls : \/ result'[d] = result[d] /\ answer'[d] = answer[d]
                       \/ result[d] = "pending" /\ result'[d] = "timeout"
  BY <1>3 DEF FieldsSound
<1>5. /\ result' \in [Calls -> {"none", "told", "pending", "ok", "error", "timeout"}]
      /\ answer' \in [Calls -> Calls \union {0}]
  BY <1>3 DEF FieldsSound
<1>6. /\ AllMsgs' = AllMsgs /\ Ids' = Ids
      /\ AttemptsDiffer' /\ FramesSound' /\ AnswersSound' /\ JobsSound' /\ Counted' /\ RunningHasJob'
  BY <1>4, <1>5, ClientStep
<1>7. FieldsSound'
  BY <1>5, <1>6 DEF FieldsSound, options, server, MaxAttempts
<1>8. OwnAnswer'
  BY <1>4 DEF OwnAnswer, server
<1>9. PendingUnderWay'
  BY <1>1 DEF PendingUnderWay, options
<1> QED BY <1>6, <1>7, <1>8, <1>9

LEMMA RequestTimeoutKeeps ==
    ASSUME ReqInv, NEW t \in timers, RequestTimeout(t)
    PROVE  ReqInv'
<1>1. CASE Try(t).left = 0
  BY <1>1, GiveUpKeeps DEF RequestTimeout
<1>2. CASE Try(t).left > 0
  BY <1>2, RetryKeeps DEF RequestTimeout
<1> QED BY <1>1, <1>2 DEF RequestTimeout

\* An answer settles the call that the message was made for, and no other.
LEMMA ReceiveKeeps ==
    ASSUME ReqInv, NEW f \in answers, Receive(f)
    PROVE  ReqInv'
<1> USE DEF ReqInv
<1>1. PICK m \in AllMsgs, code \in {0, 1} :
          m.id # 0 /\ f = Reply(m, code) /\ (code = 0 => ran[m.body[1]] > 0)
  BY DEF AnswersSound
<1>2. /\ AllMsgs \subseteq MsgSet /\ m.id \in Ids /\ m.body[1] = CallOf(m.id)
      /\ \A n \in AllMsgs : n.id = m.id => n = m
  BY <1>1, AllMsgsShape
<1>3. PICK r : r = (CHOOSE n \in Messages(f) : TRUE)
  OBVIOUS
<1>4. r = ReplyMsg(m, code)
  BY <1>1, <1>2, <1>3, ReplyRead
<1>5. r.id = m.id /\ r.body[1] = code /\ r.body[2] = m.body[1]
  BY <1>4, ReplyFields
<1>6. PICK c \in Calls : c = CallOf(m.id) /\ c = Try(m.id).call /\ c = m.body[1]
  BY <1>2, IdsTyped DEF CallOf
<1> DEFINE outcome == IF code = 0 THEN "ok" ELSE "error"
<1>7. /\ open /\ answers' = answers \ {f} /\ routeMap' = routeMap \ {m.id}
      /\ UNCHANGED <<options, open, tries, timers, server, asks>>
      /\ \/ /\ m.id \in routeMap \intersect callbacks
            /\ callbacks' = callbacks \ {m.id}
            /\ Settle(c, c, outcome)
         \/ /\ m.id \notin routeMap \intersect callbacks
            /\ UNCHANGED <<callbacks, result, answer>>
  BY <1>3, <1>5, <1>6 DEF Receive
<1>8. \/ result' = result /\ answer' = answer
      \/ /\ result[c] = "pending"
         /\ result' = [result EXCEPT ![c] = outcome] /\ answer' = [answer EXCEPT ![c] = c]
  BY <1>7 DEF Settle
<1>9. \A d \in Calls : \/ result'[d] = result[d] /\ answer'[d] = answer[d]
                       \/ d = c /\ result[d] = "pending" /\ result'[d] = outcome /\ answer'[d] = d
  BY <1>8 DEF FieldsSound
<1>10. /\ result' \in [Calls -> {"none", "told", "pending", "ok", "error", "timeout"}]
       /\ answer' \in [Calls -> Calls \union {0}]
       /\ outcome \in {"ok", "error"}
  BY <1>8 DEF FieldsSound
<1>11. /\ AllMsgs' = AllMsgs /\ Ids' = Ids /\ \A d : MadeOf(d)' = MadeOf(d)
       /\ AttemptsDiffer' /\ FramesSound' /\ AnswersSound' /\ JobsSound' /\ Counted' /\ RunningHasJob'
  <2>1. answers' \subseteq answers /\ timers' \subseteq timers /\ tries' = tries
    BY <1>7
  <2>2. \A d \in Calls : \/ result'[d] = result[d]
                         \/ result[d] = "pending" /\ result'[d] \in {"ok", "error", "timeout"}
    BY <1>9, <1>10
  <2> QED BY <1>7, <1>10, <2>1, <2>2, ClientStep
<1>12. FieldsSound'
  BY <1>7, <1>10, <1>11 DEF FieldsSound, options, server, MaxAttempts
<1>13. OwnAnswer'
  <2>1. ran' = ran
    BY <1>7 DEF server
  <2>2. outcome = "ok" => ran[c] > 0
    BY <1>1, <1>6
  <2> HIDE DEF outcome
  <2> QED BY <1>9, <1>10, <2>1, <2>2 DEF OwnAnswer
<1>14. PendingUnderWay'
  <2>1. SUFFICES ASSUME NEW d \in Calls, transport' = "ws", open', place' # "untyped", result'[d] = "pending"
                 PROVE  \E k \in MadeOf(d)' : UnderWay(k)'
    BY DEF PendingUnderWay
  <2>2. transport = "ws" /\ open /\ place # "untyped" /\ running' = running /\ asks' = asks
    BY <1>7, <2>1 DEF options, server
  <2>3. result[d] = "pending"
    BY <1>9, <1>10, <2>1
  <2>4. PICK k \in MadeOf(d) : UnderWay(k)
    BY <2>2, <2>3 DEF PendingUnderWay
  <2>5. k \in AllMsgs /\ k.body[1] = d
    BY <2>4 DEF MadeOf
  <2>6. k # m
    <3>1. SUFFICES ASSUME k = m PROVE FALSE
      OBVIOUS
    <3>2. d = c /\ m.id \in routeMap \intersect callbacks
      BY <1>6, <2>4, <2>5, <3>1 DEF UnderWay
    <3>3. result' = [result EXCEPT ![c] = outcome]
      BY <1>7, <2>3, <3>2 DEF Settle
    <3>4. result'[c] = outcome
      BY <3>3 DEF FieldsSound
    <3> QED BY <1>10, <2>1, <3>2, <3>4
  <2>7. k.id # m.id
    BY <1>2, <2>5, <2>6
  <2>8. k.id \in routeMap' \intersect callbacks'
    BY <1>7, <2>4, <2>7 DEF UnderWay
  <2>9. ASSUME NEW e \in {0, 1}, Reply(k, e) \in answers PROVE Reply(k, e) \in answers'
    <3>1. k.id # 0
      <4>1. k.id \in Ids /\ 0 \notin Ids
        BY <2>4, IdsTyped DEF UnderWay, FieldsSound
      <4> QED BY <4>1
    <3>2. Reply(k, e) # f
      BY <1>1, <1>2, <2>5, <2>6, <3>1, RepliesDiffer
    <3> QED BY <1>7, <2>9, <3>2
  <2>10. UnderWay(k)'
    BY <2>2, <2>4, <2>8, <2>9 DEF UnderWay
  <2> QED BY <1>11, <2>4, <2>10
<1> QED BY <1>11, <1>12, <1>13, <1>14

-----------------------------------------------------------------------------
(* The steps of the server.                                                *)

LEMMA JobFields ==
    /\ \A m, at : JobOf(m, at).msg = m /\ JobOf(m, at).number = 2 /\ JobOf(m, at).at = at
    /\ \A m, n, a, b : JobOf(m, a) = JobOf(n, b) => m = n /\ a = b
BY DEF JobOf

\* A step of the server does nothing to the client.
LEMMA ServerStep ==
    ASSUME ReqInv, UNCHANGED <<options, client>>, open' \in BOOLEAN, ran' \in [Calls -> Nat],
           \A c \in Calls : ran'[c] >= ran[c]
    PROVE  /\ AllMsgs' = AllMsgs /\ \A c : MadeOf(c)' = MadeOf(c)
           /\ FieldsSound' /\ AttemptsDiffer' /\ OwnAnswer'
           /\ \A m \in AllMsgs : m \in MsgSet /\ m.body[1] \in Calls
<1> USE DEF ReqInv, options, client
<1>1. /\ AllMsgs' = AllMsgs /\ Ids' = Ids /\ \A c : MadeOf(c)' = MadeOf(c)
      /\ \A id : CallOf(id)' = CallOf(id) /\ LeftOf(id)' = LeftOf(id)
  BY SameMsgs
<1>2. FieldsSound'
  BY <1>1 DEF FieldsSound, MaxAttempts
<1>3. AttemptsDiffer'
  BY <1>1 DEF AttemptsDiffer
<1>4. OwnAnswer'
  <2>1. \A c \in Calls : ran[c] > 0 => ran'[c] > 0
    <3>1. \A c \in Calls : ran[c] \in Nat /\ ran'[c] \in Nat
      BY DEF FieldsSound
    <3> QED BY <3>1
  <2> QED BY <2>1 DEF OwnAnswer
<1>5. \A m \in AllMsgs : m \in MsgSet /\ m.body[1] \in Calls
  BY AllMsgsShape, MsgShape
<1> QED BY <1>1, <1>2, <1>3, <1>4, <1>5

LEMMA MoreRuns ==
    ASSUME FieldsSound, ran' \in [Calls -> Nat], \A c \in Calls : ran'[c] >= ran[c]
    PROVE  \A m \in MsgSet : ran[m.body[1]] > 0 => ran'[m.body[1]] > 0
<1>1. \A c \in Calls : ran[c] \in Nat /\ ran'[c] \in Nat
  BY DEF FieldsSound
<1> QED BY <1>1, MsgShape

\* The end of handleMessage() adds an answer to its message, or nothing.
LEMMA Answered ==
    ASSUME ReqInv, AllMsgs' = AllMsgs, NEW m \in AllMsgs, NEW code \in {0, 1},
           Answer(m, code) \/ answers' = answers,
           ran' \in [Calls -> Nat], \A c \in Calls : ran'[c] >= ran[c],
           code = 0 => ran'[m.body[1]] > 0
    PROVE  /\ AnswersSound' /\ answers \subseteq answers'
           /\ Answer(m, code) /\ m.id # 0 => Reply(m, code) \in answers'
<1> USE DEF ReqInv
<1>1. \/ answers' = answers
      \/ m.id # 0 /\ answers' = answers \union {Reply(m, code)}
  BY DEF Answer, Reply
<1>2. ASSUME NEW f \in answers'
      PROVE  \E n \in AllMsgs, e \in {0, 1} : n.id # 0 /\ f = Reply(n, e) /\ (e = 0 => ran'[n.body[1]] > 0)
  <2>1. CASE f \in answers
    <3>1. PICK n \in AllMsgs, e \in {0, 1} : n.id # 0 /\ f = Reply(n, e) /\ (e = 0 => ran[n.body[1]] > 0)
      BY <2>1 DEF AnswersSound
    <3>2. n \in MsgSet
      BY AllMsgsShape
    <3> QED BY <3>1, <3>2, MoreRuns
  <2>2. CASE m.id # 0 /\ f = Reply(m, code)
    BY <2>2
  <2> QED BY <1>1, <1>2, <2>1, <2>2
<1>3. AnswersSound'
  <2>1. \A f \in answers' : \E n \in AllMsgs', e \in {0, 1} : n.id # 0 /\ f = Reply(n, e) /\ (e = 0 => ran'[n.body[1]] > 0)
    BY <1>2
  <2> QED BY <2>1 DEF AnswersSound
<1>4. Answer(m, code) /\ m.id # 0 => Reply(m, code) \in answers'
  BY DEF Answer, Reply
<1> QED BY <1>1, <1>3, <1>4

\* What is under way stays so, in one of its three forms.
LEMMA PendingKept ==
    ASSUME ReqInv, UNCHANGED <<options, client>>, open' \in BOOLEAN, open' => open, AllMsgs' = AllMsgs,
           open' /\ place # "untyped" => \A m \in AllMsgs :
               m.id # 0 /\ (Ask(m) \in asks \/ m \in running \/ \E code \in {0, 1} : Reply(m, code) \in answers)
                   => Ask(m) \in asks' \/ m \in running' \/ \E code \in {0, 1} : Reply(m, code) \in answers'
    PROVE  PendingUnderWay'
<1> USE DEF ReqInv
<1>1. SUFFICES ASSUME NEW d \in Calls, transport' = "ws", open', place' # "untyped", result'[d] = "pending"
               PROVE  \E k \in MadeOf(d)' : UnderWay(k)'
  BY DEF PendingUnderWay
<1>2. transport = "ws" /\ open /\ place # "untyped" /\ result' = result /\ routeMap' = routeMap /\ callbacks' = callbacks
  BY <1>1 DEF options, client
<1>3. PICK k \in MadeOf(d) : UnderWay(k)
  BY <1>1, <1>2 DEF PendingUnderWay
<1>4. k \in AllMsgs /\ k \in MadeOf(d)'
  BY <1>3 DEF MadeOf
<1>5. k.id # 0
  <2>1. k.id \in Ids /\ 0 \notin Ids
    BY <1>3, IdsTyped DEF UnderWay, FieldsSound
  <2> QED BY <2>1
<1>6. UnderWay(k)'
  BY <1>1, <1>2, <1>3, <1>4, <1>5 DEF UnderWay
<1> QED BY <1>4, <1>6

LEMMA HandleKeeps ==
    ASSUME ReqInv, NEW f \in asks, Handle(f)
    PROVE  ReqInv'
<1> USE DEF ReqInv
<1>1. PICK m \in AllMsgs : f = Ask(m)
  BY DEF FramesSound
<1>2. AllMsgs \subseteq MsgSet
  BY AllMsgsShape
<1>3. (CHOOSE n \in Messages(f) : TRUE) = m
  BY <1>1, <1>2, AskRead
<1>4. PICK c \in Calls : c = m.body[1]
  BY <1>2, MsgShape
<1>5. nexts \in {1, 2} /\ place \in {"frontend", "backend", "nowhere", "untyped"} /\ ran \in [Calls -> Nat]
  BY DEF FieldsSound
<1>6. PICK j : j = JobOf(m, IF place = "frontend" THEN "running" ELSE "asked")
  OBVIOUS
<1>7. Jobs(m) = {j} /\ Cardinality(Jobs(m)) = 1
  BY <1>5, <1>6, OneJob
<1>8. /\ open /\ asks' = asks \ {Ask(m)} /\ UNCHANGED <<options, open, client>>
      /\ \/ place = "untyped" /\ UNCHANGED <<server, answers>>
         \/ place = "nowhere" /\ Answer(m, 1) /\ UNCHANGED server
         \/ /\ place \in {"frontend", "backend"}
            /\ jobs' = jobs \union {j}
            /\ ran' = [ran EXCEPT ![c] = @ + (IF place = "frontend" THEN 1 ELSE 0)]
            /\ \/ running' = running \union {m} /\ answers' = answers
               \/ running' = running /\ Answer(m, 1)
  BY <1>1, <1>3, <1>4, <1>7 DEF Handle, Invoke, Ran
<1>9. ran' \in [Calls -> Nat] /\ \A d \in Calls : ran'[d] >= ran[d]
  <2>1. CASE UNCHANGED server
    BY <1>5, <2>1 DEF server
  <2>2. CASE ran' = [ran EXCEPT ![c] = @ + (IF place = "frontend" THEN 1 ELSE 0)]
    <3>1. PICK k \in {0, 1} : k = IF place = "frontend" THEN 1 ELSE 0
      OBVIOUS
    <3>2. ran' = [ran EXCEPT ![c] = @ + k]
      BY <2>2, <3>1
    <3> QED BY <1>5, <3>2
  <2> QED BY <1>8, <2>1, <2>2
<1>10. /\ AllMsgs' = AllMsgs /\ \A d : MadeOf(d)' = MadeOf(d)
       /\ FieldsSound' /\ AttemptsDiffer' /\ OwnAnswer'
  <2>1. open' \in BOOLEAN
    BY <1>8 DEF FieldsSound
  <2> QED BY <1>8, <1>9, <2>1, ServerStep
<1>11. Answer(m, 1) \/ answers' = answers
  BY <1>8
<1>12. AnswersSound' /\ answers \subseteq answers' /\ (Answer(m, 1) /\ m.id # 0 => Reply(m, 1) \in answers')
  BY <1>9, <1>10, <1>11, Answered
<1>13. \A i \in jobs : i.msg # m
  BY <1>1 DEF JobsSound
<1>14. FramesSound'
  <2>1. asks' \subseteq asks
    BY <1>8
  <2>2. running' \subseteq running \union {m}
    BY <1>8 DEF server
  <2>3. jobs' \subseteq jobs \union {j}
    BY <1>8 DEF server
  <2>4. j \in [msg : AllMsgs, number : {2}, at : {"asked", "running", "ok", "error"}]
    BY <1>6 DEF JobOf
  <2> QED BY <1>10, <2>1, <2>2, <2>3, <2>4 DEF FramesSound
<1>15. JobsSound'
  <2>1. \A i \in jobs : Ask(i.msg) \notin asks' /\ (IF i.at = "asked" THEN place' = "backend" ELSE ran'[i.msg.body[1]] > 0)
    <3>1. \A i \in jobs : i.msg \in MsgSet
      BY <1>2 DEF FramesSound
    <3>2. place' = place /\ asks' \subseteq asks
      BY <1>8 DEF options
    <3> QED BY <1>9, <3>1, <3>2, MoreRuns DEF JobsSound
  <2>2. CASE UNCHANGED server
    BY <2>1, <2>2 DEF JobsSound, server
  <2>3. CASE place \in {"frontend", "backend"} /\ jobs' = jobs \union {j} /\ ran' = [ran EXCEPT ![c] = @ + (IF place = "frontend" THEN 1 ELSE 0)]
    <3>1. Ask(j.msg) \notin asks'
      BY <1>6, <1>8, JobFields
    <3>2. IF j.at = "asked" THEN place' = "backend" ELSE ran'[j.msg.body[1]] > 0
      <4>1. place' = place
        BY <1>8 DEF options
      <4>2. CASE place = "frontend"
        <5>1. j.at = "running" /\ j.msg = m
          BY <1>6, <4>2, JobFields
        <5>2. ran'[c] = ran[c] + 1 /\ ran[c] \in Nat
          BY <1>5, <2>3, <4>2
        <5>3. ran'[c] > 0
          BY <5>2
        <5> QED BY <1>4, <5>1, <5>3
      <4>3. CASE place = "backend"
        <5>1. j.at = "asked"
          BY <1>6, <4>3, JobFields
        <5> QED BY <4>1, <4>3, <5>1
      <4> QED BY <1>5, <2>3, <4>2, <4>3
    <3> QED BY <2>1, <2>3, <3>1, <3>2 DEF JobsSound
  <2> QED BY <1>8, <2>2, <2>3
<1>16. Counted'
  <2>1. asks' \subseteq asks
    BY <1>8
  <2>2. CASE UNCHANGED server
    BY <1>10, <2>1, <2>2, CountedKept DEF server
  <2>3. CASE place = "frontend" /\ jobs' = jobs \union {j} /\ ran' = [ran EXCEPT ![c] = @ + (IF place = "frontend" THEN 1 ELSE 0)]
    <3>1. ran' = [ran EXCEPT ![c] = @ + 1]
      BY <2>3
    <3>2. \A n : JobOf(n, "asked") \in jobs' => JobOf(n, "asked") \in jobs
      BY <1>6, <2>3, JobFields
    <3>3. JobOf(m, "asked") \notin jobs'
      BY <1>13, <3>2, JobFields
    <3>4. Ask(m) \in asks /\ Ask(m) \notin asks'
      BY <1>1, <1>8
    <3> QED BY <1>4, <1>10, <2>1, <3>1, <3>2, <3>3, <3>4, CountedRun
  <2>4. CASE place = "backend" /\ jobs' = jobs \union {j} /\ ran' = [ran EXCEPT ![c] = @ + (IF place = "frontend" THEN 1 ELSE 0)]
    <3>1. ran' = ran
      <4>1. ran' = [ran EXCEPT ![c] = @ + 0]
        BY <2>4
      <4> QED BY <1>5, <4>1
    <3>2. \A n : JobOf(n, "asked") \in jobs' => JobOf(n, "asked") \in jobs \/ n = m
      BY <1>6, <2>4, JobFields
    <3>3. Ask(m) \in asks
      BY <1>1
    <3> QED BY <1>10, <2>1, <3>1, <3>2, <3>3, CountedKept
  <2> QED BY <1>5, <1>8, <2>2, <2>3, <2>4
<1>17. RunningHasJob'
  <2>1. CASE UNCHANGED server
    BY <2>1 DEF RunningHasJob, server
  <2>2. CASE jobs' = jobs \union {j} /\ running' \subseteq running \union {m}
    <3>1. j.msg = m
      BY <1>6, JobFields
    <3> QED BY <2>2, <3>1 DEF RunningHasJob
  <2> QED BY <1>8, <2>1, <2>2
<1>18. PendingUnderWay'
  <2>1. open' = open /\ open \in BOOLEAN
    BY <1>8 DEF FieldsSound
  <2>2. running \subseteq running'
    BY <1>8 DEF server
  <2>3. place # "untyped" => m \in running' \/ Answer(m, 1)
    BY <1>8
  <2>4. ASSUME place # "untyped", NEW n \in AllMsgs, n.id # 0,
               Ask(n) \in asks \/ n \in running \/ \E code \in {0, 1} : Reply(n, code) \in answers
        PROVE  Ask(n) \in asks' \/ n \in running' \/ \E code \in {0, 1} : Reply(n, code) \in answers'
    <3>1. CASE n = m
      BY <1>12, <2>3, <2>4, <3>1
    <3>2. CASE n # m
      <4>1. Ask(n) # Ask(m)
        BY <1>2, <3>2, AsksDiffer
      <4> QED BY <1>8, <1>12, <2>2, <2>4, <4>1
    <3> QED BY <3>1, <3>2
  <2> QED BY <1>8, <1>10, <2>1, <2>4, PendingKept
<1> QED BY <1>10, <1>12, <1>14, <1>15, <1>16, <1>17, <1>18

LEMMA JobShape ==
    ASSUME FramesSound, NEW j \in jobs
    PROVE  /\ j.msg \in AllMsgs /\ j.at \in {"asked", "running", "ok", "error"}
           /\ j = JobOf(j.msg, j.at)
           /\ \A at : [j EXCEPT !.at = at] = JobOf(j.msg, at)
<1>1. j \in [msg : AllMsgs, number : {2}, at : {"asked", "running", "ok", "error"}]
  BY DEF FramesSound
<1>2. j.msg \in AllMsgs /\ j.number = 2 /\ j.at \in {"asked", "running", "ok", "error"}
      /\ j = [msg |-> j.msg, number |-> j.number, at |-> j.at]
  BY <1>1
<1>3. \A at : [j EXCEPT !.at = at] = [msg |-> j.msg, number |-> j.number, at |-> at]
  BY <1>2
<1> QED BY <1>2, <1>3 DEF JobOf

\* A job that moves on: its message stays where it is.
LEMMA JobMoves ==
    ASSUME ReqInv, NEW j \in jobs, NEW at \in {"running", "ok", "error"},
           jobs' = (jobs \ {j}) \union {JobOf(j.msg, at)},
           UNCHANGED <<options, open, client, running, asks, answers>>,
           ran' \in [Calls -> Nat], \A c \in Calls : ran'[c] >= ran[c], ran'[j.msg.body[1]] > 0,
           Counted'
    PROVE  ReqInv'
<1> USE DEF ReqInv
<1>1. /\ AllMsgs' = AllMsgs /\ FieldsSound' /\ AttemptsDiffer' /\ OwnAnswer'
      /\ \A m \in AllMsgs : m \in MsgSet /\ m.body[1] \in Calls
  <2>1. open' \in BOOLEAN
    BY DEF FieldsSound
  <2> QED BY <2>1, ServerStep
<1>2. PICK m \in AllMsgs : m = j.msg
  BY JobShape
<1>3. FramesSound'
  <2>1. JobOf(m, at) \in [msg : AllMsgs, number : {2}, at : {"asked", "running", "ok", "error"}]
    BY DEF JobOf
  <2> QED BY <1>1, <1>2, <2>1 DEF FramesSound
<1>4. AnswersSound'
  <2>1. Answer(m, 1) \/ answers' = answers
    OBVIOUS
  <2> QED BY <1>1, <2>1, Answered
<1>5. JobsSound'
  <2>1. ASSUME NEW i \in jobs' PROVE Ask(i.msg) \notin asks' /\ (IF i.at = "asked" THEN place' = "backend" ELSE ran'[i.msg.body[1]] > 0)
    <3>1. CASE i \in jobs
      <4>1. i.msg \in MsgSet
        BY <1>1, <3>1, JobShape
      <4>2. place' = place
        BY DEF options
      <4> QED BY <3>1, <4>1, <4>2, MoreRuns DEF JobsSound
    <3>2. CASE i = JobOf(j.msg, at)
      <4>1. i.msg = j.msg /\ i.at # "asked"
        BY <3>2, JobFields
      <4> QED BY <4>1 DEF JobsSound
    <3> QED BY <3>1, <3>2
  <2> QED BY <2>1 DEF JobsSound
<1>6. RunningHasJob'
  <2>1. JobOf(j.msg, at).msg = j.msg
    BY JobFields
  <2> QED BY <2>1 DEF RunningHasJob
<1>7. PendingUnderWay'
  <2>1. open' \in BOOLEAN
    BY DEF FieldsSound
  <2> QED BY <1>1, <2>1, PendingKept
<1> QED BY <1>1, <1>3, <1>4, <1>5, <1>6, <1>7

LEMMA RouteInvokeKeeps ==
    ASSUME ReqInv, NEW j \in jobs, RouteInvoke(j)
    PROVE  ReqInv'
<1> USE DEF ReqInv
<1>1. PICK m \in AllMsgs : m = j.msg /\ j = JobOf(m, "asked")
  BY JobShape DEF RouteInvoke
<1>2. /\ AllMsgs \subseteq MsgSet /\ AllMsgs' = AllMsgs
  <2>1. tries' = tries /\ first' = first /\ result' = result
    BY DEF RouteInvoke, options, client
  <2> QED BY <2>1, AllMsgsShape, SameMsgs
<1>3. PICK c \in Calls : c = m.body[1]
  BY <1>2, MsgShape
<1>4. ran' = [ran EXCEPT ![c] = @ + 1]
  BY <1>1, <1>3 DEF RouteInvoke, Ran
<1>5. ran \in [Calls -> Nat] /\ ran' \in [Calls -> Nat] /\ ran'[c] = ran[c] + 1 /\ \A d \in Calls : ran'[d] >= ran[d]
  BY <1>4 DEF FieldsSound
<1>6. ran'[c] > 0
  BY <1>5
<1>7. jobs' = (jobs \ {j}) \union {JobOf(m, "running")}
  BY <1>1, JobShape DEF RouteInvoke
<1>8. Counted'
  <2>1. asks' = asks
    BY DEF RouteInvoke
  <2>2. \A n : JobOf(n, "asked") \in jobs' => JobOf(n, "asked") \in jobs /\ n # m
    BY <1>1, <1>7, JobFields
  <2>3. Ask(m) \notin asks'
    BY <1>1, <2>1 DEF JobsSound
  <2>4. JobOf(m, "asked") \in jobs /\ JobOf(m, "asked") \notin jobs'
    BY <1>1, <2>2
  <2> QED BY <1>2, <1>3, <1>4, <2>1, <2>2, <2>3, <2>4, CountedRun
<1>9. UNCHANGED <<options, open, client, running, asks, answers>>
  BY DEF RouteInvoke
<1> QED BY <1>1, <1>3, <1>5, <1>6, <1>7, <1>8, <1>9, JobMoves

\* The call of the router returns.
LEMMA RespondKeeps ==
    ASSUME ReqInv, NEW j \in jobs, j.at # "asked", NEW code \in {0, 1}, Respond(j, code)
    PROVE  ReqInv'
<1> USE DEF ReqInv
<1>1. /\ jobs' = jobs \ {j} /\ running' = running \ {j.msg}
      /\ IF j.msg \in running THEN Answer(j.msg, code) ELSE answers' = answers
      /\ UNCHANGED <<options, open, client, asks, ran>>
  BY DEF Respond
<1>2. PICK m \in AllMsgs : m = j.msg
  BY JobShape
<1>3. ran' \in [Calls -> Nat] /\ \A c \in Calls : ran'[c] >= ran[c]
  <2>1. \A c \in Calls : ran[c] \in Nat
    BY DEF FieldsSound
  <2>2. \A k \in Nat : k >= k
    OBVIOUS
  <2> QED BY <1>1, <2>1, <2>2 DEF FieldsSound
<1>4. /\ AllMsgs' = AllMsgs /\ FieldsSound' /\ AttemptsDiffer' /\ OwnAnswer' /\ open' \in BOOLEAN
  <2>1. open' \in BOOLEAN
    BY <1>1 DEF FieldsSound
  <2> QED BY <1>1, <1>3, <2>1, ServerStep
<1>5. Answer(m, code) \/ answers' = answers
  BY <1>1, <1>2
<1>6. ran'[m.body[1]] > 0
  BY <1>1, <1>2 DEF JobsSound
<1>7. AnswersSound' /\ answers \subseteq answers' /\ (Answer(m, code) /\ m.id # 0 => Reply(m, code) \in answers')
  BY <1>3, <1>4, <1>5, <1>6, Answered
<1>8. FramesSound'
  BY <1>1, <1>4 DEF FramesSound
<1>9. JobsSound'
  BY <1>1 DEF JobsSound, options
<1>10. Counted'
  BY <1>1, <1>4, CountedKept
<1>11. RunningHasJob'
  <2>1. ASSUME NEW n \in running' PROVE \E i \in jobs' : i.msg = n
    <3>1. n \in running /\ n # j.msg
      BY <1>1
    <3>2. PICK i \in jobs : i.msg = n
      BY <3>1 DEF RunningHasJob
    <3> QED BY <1>1, <3>1, <3>2
  <2> QED BY <2>1 DEF RunningHasJob
<1>12. PendingUnderWay'
  <2>1. ASSUME NEW n \in AllMsgs, n.id # 0,
               Ask(n) \in asks \/ n \in running \/ \E e \in {0, 1} : Reply(n, e) \in answers
        PROVE  Ask(n) \in asks' \/ n \in running' \/ \E e \in {0, 1} : Reply(n, e) \in answers'
    BY <1>1, <1>2, <1>7, <2>1
  <2> QED BY <1>1, <1>4, <2>1, PendingKept
<1> QED BY <1>4, <1>7, <1>8, <1>9, <1>10, <1>11, <1>12

LEMMA ControllerEndsKeeps ==
    ASSUME ReqInv, NEW j \in jobs, ControllerEnds(j)
    PROVE  ReqInv'
<1> USE DEF ReqInv
<1>1. j.at = "running"
  BY DEF ControllerEnds
<1>2. CASE \E code \in {0, 1} : Respond(j, code)
  BY <1>1, <1>2, RespondKeeps
<1>3. CASE /\ \E end \in {"ok", "error"} : jobs' = (jobs \ {j}) \union {[j EXCEPT !.at = end]}
           /\ UNCHANGED <<options, open, client, running, asks, answers, ran>>
  <2>1. PICK at \in {"ok", "error"} : jobs' = (jobs \ {j}) \union {JobOf(j.msg, at)}
    BY <1>3, JobShape
  <2>2. ran' \in [Calls -> Nat] /\ (\A c \in Calls : ran'[c] >= ran[c])
    <3>1. \A c \in Calls : ran[c] \in Nat
      BY DEF FieldsSound
    <3>2. \A k \in Nat : k >= k
      OBVIOUS
    <3> QED BY <1>3, <3>1, <3>2 DEF FieldsSound
  <2>3. ran'[j.msg.body[1]] > 0
    BY <1>1, <1>3 DEF JobsSound
  <2>4. Counted'
    <3>1. AllMsgs' = AllMsgs
      <4>1. tries' = tries /\ first' = first /\ result' = result
        BY <1>3 DEF options, client
      <4> QED BY <4>1, SameMsgs
    <3>2. \A n : JobOf(n, "asked") \in jobs' => JobOf(n, "asked") \in jobs
      BY <2>1, JobFields
    <3> QED BY <1>3, <3>1, <3>2, CountedKept
  <2>5. at \in {"running", "ok", "error"}
    OBVIOUS
  <2> QED BY <1>3, <2>1, <2>2, <2>3, <2>4, <2>5, JobMoves
<1> QED BY <1>2, <1>3 DEF ControllerEnds

LEMMA RPCReturnsKeeps ==
    ASSUME ReqInv, NEW j \in jobs, RPCReturns(j)
    PROVE  ReqInv'
<1>1. j.at # "asked"
  BY DEF RPCReturns
<1>2. PICK code \in {0, 1} : Respond(j, code)
  BY DEF RPCReturns
<1> QED BY <1>1, <1>2, RespondKeeps

LEMMA RPCFailsKeeps ==
    ASSUME ReqInv, NEW m \in running, RPCFails(m)
    PROVE  ReqInv'
<1> USE DEF ReqInv
<1>1. running' = running \ {m} /\ Answer(m, 1) /\ UNCHANGED <<options, open, client, jobs, asks, ran>>
  BY DEF RPCFails
<1>2. m \in AllMsgs
  BY DEF FramesSound
<1>3. ran' \in [Calls -> Nat] /\ (\A c \in Calls : ran'[c] >= ran[c])
  <2>1. \A c \in Calls : ran[c] \in Nat
    BY DEF FieldsSound
  <2>2. \A k \in Nat : k >= k
    OBVIOUS
  <2> QED BY <1>1, <2>1, <2>2 DEF FieldsSound
<1>4. /\ AllMsgs' = AllMsgs /\ FieldsSound' /\ AttemptsDiffer' /\ OwnAnswer' /\ open' \in BOOLEAN
  <2>1. open' \in BOOLEAN
    BY <1>1 DEF FieldsSound
  <2> QED BY <1>1, <1>3, <2>1, ServerStep
<1>5. AnswersSound' /\ answers \subseteq answers' /\ (m.id # 0 => Reply(m, 1) \in answers')
  <2>1. Answer(m, 1) \/ answers' = answers
    BY <1>1
  <2>2. AnswersSound' /\ answers \subseteq answers' /\ (Answer(m, 1) /\ m.id # 0 => Reply(m, 1) \in answers')
    BY <1>2, <1>3, <1>4, <2>1, Answered
  <2> QED BY <1>1, <2>2
<1>6. FramesSound'
  BY <1>1, <1>4 DEF FramesSound
<1>7. JobsSound'
  BY <1>1 DEF JobsSound, options
<1>8. Counted'
  BY <1>1, <1>4, CountedKept
<1>9. RunningHasJob'
  BY <1>1 DEF RunningHasJob
<1>10. PendingUnderWay'
  <2>1. ASSUME NEW n \in AllMsgs, n.id # 0,
               Ask(n) \in asks \/ n \in running \/ \E e \in {0, 1} : Reply(n, e) \in answers
        PROVE  Ask(n) \in asks' \/ n \in running' \/ \E e \in {0, 1} : Reply(n, e) \in answers'
    BY <1>1, <1>5, <2>1
  <2> QED BY <1>1, <1>4, <2>1, PendingKept
<1> QED BY <1>4, <1>5, <1>6, <1>7, <1>8, <1>9, <1>10

LEMMA LoseKeeps ==
    ASSUME ReqInv, Lose
    PROVE  ReqInv'
<1> USE DEF ReqInv
<1>1. /\ open' = FALSE /\ asks' = {} /\ running' = {} /\ answers' = {} /\ jobs' = {}
      /\ UNCHANGED <<options, client, ran>>
  BY DEF Lose
<1>2. ran' \in [Calls -> Nat] /\ (\A c \in Calls : ran'[c] >= ran[c])
  <2>1. \A c \in Calls : ran[c] \in Nat
    BY DEF FieldsSound
  <2>2. \A k \in Nat : k >= k
    OBVIOUS
  <2> QED BY <1>1, <2>1, <2>2 DEF FieldsSound
<1>3. /\ AllMsgs' = AllMsgs /\ FieldsSound' /\ AttemptsDiffer' /\ OwnAnswer'
  BY <1>1, <1>2, ServerStep
<1>4. FramesSound' /\ AnswersSound' /\ JobsSound' /\ RunningHasJob' /\ PendingUnderWay'
  BY <1>1 DEF FramesSound, AnswersSound, JobsSound, RunningHasJob, PendingUnderWay
<1>5. Counted'
  BY <1>1, <1>3, CountedKept
<1> QED BY <1>3, <1>4, <1>5

-----------------------------------------------------------------------------
(* The theorems about the requests.                                        *)

LEMMA ReqInit == RInit => ReqInv
<1>1. SUFFICES ASSUME RInit PROVE ReqInv
  OBVIOUS
<1>2. /\ tries = <<>> /\ routeMap = {} /\ callbacks = {} /\ timers = {}
      /\ asks = {} /\ running = {} /\ answers = {} /\ jobs = {} /\ open = TRUE
      /\ result = [c \in Calls |-> "none"] /\ answer = [c \in Calls |-> 0] /\ ran = [c \in Calls |-> 0]
  BY <1>1 DEF RInit
<1>3. first \in Nat /\ MaxAttempts \in Nat
  BY <1>1, BoundsTyped DEF RInit
<1>4. Ids = {}
  <2>1. Len(tries) = 0
    BY <1>2
  <2> QED BY <1>3, <2>1 DEF Ids
<1>5. AllMsgs = {}
  BY <1>2, <1>4 DEF AllMsgs
<1>6. FieldsSound
  <2>1. tries \in Seq([call : Calls, left : 0 .. MaxReqAttempts - 1]) /\ Len(tries) <= MaxAttempts
    <3>1. Len(<<>>) <= MaxAttempts
      BY <1>3
    <3> QED BY <1>2, <3>1, EmptySeq
  <2> QED BY <1>1, <1>2, <2>1 DEF FieldsSound, RInit
<1>7. AttemptsDiffer /\ FramesSound /\ AnswersSound /\ JobsSound /\ RunningHasJob /\ OwnAnswer /\ PendingUnderWay
  BY <1>2, <1>4 DEF AttemptsDiffer, FramesSound, AnswersSound, JobsSound, RunningHasJob, OwnAnswer, PendingUnderWay
<1>8. Counted
  <2>1. IsFiniteSet(AllMsgs)
    BY <1>5, FS_EmptySet
  <2>2. ASSUME NEW c \in Calls PROVE ran[c] + Cardinality(Waiting(c)) <= Cardinality(MadeOf(c))
    <3>1. MadeOf(c) = {} /\ Waiting(c) = {} /\ ran[c] = 0
      BY <1>2, <1>5 DEF MadeOf, Waiting
    <3> QED BY <3>1, FS_EmptySet
  <2> QED BY <2>1, <2>2 DEF Counted
<1> QED BY <1>6, <1>7, <1>8 DEF ReqInv

LEMMA ReqStutter == ReqInv /\ UNCHANGED rvars => ReqInv'
<1>1. SUFFICES ASSUME ReqInv, UNCHANGED rvars PROVE ReqInv'
  OBVIOUS
<1>2. UNCHANGED <<transport, first, place, nexts, open, tries, routeMap, callbacks, timers, result, answer,
                  asks, running, answers, jobs, ran>>
  BY <1>1 DEF rvars, options, client, server
<1>3. AllMsgs' = AllMsgs /\ Ids' = Ids /\ \A c : MadeOf(c)' = MadeOf(c) /\ Waiting(c)' = Waiting(c)
  BY <1>2 DEF AllMsgs, Ids, MadeOf, Waiting, CallOf, Try
<1>4. \A m : UnderWay(m)' = UnderWay(m)
  BY <1>2 DEF UnderWay
<1> QED BY <1>1, <1>2, <1>3, <1>4 DEF ReqInv, FieldsSound, AttemptsDiffer, FramesSound, AnswersSound, JobsSound,
        OwnAnswer, Counted, RunningHasJob, PendingUnderWay, CallOf, LeftOf, Try, MaxAttempts

LEMMA ReqStep == ReqInv /\ [RNext]_rvars => ReqInv'
<1> SUFFICES ASSUME ReqInv, [RNext]_rvars PROVE ReqInv'
  OBVIOUS
<1>1. ASSUME NEW c \in Calls, RequestOverWS(c) \/ RequestOverUDP(c) PROVE ReqInv'
  BY <1>1, RequestKeeps
<1>2. ASSUME NEW c \in Calls, Notify(c) PROVE ReqInv'
  BY <1>2, NotifyKeeps
<1>3. ASSUME NEW id \in timers, RequestTimeout(id) PROVE ReqInv'
  BY <1>3, RequestTimeoutKeeps
<1>4. ASSUME NEW f \in answers, Receive(f) PROVE ReqInv'
  BY <1>4, ReceiveKeeps
<1>5. ASSUME NEW f \in asks, Handle(f) PROVE ReqInv'
  BY <1>5, HandleKeeps
<1>6. ASSUME NEW j \in jobs, RouteInvoke(j) PROVE ReqInv'
  BY <1>6, RouteInvokeKeeps
<1>7. ASSUME NEW j \in jobs, ControllerEnds(j) PROVE ReqInv'
  BY <1>7, ControllerEndsKeeps
<1>8. ASSUME NEW j \in jobs, RPCReturns(j) PROVE ReqInv'
  BY <1>8, RPCReturnsKeeps
<1>9. ASSUME NEW m \in running, RPCFails(m) PROVE ReqInv'
  BY <1>9, RPCFailsKeeps
<1>10. ASSUME Lose PROVE ReqInv'
  BY <1>10, LoseKeeps
<1>11. ASSUME UNCHANGED rvars PROVE ReqInv'
  BY <1>11, ReqStutter
<1> QED BY <1>1, <1>2, <1>3, <1>4, <1>5, <1>6, <1>7, <1>8, <1>9, <1>10, <1>11 DEF RNext

\* The invariant of the requests holds in every state.
THEOREM RequestInvariance == RSpec => []ReqInv
<1> QED BY ReqInit, ReqStep, PTL DEF RSpec

-----------------------------------------------------------------------------
\* No call is sent more often than the option allows: its attempts differ in
\* the attempts they have left.
LEMMA AttemptsCount ==
    ASSUME ReqInv, NEW c \in Calls
    PROVE  /\ Attempts(c) \in Nat /\ Attempts(c) <= MaxReqAttempts
           /\ IsFiniteSet({k \in DOMAIN tries : tries[k].call = c})
<1> DEFINE K == {k \in DOMAIN tries : tries[k].call = c}
           T == 0 .. MaxReqAttempts - 1
           left == [k \in K |-> tries[k].left]
<1> USE DEF ReqInv
<1>1. MaxReqAttempts \in Nat /\ MaxReqAttempts - 1 \in Int /\ MaxReqAttempts > 0
  BY BoundsAssumption
<1>2. IsFiniteSet(T) /\ Cardinality(T) = MaxReqAttempts
  <2>1. IsFiniteSet(T) /\ Cardinality(T) = IF 0 > MaxReqAttempts - 1 THEN 0 ELSE (MaxReqAttempts - 1) - 0 + 1
    BY <1>1, FS_Interval
  <2> QED BY <1>1, <2>1
<1>3. ASSUME NEW k \in K
      PROVE  /\ first + k \in Ids /\ CallOf(first + k) = c
             /\ LeftOf(first + k) = tries[k].left /\ tries[k].left \in T /\ k \in Nat
  <2>1. k \in 1 .. Len(tries) /\ tries[k].call = c /\ Len(tries) \in Nat
    <3>1. tries \in Seq([call : Calls, left : 0 .. MaxReqAttempts - 1])
      BY DEF FieldsSound
    <3> QED BY <3>1, LenProperties
  <2>2. first \in Nat
    BY IdsTyped
  <2>3. first + k \in Ids /\ (first + k) - first = k
    BY <2>1, <2>2 DEF Ids
  <2>4. CallOf(first + k) = tries[k].call /\ LeftOf(first + k) = tries[k].left
    BY <2>3 DEF CallOf, LeftOf, Try
  <2>5. LeftOf(first + k) \in T
    BY <2>3, IdsTyped
  <2> QED BY <2>1, <2>3, <2>4, <2>5
<1>4. left \in [K -> T]
  BY <1>3
<1>5. ASSUME NEW i \in K, NEW k \in K, left[i] = left[k] PROVE i = k
  <2>1. LeftOf(first + i) = LeftOf(first + k) /\ CallOf(first + i) = CallOf(first + k)
    BY <1>3, <1>5
  <2>2. first + i \in Ids /\ first + k \in Ids /\ i \in Nat /\ k \in Nat
    BY <1>3
  <2>3. first + i = first + k
    BY <2>1, <2>2 DEF AttemptsDiffer
  <2>4. first \in Nat
    BY IdsTyped
  <2> QED BY <2>2, <2>3, <2>4
<1>6. left \in Injection(K, T)
  <2> HIDE DEF left, K, T
  <2> QED BY <1>4, <1>5 DEF Injection, IsInjective
<1>7. IsFiniteSet(K) /\ Cardinality(K) <= Cardinality(T)
  <2> HIDE DEF left, K, T
  <2> QED BY <1>2, <1>6, FS_Injection
<1>8. Cardinality(K) \in Nat
  BY <1>7, FS_CardinalityType
<1> QED BY <1>2, <1>7, <1>8 DEF Attempts

\* The messages of a call are its attempts, or its one notification.
LEMMA MadeCount ==
    ASSUME ReqInv, NEW c \in Calls
    PROVE  Cardinality(MadeOf(c)) <= IF result[c] = "told" THEN 1 ELSE Attempts(c)
<1> DEFINE K == {k \in DOMAIN tries : tries[k].call = c}
           place_of == [m \in MadeOf(c) |-> m.id - first]
<1> USE DEF ReqInv
<1>1. /\ AllMsgs \subseteq MsgSet
      /\ \A m \in AllMsgs : m.id # 0 => m.id \in Ids /\ m.body[1] = CallOf(m.id)
      /\ \A m \in AllMsgs : m.id = 0 => result[m.body[1]] = "told"
      /\ \A m, n \in AllMsgs : m.id = n.id /\ m.id # 0 => m = n
  BY AllMsgsShape
<1>2. CASE result[c] = "told"
  <2>1. ASSUME NEW m \in MadeOf(c) PROVE m = NoteMsg(c)
    <3>1. m \in AllMsgs /\ m.body[1] = c
      BY DEF MadeOf
    <3>2. m.id = 0
      <4>1. SUFFICES ASSUME m.id # 0 PROVE FALSE
        OBVIOUS
      <4>2. m.id \in Ids /\ CallOf(m.id) = c
        BY <1>1, <3>1, <4>1
      <4> QED BY <1>2, <4>2 DEF AttemptsDiffer
    <3> QED BY <1>1, <3>1, <3>2, MsgShape
  <2>2. MadeOf(c) \subseteq {NoteMsg(c)}
    BY <2>1
  <2>3. IsFiniteSet({NoteMsg(c)}) /\ Cardinality({NoteMsg(c)}) = 1
    BY FS_Singleton
  <2> QED BY <1>2, <2>2, <2>3, SubsetSize
<1>3. CASE result[c] # "told"
  <2>1. ASSUME NEW m \in MadeOf(c) PROVE m \in AllMsgs /\ m.id # 0 /\ m.id \in Ids /\ CallOf(m.id) = c
    <3>1. m \in AllMsgs /\ m.body[1] = c
      BY DEF MadeOf
    <3> QED BY <1>1, <1>3, <3>1
  <2>2. ASSUME NEW m \in MadeOf(c) PROVE m.id - first \in K
    <3>1. m.id - first \in 1 .. Len(tries)
      BY <2>1, IdsTyped
    <3>2. DOMAIN tries = 1 .. Len(tries)
      <4>1. tries \in Seq([call : Calls, left : 0 .. MaxReqAttempts - 1])
        BY DEF FieldsSound
      <4> QED BY <4>1, LenProperties
    <3>3. tries[m.id - first].call = c
      BY <2>1 DEF CallOf, Try
    <3> QED BY <3>1, <3>2, <3>3
  <2>3. ASSUME NEW m \in MadeOf(c), NEW n \in MadeOf(c), m.id - first = n.id - first PROVE m = n
    <3>1. m.id \in Nat /\ n.id \in Nat /\ first \in Nat
      BY <2>1, IdsTyped, <1>1, MsgShape
    <3>2. m.id = n.id
      BY <2>3, <3>1
    <3> QED BY <1>1, <2>1, <3>2
  <2>4. place_of \in Injection(MadeOf(c), K)
    <3> HIDE DEF K
    <3>1. place_of \in [MadeOf(c) -> K]
      BY <2>2
    <3>2. \A m, n \in MadeOf(c) : place_of[m] = place_of[n] => m = n
      BY <2>3
    <3> HIDE DEF place_of
    <3> QED BY <3>1, <3>2 DEF Injection, IsInjective
  <2>5. IsFiniteSet(K)
    BY AttemptsCount
  <2>6. Cardinality(MadeOf(c)) <= Cardinality(K)
    <3> HIDE DEF K, place_of
    <3> QED BY <2>4, <2>5, FS_Injection
  <2> QED BY <1>3, <2>6 DEF Attempts
<1> QED BY <1>2, <1>3

LEMMA InvAttemptsBounded == ReqInv => AttemptsBounded
<1>1. SUFFICES ASSUME ReqInv, NEW c \in Calls
               PROVE  /\ Attempts(c) <= MaxReqAttempts
                      /\ ran[c] <= IF result[c] = "told" THEN 1 ELSE Attempts(c)
  BY DEF AttemptsBounded
<1>2. Attempts(c) \in Nat /\ Attempts(c) <= MaxReqAttempts
  BY <1>1, AttemptsCount
<1>3. ran[c] \in Nat /\ Cardinality(MadeOf(c)) \in Nat /\ Cardinality(Waiting(c)) \in Nat
      /\ ran[c] + Cardinality(Waiting(c)) <= Cardinality(MadeOf(c))
  <2>1. Counted
    BY <1>1 DEF ReqInv
  <2> QED BY <1>1, <2>1, WaitingFinite DEF ReqInv, FieldsSound, Counted
<1>4. Cardinality(MadeOf(c)) <= IF result[c] = "told" THEN 1 ELSE Attempts(c)
  BY <1>1, MadeCount
<1> QED BY <1>2, <1>3, <1>4

LEMMA InvNothingForgotten == ReqInv => NothingForgotten
<1>1. SUFFICES ASSUME ReqInv PROVE NothingForgotten
  OBVIOUS
<1> USE DEF ReqInv
<1>2. AllMsgs \subseteq MsgSet /\ 0 \notin Ids
  BY <1>1, AllMsgsShape, IdsTyped
<1>3. ASSUME NEW c \in Calls, transport = "ws", open, place # "untyped", result[c] = "pending"
      PROVE  \/ \E f \in asks : \E m \in Messages(f) : m.body[1] = c
             \/ \E m \in running : m.body[1] = c
             \/ \E f \in answers : \E m \in Messages(f) : m.body[2] = c
  <2>1. PICK m \in MadeOf(c) : UnderWay(m)
    BY <1>1, <1>3 DEF PendingUnderWay
  <2>2. m \in AllMsgs /\ m \in MsgSet /\ m.body[1] = c
    BY <1>2, <2>1 DEF MadeOf
  <2>3. m.id # 0
    BY <1>1, <1>2, <2>1 DEF UnderWay, FieldsSound
  <2>4. CASE Ask(m) \in asks
    <3>1. m \in Messages(Ask(m))
      BY <2>2, AskRead
    <3> QED BY <2>2, <2>4, <3>1
  <2>5. CASE m \in running
    BY <2>2, <2>5
  <2>6. CASE \E code \in {0, 1} : Reply(m, code) \in answers
    <3>1. PICK code \in {0, 1} : Reply(m, code) \in answers
      BY <2>6
    <3>2. ReplyMsg(m, code) \in Messages(Reply(m, code)) /\ ReplyMsg(m, code).body[2] = c
      BY <2>2, <2>3, ReplyRead, ReplyFields
    <3> QED BY <3>1, <3>2
  <2> QED BY <2>1, <2>4, <2>5, <2>6 DEF UnderWay
<1> QED BY <1>1, <1>3 DEF NothingForgotten, RunningHasJob

LEMMA InvTyped == ReqInv => RTypeOK
<1>1. SUFFICES ASSUME ReqInv PROVE RTypeOK
  OBVIOUS
<1>2. Ids = first + 1 .. reqId
  BY <1>1, IdsTyped DEF ReqInv
<1>3. jobs \subseteq [msg : running \union {j.msg : j \in jobs}, number : {2, 3},
                      at : {"asked", "running", "ok", "error"}]
  BY <1>1 DEF ReqInv, FramesSound
<1> QED BY <1>1, <1>2, <1>3 DEF ReqInv, FieldsSound, RTypeOK

\* No call is repeated beyond its limit or forgotten, however many calls there
\* are, however many attempts the option allows, and wherever reqId starts.
\* (client.ts request, onMessage)
THEOREM RequestsAreSound == RSpec => []RequestsSound
<1>1. ReqInv => RequestsSound
  BY InvTyped, InvAttemptsBounded, InvNothingForgotten DEF RequestsSound
<1> QED BY <1>1, RequestInvariance, PTL

\* A call gets the value of its own controller. (client.ts request, onMessage)
THEOREM AnswersAreOwn == RSpec => []OwnAnswer
<1>1. ReqInv => OwnAnswer
  BY DEF ReqInv
<1> QED BY <1>1, RequestInvariance, PTL

\* Every frame is read as what was written. (protocol.ts, connector.ts)
THEOREM FramesAreRead == RSpec => []FramesReadable
<1>1. ASSUME ReqInv PROVE FramesReadable
  <2> USE <1>1 DEF ReqInv
  <2> DEFINE requests == {[type |-> REQUEST, id |-> id, route |-> ROUTE, body |-> <<Try(id).call>>] :
                             id \in first + 1 .. reqId}
             notes == [type : {NOTIFY}, id : {0}, route : {ROUTE}, body : {<<c>> : c \in Calls}]
  <2>1. Ids = first + 1 .. reqId
    BY IdsTyped
  <2>2. /\ AllMsgs \subseteq MsgSet
        /\ \A m \in AllMsgs : m.id # 0 => m.id \in Ids /\ m.body[1] = CallOf(m.id)
    BY AllMsgsShape
  <2>3. AllMsgs \subseteq requests \union notes
    <3>1. \A c \in Calls : NoteMsg(c) \in notes
      BY DEF NoteMsg
    <3>2. \A id \in Ids : ReqMsg(id, CallOf(id)) \in requests
      BY <2>1 DEF ReqMsg, CallOf
    <3> HIDE DEF requests, notes
    <3> QED BY <3>1, <3>2 DEF AllMsgs
  <2> HIDE DEF requests, notes
  <2>4. ASSUME NEW f \in asks PROVE Messages(f) \in {{m} : m \in requests \union notes}
    <3>1. PICK m \in AllMsgs : f = Ask(m)
      BY DEF FramesSound
    <3> QED BY <2>2, <2>3, <3>1, AskRead
  <2>5. ASSUME NEW f \in answers, NEW r \in Messages(f)
        PROVE  r.type = RESPONSE /\ r.id \in first + 1 .. reqId /\ r.body[2] = Try(r.id).call
    <3>1. PICK m \in AllMsgs, code \in {0, 1} : m.id # 0 /\ f = Reply(m, code)
      BY DEF AnswersSound
    <3>2. r = ReplyMsg(m, code)
      BY <2>2, <3>1, ReplyRead
    <3>3. r.type = RESPONSE /\ r.id = m.id /\ r.body[2] = m.body[1]
      BY <3>2, ReplyFields
    <3> QED BY <2>1, <2>2, <3>1, <3>3 DEF CallOf
  <2> QED BY <2>4, <2>5 DEF FramesReadable, requests, notes
<1> QED BY <1>1, RequestInvariance, PTL

-----------------------------------------------------------------------------
(* The inductive invariant of the task queues.                             *)

USE NoneAssumption

Begun(t) == phase[t] \in {"running", "late", "done"}
NoneRuns(q) == \A t \in Tasks : home[t] = q => phase[t] # "running"

\* The manager's queue accepts tasks.
CurrentAccepts == current # None => status[current] \in {"IDLE", "BUSY"}

\* An array holds the accepted tasks that have not begun, each once.
QueueHoldsWaiting ==
    \A q \in Queues :
        /\ \A i \in 1..Len(queue[q]) : phase[queue[q][i]] = "waiting" /\ home[queue[q][i]] = q
        /\ \A i, j \in 1..Len(queue[q]) : queue[q][i] = queue[q][j] => i = j
        /\ status[q] \in {"none", "IDLE"} => queue[q] = <<>>

\* Ids tell the begun tasks of a queue apart and do not exceed curId.
IdsUnique ==
    /\ \A t \in Tasks : Begun(t) => taskId[t] <= curId[home[t]]
    /\ \A s, t \in Tasks :
           Begun(s) /\ Begun(t) /\ home[s] = home[t] /\ taskId[s] = taskId[t] => s = t

\* A running task has the current id and, unless the queue was closed by
\* force, the timer.
RunningIsCurrent ==
    \A t \in Tasks :
        phase[t] = "running" =>
            /\ taskId[t] = curId[home[t]]
            /\ status[home[t]] = "DRAINED" \/ timer[home[t]] = t

\* A call of next() with the current id means that the current task is over.
PendingIsOver ==
    \A q \in Queues :
        /\ \A i \in 1..Len(ticks[q]) : ticks[q][i] <= curId[q]
        /\ status[q] \in {"BUSY", "CLOSED"} /\ Pending(ticks[q], curId[q]) => NoneRuns(q)
        /\ status[q] \in {"none", "IDLE"} => NoneRuns(q)

\* An armed timer belongs to the current task, which runs or has just ended.
TimerIsCurrent ==
    \A q \in Queues :
        timer[q] # None =>
            /\ home[timer[q]] = q
            /\ taskId[timer[q]] = curId[q]
            /\ status[q] \in {"BUSY", "CLOSED"}
            /\ \/ phase[timer[q]] = "running"
               \/ phase[timer[q]] = "done" /\ Pending(ticks[q], curId[q])

IInv ==
    /\ TypeOK /\ CurrentAccepts /\ QueueHoldsWaiting /\ IdsUnique
    /\ RunningIsCurrent /\ PendingIsOver /\ TimerIsCurrent /\ NeverStalls

-----------------------------------------------------------------------------
(* The callbacks left to process.nextTick.                                 *)

LEMMA AppendedTick ==
    ASSUME TypeOK, NEW q \in Queues, NEW n \in Nat,
           ticks' = [ticks EXCEPT ![q] = Append(@, n)]
    PROVE  /\ ticks' \in [Queues -> Seq(Nat)]
           /\ \A r \in Queues : \A id : Pending(ticks'[r], id) <=> Pending(ticks[r], id) \/ (r = q /\ id = n)
<1> DEFINE s == ticks[q]
           a == Append(s, n)
<1>1. s \in Seq(Nat) /\ Len(s) \in Nat
  BY DEF TypeOK
<1>2. /\ a \in Seq(Nat) /\ Len(a) = Len(s) + 1 /\ a[Len(s) + 1] = n
      /\ \A i \in 1..Len(s) : a[i] = s[i]
  BY <1>1
<1>3. ticks'[q] = a /\ \A r \in Queues : r # q => ticks'[r] = ticks[r]
  BY DEF TypeOK
<1>4. ticks' \in [Queues -> Seq(Nat)]
  BY <1>2 DEF TypeOK
<1> HIDE DEF a
<1>5. ASSUME NEW id PROVE Pending(ticks'[q], id) <=> Pending(ticks[q], id) \/ id = n
  <2>1. ASSUME Pending(ticks'[q], id) PROVE Pending(ticks[q], id) \/ id = n
    <3>1. PICK i \in 1..(Len(s) + 1) : a[i] = id
      BY <1>2, <1>3, <2>1 DEF Pending
    <3>2. i = Len(s) + 1 \/ i \in 1..Len(s)
      BY <1>1, <3>1
    <3>3. i = Len(s) + 1 => id = n
      BY <1>2, <3>1
    <3>4. i \in 1..Len(s) => s[i] = id
      BY <1>2, <3>1
    <3> QED
      BY <3>2, <3>3, <3>4 DEF Pending
  <2>2. ASSUME Pending(ticks[q], id) PROVE Pending(ticks'[q], id)
    <3>1. PICK i \in 1..Len(s) : s[i] = id
      BY <2>2 DEF Pending
    <3>2. a[i] = id
      BY <1>2, <3>1
    <3>3. i \in 1..(Len(s) + 1)
      BY <1>1, <3>1
    <3> QED
      BY <1>2, <1>3, <3>2, <3>3 DEF Pending
  <2>3. ASSUME id = n PROVE Pending(ticks'[q], id)
    <3>1. Len(s) + 1 \in 1..Len(a)
      BY <1>1, <1>2
    <3> QED
      BY <1>2, <1>3, <2>3, <3>1 DEF Pending
  <2> QED
    BY <2>1, <2>2, <2>3
<1>6. ASSUME NEW id, NEW r \in Queues, r # q PROVE Pending(ticks'[r], id) <=> Pending(ticks[r], id)
  BY <1>3, <1>6 DEF Pending
<1> QED
  BY <1>4, <1>5, <1>6

LEMMA TakenTick ==
    ASSUME TypeOK, NEW q \in Queues, ticks[q] # <<>>,
           ticks' = [ticks EXCEPT ![q] = Tail(@)]
    PROVE  /\ ticks' \in [Queues -> Seq(Nat)]
           /\ Head(ticks[q]) \in Nat /\ Pending(ticks[q], Head(ticks[q]))
           /\ \A r \in Queues : \A id : Pending(ticks'[r], id) => Pending(ticks[r], id)
           /\ \A r \in Queues : \A id :
                  Pending(ticks[r], id) /\ (r # q \/ id # Head(ticks[q])) => Pending(ticks'[r], id)
<1> DEFINE s == ticks[q]
           a == Tail(s)
<1>1. s \in Seq(Nat) /\ Len(s) \in Nat \ {0} /\ Head(s) = s[1] /\ Head(s) \in Nat
  BY DEF TypeOK
<1>2. /\ a \in Seq(Nat) /\ Len(a) = Len(s) - 1
      /\ \A i \in 1..Len(a) : a[i] = s[i + 1]
  BY <1>1
<1>3. ticks'[q] = a /\ \A r \in Queues : r # q => ticks'[r] = ticks[r]
  BY DEF TypeOK
<1>4. ticks' \in [Queues -> Seq(Nat)]
  BY <1>2 DEF TypeOK
<1>5. Pending(ticks[q], Head(s))
  <2>1. 1 \in 1..Len(s)
    BY <1>1
  <2> QED
    BY <1>1, <2>1 DEF Pending
<1> HIDE DEF a
<1>6. ASSUME NEW id, Pending(ticks'[q], id) PROVE Pending(ticks[q], id)
  <2>1. PICK i \in 1..Len(a) : a[i] = id
    BY <1>3, <1>6 DEF Pending
  <2>2. s[i + 1] = id
    BY <1>2, <2>1
  <2>3. i \in 1..(Len(s) - 1)
    BY <1>2, <2>1
  <2>4. i + 1 \in 1..Len(s)
    BY <1>1, <2>3
  <2> QED
    BY <2>2, <2>4 DEF Pending
<1>7. ASSUME NEW id, Pending(ticks[q], id), id # Head(s) PROVE Pending(ticks'[q], id)
  <2>1. PICK i \in 1..Len(s) : s[i] = id
    BY <1>7 DEF Pending
  <2>2. i - 1 \in 1..Len(a) /\ (i - 1) + 1 = i
    BY <1>1, <1>2, <1>7, <2>1
  <2>3. a[i - 1] = id
    BY <1>2, <2>1, <2>2
  <2> QED
    BY <1>3, <2>2, <2>3 DEF Pending
<1>8. ASSUME NEW id, NEW r \in Queues, r # q PROVE Pending(ticks'[r], id) <=> Pending(ticks[r], id)
  BY <1>3, <1>8 DEF Pending
<1> QED
  BY <1>1, <1>4, <1>5, <1>6, <1>7, <1>8

-----------------------------------------------------------------------------
(* Each action preserves the invariant.                                    *)

\* The conjuncts, with bounds in the form the steps use.
LEMMA Parts ==
    ASSUME IInv
    PROVE  /\ TypeOK /\ CurrentAccepts /\ QueueHoldsWaiting /\ IdsUnique
           /\ RunningIsCurrent /\ PendingIsOver /\ TimerIsCurrent /\ NeverStalls
           /\ \A q \in Queues : \A id : Pending(ticks[q], id) => id \in Nat /\ id <= curId[q]
BY DEF IInv, PendingIsOver, Pending, TypeOK

LEMMA TicksBounded ==
    ASSUME \A r \in Queues : \A id : Pending(ticks'[r], id) => id <= curId'[r]
    PROVE  \A r \in Queues : \A i \in 1..Len(ticks'[r]) : ticks'[r][i] <= curId'[r]
BY DEF Pending

\* What the changes of an array leave of QueueHoldsWaiting.
LEMMA QueueAppend ==
    ASSUME NEW S, NEW s \in Seq(S), NEW x \in S, \A i \in 1..Len(s) : s[i] # x,
           \A i, j \in 1..Len(s) : s[i] = s[j] => i = j
    PROVE  /\ Append(s, x) \in Seq(S)
           /\ \A i \in 1..Len(Append(s, x)) :
                  Append(s, x)[i] = x \/ (i \in 1..Len(s) /\ Append(s, x)[i] = s[i])
           /\ \A i, j \in 1..Len(Append(s, x)) : Append(s, x)[i] = Append(s, x)[j] => i = j
<1>1. Len(s) \in Nat /\ Append(s, x) \in Seq(S) /\ Len(Append(s, x)) = Len(s) + 1
      /\ Append(s, x)[Len(s) + 1] = x
      /\ \A i \in 1..Len(s) : Append(s, x)[i] = s[i]
  OBVIOUS
<1>2. \A i \in 1..(Len(s) + 1) : i = Len(s) + 1 \/ i \in 1..Len(s)
  BY <1>1
<1> QED
  BY <1>1, <1>2

LEMMA QueueTail ==
    ASSUME NEW S, NEW s \in Seq(S), s # <<>>,
           \A i, j \in 1..Len(s) : s[i] = s[j] => i = j
    PROVE  /\ Head(s) \in S /\ Head(s) = s[1] /\ 1 \in 1..Len(s)
           /\ Tail(s) \in Seq(S)
           /\ \A i \in 1..Len(Tail(s)) :
                  i + 1 \in 1..Len(s) /\ Tail(s)[i] = s[i + 1] /\ Tail(s)[i] # Head(s)
           /\ \A i, j \in 1..Len(Tail(s)) : Tail(s)[i] = Tail(s)[j] => i = j
<1>1. Len(s) \in Nat \ {0} /\ Head(s) = s[1] /\ Head(s) \in S
      /\ Tail(s) \in Seq(S) /\ Len(Tail(s)) = Len(s) - 1
      /\ \A i \in 1..(Len(s) - 1) : Tail(s)[i] = s[i + 1]
  OBVIOUS
<1>2. \A i \in 1..(Len(s) - 1) : i + 1 \in 1..Len(s) /\ i + 1 # 1 /\ i \in Int
  BY <1>1
<1>3. 1 \in 1..Len(s)
  BY <1>1
<1> QED
  BY <1>1, <1>2, <1>3

LEMMA InitOK == Init => IInv
BY DEF Init, IInv, TypeOK, CurrentAccepts, QueueHoldsWaiting, IdsUnique, RunningIsCurrent,
       PendingIsOver, TimerIsCurrent, NeverStalls, Pending, NoneRuns, Begun, Statuses, Phases

LEMMA AddTaskStep == ASSUME IInv, NEW t \in Tasks, AddTask(t) PROVE IInv'
<1> DEFINE q == home[t]
<1>1. /\ q \in Queues /\ status[q] \in {"none", "IDLE", "BUSY"} /\ phase[t] = "new"
      /\ current' = q /\ status' = [status EXCEPT ![q] = "BUSY"]
      /\ queue' = [queue EXCEPT ![q] = Append(@, t)]
      /\ phase' = [phase EXCEPT ![t] = "waiting"]
      /\ UNCHANGED <<curId, timer, home, taskId>>
  BY Parts DEF AddTask, CurrentAccepts, TypeOK
<1>2. /\ ticks' \in [Queues -> Seq(Nat)]
      /\ \A r \in Queues : \A id : Pending(ticks[r], id) => Pending(ticks'[r], id)
      /\ \A r \in Queues : \A id : Pending(ticks'[r], id) =>
             Pending(ticks[r], id) \/ (r = q /\ id = curId[q] /\ status[q] # "BUSY")
      /\ status[q] # "BUSY" => Pending(ticks'[q], curId[q])
  <2>1. CASE status[q] = "BUSY"
    <3>1. ticks' = ticks
      BY <1>1, <2>1, Parts DEF AddTask, TypeOK
    <3> QED
      BY <2>1, <3>1, Parts DEF Pending, TypeOK
  <2>2. CASE status[q] # "BUSY"
    <3>1. ticks' = [ticks EXCEPT ![q] = Append(@, curId[q])]
      BY <1>1, <2>2 DEF AddTask
    <3>2. curId[q] \in Nat
      BY <1>1, Parts DEF TypeOK
    <3>3. /\ ticks' \in [Queues -> Seq(Nat)]
          /\ \A r \in Queues : \A id : Pending(ticks'[r], id)
                 <=> Pending(ticks[r], id) \/ (r = q /\ id = curId[q])
      <4> HIDE DEF q
      <4> QED
        BY <1>1, <3>1, <3>2, AppendedTick, Parts
    <3> QED
      BY <1>1, <2>2, <3>3
  <2> QED
    BY <2>1, <2>2
<1>3. /\ queue[q] \in Seq(Tasks)
      /\ \A i \in 1..Len(queue[q]) : queue[q][i] # t
      /\ \A i, j \in 1..Len(queue[q]) : queue[q][i] = queue[q][j] => i = j
  <2>1. queue[q] \in Seq(Tasks)
    BY <1>1, Parts DEF TypeOK
  <2>2. \A i \in 1..Len(queue[q]) : phase[queue[q][i]] = "waiting"
    BY <1>1, Parts DEF QueueHoldsWaiting
  <2>3. \A i, j \in 1..Len(queue[q]) : queue[q][i] = queue[q][j] => i = j
    BY <1>1, Parts DEF QueueHoldsWaiting
  <2> QED
    BY <1>1, <2>1, <2>2, <2>3
<1>4. /\ Append(queue[q], t) \in Seq(Tasks)
      /\ \A i \in 1..Len(Append(queue[q], t)) :
             Append(queue[q], t)[i] = t
             \/ (i \in 1..Len(queue[q]) /\ Append(queue[q], t)[i] = queue[q][i])
      /\ \A i, j \in 1..Len(Append(queue[q], t)) :
             Append(queue[q], t)[i] = Append(queue[q], t)[j] => i = j
  BY <1>3, QueueAppend
<1>5. queue'[q] = Append(queue[q], t) /\ \A r \in Queues : r # q => queue'[r] = queue[r]
  BY <1>1, Parts DEF TypeOK
<1>6. phase'[t] = "waiting" /\ \A s \in Tasks : s # t => phase'[s] = phase[s]
  BY <1>1, Parts DEF TypeOK
<1>7. status'[q] = "BUSY" /\ \A r \in Queues : r # q => status'[r] = status[r]
  BY <1>1, Parts DEF TypeOK
<1>8. TypeOK'
  BY <1>1, <1>2, <1>4, Parts DEF TypeOK, Statuses, Phases
<1>9. CurrentAccepts'
  BY <1>1, <1>7 DEF CurrentAccepts
<1>10. QueueHoldsWaiting'
  <2> SUFFICES ASSUME NEW r \in Queues
               PROVE  /\ \A i \in 1..Len(queue'[r]) :
                             phase'[queue'[r][i]] = "waiting" /\ home[queue'[r][i]] = r
                      /\ \A i, j \in 1..Len(queue'[r]) : queue'[r][i] = queue'[r][j] => i = j
                      /\ status'[r] \in {"none", "IDLE"} => queue'[r] = <<>>
    BY <1>1 DEF QueueHoldsWaiting
  <2>1. CASE r = q
    <3>1. \A i \in 1..Len(queue[q]) :
              /\ queue[q][i] \in Tasks
              /\ phase'[queue[q][i]] = "waiting" /\ home[queue[q][i]] = q
      BY <1>1, <1>3, <1>6, Parts DEF QueueHoldsWaiting
    <3>2. \A i \in 1..Len(queue'[q]) : phase'[queue'[q][i]] = "waiting" /\ home[queue'[q][i]] = q
      BY <1>4, <1>5, <1>6, <3>1
    <3>3. \A i, j \in 1..Len(queue'[q]) : queue'[q][i] = queue'[q][j] => i = j
      <4> DEFINE s == Append(queue[q], t)
      <4>1. \A i, j \in 1..Len(s) : s[i] = s[j] => i = j
        BY <1>4
      <4> HIDE DEF s
      <4> QED
        BY <1>5, <4>1 DEF s
    <3> QED
      BY <1>7, <2>1, <3>2, <3>3
  <2>2. CASE r # q
    <3>1. queue[r] \in Seq(Tasks) /\ \A i \in 1..Len(queue[r]) : queue[r][i] \in Tasks
      BY Parts DEF TypeOK
    <3>2. \A i \in 1..Len(queue[r]) : queue[r][i] # t
      BY <2>2, Parts DEF QueueHoldsWaiting
    <3> QED
      BY <1>5, <1>6, <1>7, <2>2, <3>1, <3>2, Parts DEF QueueHoldsWaiting
  <2> QED
    BY <2>1, <2>2
<1>11. IdsUnique' /\ RunningIsCurrent'
  <2>1. \A s \in Tasks : (Begun(s)' <=> Begun(s)) /\ (phase'[s] = "running" <=> phase[s] = "running")
    BY <1>1, <1>6 DEF Begun
  <2>2. IdsUnique'
    BY <1>1, <2>1, Parts DEF IdsUnique
  <2>3. RunningIsCurrent'
    BY <1>1, <1>7, <2>1, Parts DEF RunningIsCurrent, TypeOK
  <2> QED
    BY <2>2, <2>3
<1>12. PendingIsOver'
  <2>1. \A r \in Queues : NoneRuns(r) => NoneRuns(r)'
    BY <1>1, <1>6 DEF NoneRuns
  <2>2. \A r \in Queues : \A i \in 1..Len(ticks'[r]) : ticks'[r][i] <= curId'[r]
    <3>1. \A r \in Queues : \A id : Pending(ticks'[r], id) => id <= curId'[r]
      BY <1>1, <1>2, Parts DEF TypeOK
    <3> QED
      BY <3>1, TicksBounded
  <2> QED
    BY <1>1, <1>2, <1>7, <2>1, <2>2, Parts DEF PendingIsOver
<1>13. TimerIsCurrent'
  <2> SUFFICES ASSUME NEW r \in Queues, timer[r] # None
               PROVE  /\ home[timer[r]] = r
                      /\ taskId[timer[r]] = curId[r]
                      /\ status'[r] \in {"BUSY", "CLOSED"}
                      /\ \/ phase'[timer[r]] = "running"
                         \/ phase'[timer[r]] = "done" /\ Pending(ticks'[r], curId[r])
    BY <1>1 DEF TimerIsCurrent, Pending
  <2>1. timer[r] \in Tasks
    BY Parts DEF TypeOK
  <2>2. timer[r] # t
    BY <1>1, Parts DEF TimerIsCurrent
  <2> QED
    BY <1>2, <1>6, <1>7, <2>1, <2>2, Parts DEF TimerIsCurrent
<1>14. NeverStalls'
  <2>1. \A r \in Queues : Pending(ticks[r], curId[r]) => Pending(ticks'[r], curId'[r])
    BY <1>1, <1>2
  <2>2. ASSUME NEW r \in Queues, r # q PROVE (status'[r] = status[r]) /\ queue'[r] = queue[r]
    BY <1>5, <1>7, <2>2
  <2>3. Pending(ticks'[q], curId[q]) \/ status[q] = "BUSY"
    BY <1>2
  <2> QED
    BY <1>1, <1>2, <2>1, <2>2, <2>3, Parts DEF NeverStalls
<1> QED
  BY <1>8, <1>9, <1>10, <1>11, <1>12, <1>13, <1>14 DEF IInv

LEMMA CloseStep == ASSUME IInv, CloseForced \/ CloseGently PROVE IInv'
<1> DEFINE q == current
<1>1. /\ q \in Queues /\ status[q] \in {"IDLE", "BUSY"} /\ current' = None
      /\ UNCHANGED <<queue, curId, ticks, home, taskId, phase>>
  BY Parts DEF CloseForced, CloseGently, taskVars, CurrentAccepts, TypeOK
<1>2. /\ status' \in [Queues -> Statuses]
      /\ timer' \in [Queues -> Tasks \cup {None}]
      /\ \A r \in Queues : r # q => status'[r] = status[r] /\ timer'[r] = timer[r]
      /\ \/ status'[q] = "DRAINED" /\ timer'[q] = None
         \/ status'[q] = "CLOSED" /\ timer'[q] = timer[q]
  <2>1. status \in [Queues -> Statuses] /\ timer \in [Queues -> Tasks \cup {None}]
    BY Parts DEF TypeOK
  <2>2. CASE CloseForced
    BY <1>1, <2>1, <2>2 DEF CloseForced, Statuses
  <2>3. CASE CloseGently
    BY <1>1, <2>1, <2>3 DEF CloseGently, Statuses
  <2> QED
    BY <2>2, <2>3
<1> HIDE DEF q
<1>3. TypeOK'
  BY <1>1, <1>2, Parts DEF TypeOK
<1>4. CurrentAccepts' /\ IdsUnique'
  BY <1>1, Parts DEF CurrentAccepts, IdsUnique, Begun
<1>5. QueueHoldsWaiting'
  <2>1. \A r \in Queues : status'[r] \in {"none", "IDLE"} => status[r] \in {"none", "IDLE"}
    BY <1>2
  <2> QED
    BY <1>1, <2>1, Parts DEF QueueHoldsWaiting
<1>6. RunningIsCurrent'
  BY <1>1, <1>2, Parts DEF RunningIsCurrent, TypeOK
<1>7. PendingIsOver'
  <2>1. \A r \in Queues : NoneRuns(r) => NoneRuns(r)'
    BY <1>1 DEF NoneRuns
  <2>2. status[q] \in {"BUSY", "CLOSED"} /\ Pending(ticks[q], curId[q]) => NoneRuns(q)
    BY <1>1, Parts DEF PendingIsOver
  <2>3. status[q] \in {"none", "IDLE"} => NoneRuns(q)
    BY <1>1, Parts DEF PendingIsOver
  <2> QED
    BY <1>1, <1>2, <2>1, <2>2, <2>3, Parts DEF PendingIsOver
<1>8. TimerIsCurrent'
  BY <1>1, <1>2, Parts DEF TimerIsCurrent
<1>9. NeverStalls'
  BY <1>1, <1>2, Parts DEF NeverStalls, QueueHoldsWaiting
<1> QED
  BY <1>3, <1>4, <1>5, <1>6, <1>7, <1>8, <1>9 DEF IInv

LEMMA IgnoredStep == ASSUME IInv, NEW q \in Queues, NextIgnored(q) PROVE IInv'
<1>1. /\ ticks[q] # <<>> /\ ticks' = [ticks EXCEPT ![q] = Tail(@)]
      /\ Head(ticks[q]) # curId[q] \/ status[q] \notin {"BUSY", "CLOSED"}
      /\ UNCHANGED <<current, status, queue, curId, timer, home, taskId, phase>>
  BY DEF NextIgnored, Valid, taskVars
<1>2. /\ ticks' \in [Queues -> Seq(Nat)]
      /\ \A r \in Queues : \A id : Pending(ticks'[r], id) => Pending(ticks[r], id)
      /\ \A r \in Queues : \A id :
             Pending(ticks[r], id) /\ (r # q \/ id # Head(ticks[q])) => Pending(ticks'[r], id)
  BY <1>1, TakenTick, Parts
<1>3. \A r \in Queues : status[r] \in {"BUSY", "CLOSED"} /\ Pending(ticks[r], curId[r])
          => Pending(ticks'[r], curId[r])
  BY <1>1, <1>2
<1>4. TypeOK' /\ CurrentAccepts' /\ QueueHoldsWaiting' /\ IdsUnique' /\ RunningIsCurrent'
  BY <1>1, <1>2, Parts
  DEF TypeOK, CurrentAccepts, QueueHoldsWaiting, IdsUnique, RunningIsCurrent, Begun
<1>5. PendingIsOver'
  BY <1>1, <1>2, TicksBounded, Parts DEF PendingIsOver, NoneRuns
<1>6. TimerIsCurrent'
  BY <1>1, <1>3, Parts DEF TimerIsCurrent
<1>7. NeverStalls'
  BY <1>1, <1>3, Parts DEF NeverStalls
<1> QED
  BY <1>4, <1>5, <1>6, <1>7 DEF IInv

LEMMA EmptyStep == ASSUME IInv, NEW q \in Queues, NextEmpty(q) PROVE IInv'
<1>1. /\ ticks[q] # <<>> /\ ticks' = [ticks EXCEPT ![q] = Tail(@)]
      /\ Head(ticks[q]) = curId[q] /\ queue[q] = <<>>
      /\ timer' = [timer EXCEPT ![q] = None]
      /\ UNCHANGED <<current, queue, home, taskId, phase>>
  BY DEF NextEmpty, Valid, taskVars
<1>2. \/ /\ status[q] = "BUSY" /\ status' = [status EXCEPT ![q] = "IDLE"]
         /\ curId' = [curId EXCEPT ![q] = @ + 1]
      \/ /\ status[q] = "CLOSED" /\ status' = [status EXCEPT ![q] = "DRAINED"]
         /\ curId' = curId
  BY DEF NextEmpty
<1>3. /\ ticks' \in [Queues -> Seq(Nat)]
      /\ Pending(ticks[q], curId[q])
      /\ \A r \in Queues : \A id : Pending(ticks'[r], id) => Pending(ticks[r], id)
      /\ \A r \in Queues : \A id : Pending(ticks[r], id) /\ r # q => Pending(ticks'[r], id)
  BY <1>1, TakenTick, Parts
<1>4. NoneRuns(q)
  BY <1>2, <1>3, Parts DEF PendingIsOver
<1>5. /\ curId' \in [Queues -> Nat]
      /\ curId'[q] \in {curId[q], curId[q] + 1}
      /\ \A r \in Queues : curId[r] \in Nat /\ (r # q => curId'[r] = curId[r])
  BY <1>2, Parts DEF TypeOK
<1>6. /\ status' \in [Queues -> Statuses]
      /\ \/ status[q] = "BUSY" /\ status'[q] = "IDLE"
         \/ status[q] = "CLOSED" /\ status'[q] = "DRAINED"
      /\ \A r \in Queues : r # q => status'[r] = status[r]
  <2>1. status \in [Queues -> Statuses] /\ "IDLE" \in Statuses /\ "DRAINED" \in Statuses
    BY Parts DEF TypeOK, Statuses
  <2> QED
    BY <1>2, <2>1
<1>7. /\ timer' \in [Queues -> Tasks \cup {None}] /\ timer'[q] = None
      /\ \A r \in Queues : r # q => timer'[r] = timer[r]
  BY <1>1, Parts DEF TypeOK
<1>8. TypeOK'
  BY <1>1, <1>3, <1>5, <1>6, <1>7, Parts DEF TypeOK
<1>9. CurrentAccepts'
  BY <1>1, <1>6, Parts DEF CurrentAccepts, TypeOK
<1>10. QueueHoldsWaiting'
  BY <1>1, <1>6, Parts DEF QueueHoldsWaiting
<1>11. IdsUnique'
  <2>1. \A r \in Queues : curId[r] <= curId'[r]
    BY <1>5
  <2>2. \A t \in Tasks : Begun(t) => taskId[t] <= curId'[home[t]]
    BY <1>5, <2>1, Parts DEF IdsUnique, TypeOK
  <2> QED
    BY <1>1, <2>2, Parts DEF IdsUnique, Begun
<1>12. RunningIsCurrent'
  BY <1>1, <1>4, <1>5, <1>6, <1>7, Parts DEF RunningIsCurrent, NoneRuns, TypeOK
<1>13. PendingIsOver'
  <2>1. \A r \in Queues : NoneRuns(r) => NoneRuns(r)'
    BY <1>1 DEF NoneRuns
  <2>2. \A r \in Queues : \A id : Pending(ticks'[r], id) => id <= curId'[r]
    <3>1. \A r \in Queues : \A id : Pending(ticks'[r], id) => id \in Nat /\ id <= curId[r]
      BY <1>3, Parts
    <3>2. \A r \in Queues : curId[r] \in Nat /\ curId'[r] \in Nat /\ curId[r] <= curId'[r]
      BY <1>5
    <3> SUFFICES ASSUME NEW r \in Queues, NEW id, Pending(ticks'[r], id)
                 PROVE  id <= curId'[r]
      OBVIOUS
    <3> QED
      BY <3>1, <3>2
  <2> QED
    BY <1>3, <1>4, <1>5, <1>6, <2>1, <2>2, TicksBounded, Parts DEF PendingIsOver
<1>14. TimerIsCurrent'
  <2> SUFFICES ASSUME NEW r \in Queues, timer'[r] # None
               PROVE  /\ home[timer'[r]] = r
                      /\ taskId[timer'[r]] = curId'[r]
                      /\ status'[r] \in {"BUSY", "CLOSED"}
                      /\ \/ phase[timer'[r]] = "running"
                         \/ phase[timer'[r]] = "done" /\ Pending(ticks'[r], curId'[r])
    BY <1>1 DEF TimerIsCurrent
  <2>1. r # q /\ timer'[r] = timer[r] /\ curId'[r] = curId[r] /\ status'[r] = status[r]
    BY <1>5, <1>6, <1>7
  <2>2. Pending(ticks[r], curId[r]) => Pending(ticks'[r], curId[r])
    BY <1>3, <2>1
  <2> QED
    BY <2>1, <2>2, Parts DEF TimerIsCurrent
<1>15. NeverStalls'
  <2> SUFFICES ASSUME NEW r \in Queues,
                      status'[r] = "BUSY" \/ (status'[r] = "CLOSED" /\ queue[r] # <<>>)
               PROVE  \/ Pending(ticks'[r], curId'[r])
                      \/ timer'[r] # None /\ taskId[timer'[r]] = curId'[r]
    BY <1>1 DEF NeverStalls
  <2>1. r # q /\ timer'[r] = timer[r] /\ curId'[r] = curId[r] /\ status'[r] = status[r]
    BY <1>5, <1>6, <1>7
  <2>2. Pending(ticks[r], curId[r]) => Pending(ticks'[r], curId[r])
    BY <1>3, <2>1
  <2> QED
    BY <2>1, <2>2, Parts DEF NeverStalls
<1> QED
  BY <1>8, <1>9, <1>10, <1>11, <1>12, <1>13, <1>14, <1>15 DEF IInv

LEMMA BeginsStep == ASSUME IInv, NEW q \in Queues, NextBegins(q) PROVE IInv'
<1> DEFINE t == Head(queue[q])
<1>1. /\ ticks[q] # <<>> /\ ticks' = [ticks EXCEPT ![q] = Tail(@)]
      /\ Head(ticks[q]) = curId[q] /\ status[q] \in {"BUSY", "CLOSED"}
      /\ queue[q] # <<>> /\ queue' = [queue EXCEPT ![q] = Tail(@)]
      /\ curId' = [curId EXCEPT ![q] = @ + 1]
      /\ taskId' = [taskId EXCEPT ![t] = curId[q] + 1]
      /\ timer' = [timer EXCEPT ![q] = t]
      /\ phase' = [phase EXCEPT ![t] = "running"]
      /\ UNCHANGED <<current, status, home>>
  BY DEF NextBegins, Valid
<1>2. /\ ticks' \in [Queues -> Seq(Nat)]
      /\ Pending(ticks[q], curId[q])
      /\ \A r \in Queues : \A id : Pending(ticks'[r], id) => Pending(ticks[r], id)
      /\ \A r \in Queues : \A id : Pending(ticks[r], id) /\ r # q => Pending(ticks'[r], id)
  BY <1>1, TakenTick, Parts
<1>3. NoneRuns(q)
  BY <1>1, <1>2, Parts DEF PendingIsOver
<1>4. /\ queue[q] \in Seq(Tasks)
      /\ \A i, j \in 1..Len(queue[q]) : queue[q][i] = queue[q][j] => i = j
  BY Parts DEF TypeOK, QueueHoldsWaiting
<1>5. /\ t \in Tasks /\ t = queue[q][1] /\ 1 \in 1..Len(queue[q])
      /\ Tail(queue[q]) \in Seq(Tasks)
      /\ \A i \in 1..Len(Tail(queue[q])) :
             /\ i + 1 \in 1..Len(queue[q]) /\ Tail(queue[q])[i] = queue[q][i + 1]
             /\ Tail(queue[q])[i] # t
      /\ \A i, j \in 1..Len(Tail(queue[q])) :
             Tail(queue[q])[i] = Tail(queue[q])[j] => i = j
  BY <1>1, <1>4, QueueTail
<1>6. phase[t] = "waiting" /\ home[t] = q
  BY <1>5, Parts DEF QueueHoldsWaiting
<1> HIDE DEF t
<1>7. /\ queue' \in [Queues -> Seq(Tasks)] /\ queue'[q] = Tail(queue[q])
      /\ \A r \in Queues : r # q => queue'[r] = queue[r]
  BY <1>1, <1>5, Parts DEF TypeOK
<1>8. /\ phase' \in [Tasks -> Phases] /\ phase'[t] = "running"
      /\ \A s \in Tasks : s # t => phase'[s] = phase[s]
  BY <1>1, <1>5, Parts DEF TypeOK, Phases
<1>9. /\ curId' \in [Queues -> Nat] /\ curId'[q] = curId[q] + 1
      /\ \A r \in Queues : curId[r] \in Nat /\ (r # q => curId'[r] = curId[r])
  <2>1. curId \in [Queues -> Nat]
    BY Parts DEF TypeOK
  <2> QED
    BY <1>1, <2>1
<1>10. /\ taskId' \in [Tasks -> Nat] /\ taskId'[t] = curId[q] + 1
       /\ \A s \in Tasks : taskId[s] \in Nat /\ (s # t => taskId'[s] = taskId[s])
  BY <1>1, <1>5, <1>9, Parts DEF TypeOK
<1>11. /\ timer' \in [Queues -> Tasks \cup {None}] /\ timer'[q] = t
       /\ \A r \in Queues : r # q => timer'[r] = timer[r]
  BY <1>1, <1>5, Parts DEF TypeOK
<1>12. TypeOK' /\ CurrentAccepts'
  BY <1>1, <1>2, <1>7, <1>8, <1>9, <1>10, <1>11, Parts DEF TypeOK, CurrentAccepts
<1>13. QueueHoldsWaiting'
  <2> SUFFICES ASSUME NEW r \in Queues
               PROVE  /\ \A i \in 1..Len(queue'[r]) :
                             phase'[queue'[r][i]] = "waiting" /\ home[queue'[r][i]] = r
                      /\ \A i, j \in 1..Len(queue'[r]) : queue'[r][i] = queue'[r][j] => i = j
                      /\ status[r] \in {"none", "IDLE"} => queue'[r] = <<>>
    BY <1>1 DEF QueueHoldsWaiting
  <2>1. \A i \in 1..Len(queue[r]) :
            /\ queue[r][i] \in Tasks /\ home[queue[r][i]] = r
            /\ queue[r][i] # t => phase'[queue[r][i]] = "waiting"
    <3>1. queue[r] \in Seq(Tasks)
      BY Parts DEF TypeOK
    <3> QED
      BY <1>8, <3>1, Parts DEF QueueHoldsWaiting
  <2>2. CASE r = q
    BY <1>1, <1>5, <1>7, <2>1, <2>2
  <2>3. CASE r # q
    <3>1. \A i \in 1..Len(queue[r]) : queue[r][i] # t
      BY <1>6, <2>1, <2>3
    <3> QED
      BY <1>7, <2>1, <2>3, <3>1, Parts DEF QueueHoldsWaiting
  <2> QED
    BY <2>2, <2>3
<1>14. IdsUnique'
  <2>1. \A s \in Tasks : s # t => (Begun(s)' <=> Begun(s))
    BY <1>8 DEF Begun
  <2>2. \A s \in Tasks : s # t /\ Begun(s) => taskId'[s] <= curId[home[s]]
    BY <1>10, Parts DEF IdsUnique
  <2>3. \A s \in Tasks : Begun(s)' => taskId'[s] <= curId'[home[s]]
    <3>1. ASSUME NEW s \in Tasks, s # t, Begun(s) PROVE taskId'[s] <= curId'[home[s]]
      <4>1. home[s] \in Queues
        BY Parts DEF TypeOK
      <4>2. taskId'[s] \in Nat /\ curId[home[s]] \in Nat /\ curId'[home[s]] >= curId[home[s]]
        BY <1>9, <1>10, <3>1, <4>1
      <4>3. taskId'[s] <= curId[home[s]]
        BY <2>2, <3>1
      <4> QED
        BY <1>9, <4>1, <4>2, <4>3
    <3> QED
      BY <1>6, <1>9, <1>10, <2>1, <3>1
  <2>4. \A s \in Tasks : s # t /\ Begun(s)' /\ home[s] = q => taskId'[s] # taskId'[t]
    BY <1>9, <1>10, <2>1, <2>2
  <2>5. \A r, s \in Tasks : r # t /\ s # t /\ Begun(r)' /\ Begun(s)' /\ home[r] = home[s]
            /\ taskId'[r] = taskId'[s] => r = s
    BY <1>10, <2>1, Parts DEF IdsUnique
  <2>6. \A r, s \in Tasks : Begun(r)' /\ Begun(s)' /\ home[r] = home[s]
            /\ taskId'[r] = taskId'[s] => r = s
    BY <1>6, <2>4, <2>5
  <2> QED
    BY <1>1, <2>3, <2>6 DEF IdsUnique
<1>15. RunningIsCurrent'
  <2>1. ASSUME NEW s \in Tasks, s # t, phase[s] = "running"
        PROVE  /\ taskId'[s] = curId'[home[s]]
               /\ status[home[s]] = "DRAINED" \/ timer'[home[s]] = s
    <3>1. home[s] \in Queues /\ home[s] # q
      BY <1>3, <2>1, Parts DEF NoneRuns, TypeOK
    <3> QED
      BY <1>9, <1>10, <1>11, <2>1, <3>1, Parts DEF RunningIsCurrent
  <2> QED
    BY <1>1, <1>6, <1>8, <1>9, <1>10, <1>11, <2>1 DEF RunningIsCurrent
<1>16. PendingIsOver'
  <2>1. \A r \in Queues : r # q => (NoneRuns(r) => NoneRuns(r)')
    BY <1>1, <1>6, <1>8 DEF NoneRuns
  <2>2. \A r \in Queues : \A id : Pending(ticks'[r], id) => id \in Nat /\ id <= curId[r]
    BY <1>2, Parts
  <2>3. \A r \in Queues : \A id : Pending(ticks'[r], id) => id <= curId'[r]
    <3>1. \A r \in Queues : curId[r] \in Nat /\ curId'[r] \in Nat /\ curId[r] <= curId'[r]
      BY <1>9
    <3> SUFFICES ASSUME NEW r \in Queues, NEW id, Pending(ticks'[r], id)
                 PROVE  id <= curId'[r]
      OBVIOUS
    <3> QED
      BY <2>2, <3>1
  <2>4. ~Pending(ticks'[q], curId'[q])
    BY <1>9, <2>2
  <2> QED
    BY <1>1, <1>2, <1>9, <2>1, <2>3, <2>4, TicksBounded, Parts DEF PendingIsOver
<1>17. TimerIsCurrent'
  <2> SUFFICES ASSUME NEW r \in Queues, timer'[r] # None
               PROVE  /\ home[timer'[r]] = r
                      /\ taskId'[timer'[r]] = curId'[r]
                      /\ status[r] \in {"BUSY", "CLOSED"}
                      /\ \/ phase'[timer'[r]] = "running"
                         \/ phase'[timer'[r]] = "done" /\ Pending(ticks'[r], curId'[r])
    BY <1>1 DEF TimerIsCurrent
  <2>1. CASE r = q
    BY <1>1, <1>6, <1>8, <1>9, <1>10, <1>11, <2>1
  <2>2. CASE r # q
    <3>1. timer'[r] = timer[r] /\ timer[r] \in Tasks
      BY <1>11, <2>2, Parts DEF TypeOK
    <3>2. timer[r] # t
      BY <1>6, <1>11, <2>2, Parts DEF TimerIsCurrent
    <3>3. Pending(ticks[r], curId[r]) => Pending(ticks'[r], curId[r])
      BY <1>2, <2>2
    <3> QED
      BY <1>8, <1>9, <1>10, <2>2, <3>1, <3>2, <3>3, Parts DEF TimerIsCurrent
  <2> QED
    BY <2>1, <2>2
<1>18. NeverStalls'
  <2> SUFFICES ASSUME NEW r \in Queues,
                      status[r] = "BUSY" \/ (status[r] = "CLOSED" /\ queue'[r] # <<>>)
               PROVE  \/ Pending(ticks'[r], curId'[r])
                      \/ timer'[r] # None /\ taskId'[timer'[r]] = curId'[r]
    BY <1>1 DEF NeverStalls
  <2>1. CASE r = q
    BY <1>5, <1>9, <1>10, <1>11, <2>1
  <2>2. CASE r # q
    <3>1. timer[r] # None => timer[r] \in Tasks
      BY Parts DEF TypeOK
    <3>2. timer[r] # None => timer[r] # t
      BY <1>6, <2>2, Parts DEF TimerIsCurrent
    <3>3. Pending(ticks[r], curId[r]) => Pending(ticks'[r], curId[r])
      BY <1>2, <2>2
    <3> QED
      <4>1. /\ queue'[r] = queue[r] /\ curId'[r] = curId[r] /\ timer'[r] = timer[r]
            /\ timer[r] # None => taskId'[timer[r]] = taskId[timer[r]]
        BY <1>7, <1>9, <1>10, <1>11, <2>2, <3>1, <3>2
      <4>2. \/ Pending(ticks[r], curId[r])
            \/ timer[r] # None /\ taskId[timer[r]] = curId[r]
        BY <4>1, Parts DEF NeverStalls
      <4> QED
        BY <3>3, <4>1, <4>2
  <2> QED
    BY <2>1, <2>2
<1> QED
  BY <1>12, <1>13, <1>14, <1>15, <1>16, <1>17, <1>18 DEF IInv

LEMMA TimeoutStep == ASSUME IInv, NEW q \in Queues, Timeout(q) PROVE IInv'
<1> DEFINE t == timer[q]
<1>1. /\ t # None /\ ticks[q] = <<>>
      /\ timer' = [timer EXCEPT ![q] = None]
      /\ ticks' = [ticks EXCEPT ![q] = Append(@, taskId[t])]
      /\ phase' = [phase EXCEPT ![t] = IF @ = "running" THEN "late" ELSE @]
      /\ UNCHANGED <<current, status, queue, curId, home, taskId>>
  BY DEF Timeout
<1>2. t \in Tasks /\ taskId[t] \in Nat /\ curId[q] \in Nat
  BY <1>1, Parts DEF TypeOK
<1>3. ~Pending(ticks[q], curId[q])
  BY <1>1 DEF Pending
<1>4. home[t] = q /\ taskId[t] = curId[q] /\ phase[t] = "running"
  BY <1>1, <1>3, Parts DEF TimerIsCurrent
<1> HIDE DEF t
<1>5. /\ ticks' \in [Queues -> Seq(Nat)]
      /\ \A r \in Queues : \A id : Pending(ticks'[r], id)
             <=> Pending(ticks[r], id) \/ (r = q /\ id = curId[q])
  <2>1. ticks' = [ticks EXCEPT ![q] = Append(@, curId[q])]
    BY <1>1, <1>4
  <2> QED
    BY <1>2, <2>1, AppendedTick, Parts
<1>6. /\ phase' \in [Tasks -> Phases] /\ phase'[t] = "late"
      /\ \A s \in Tasks : s # t => phase'[s] = phase[s]
  BY <1>1, <1>2, <1>4, Parts DEF TypeOK, Phases
<1>7. /\ timer' \in [Queues -> Tasks \cup {None}] /\ timer'[q] = None
      /\ \A r \in Queues : r # q => timer'[r] = timer[r]
  BY <1>1, Parts DEF TypeOK
<1>8. TypeOK' /\ CurrentAccepts'
  BY <1>1, <1>5, <1>6, <1>7, Parts DEF TypeOK, CurrentAccepts
<1>9. QueueHoldsWaiting'
  <2>1. \A r \in Queues : \A i \in 1..Len(queue[r]) : phase'[queue[r][i]] = "waiting"
    <3> SUFFICES ASSUME NEW r \in Queues, NEW i \in 1..Len(queue[r])
                 PROVE  phase'[queue[r][i]] = "waiting"
      OBVIOUS
    <3>1. queue[r] \in Seq(Tasks)
      BY Parts DEF TypeOK
    <3>2. queue[r][i] \in Tasks /\ phase[queue[r][i]] = "waiting"
      BY <3>1, Parts DEF QueueHoldsWaiting
    <3> QED
      BY <1>4, <1>6, <3>2
  <2> QED
    BY <1>1, <2>1, Parts DEF QueueHoldsWaiting
<1>10. IdsUnique'
  <2>1. \A s \in Tasks : Begun(s)' <=> Begun(s)
    BY <1>2, <1>4, <1>6 DEF Begun
  <2> QED
    BY <1>1, <2>1, Parts DEF IdsUnique
<1>11. \A s \in Tasks : phase'[s] = "running" => phase[s] = "running" /\ home[s] # q
  <2>1. \A s \in Tasks : phase[s] = "running" /\ home[s] = q => s = t
    BY <1>2, <1>4, Parts DEF IdsUnique, RunningIsCurrent, Begun
  <2> QED
    BY <1>2, <1>6, <2>1
<1>12. RunningIsCurrent'
  BY <1>1, <1>7, <1>11, Parts DEF RunningIsCurrent, TypeOK
<1>13. PendingIsOver'
  <2>1. NoneRuns(q)' /\ \A r \in Queues : NoneRuns(r) => NoneRuns(r)'
    BY <1>1, <1>11 DEF NoneRuns
  <2>2. \A r \in Queues : \A id : Pending(ticks'[r], id) => id <= curId'[r]
    BY <1>1, <1>2, <1>5, Parts
  <2> QED
    BY <1>1, <1>5, <2>1, <2>2, TicksBounded, Parts DEF PendingIsOver
<1>14. TimerIsCurrent'
  <2> SUFFICES ASSUME NEW r \in Queues, timer'[r] # None
               PROVE  /\ home[timer'[r]] = r
                      /\ taskId[timer'[r]] = curId[r]
                      /\ status[r] \in {"BUSY", "CLOSED"}
                      /\ \/ phase'[timer'[r]] = "running"
                         \/ phase'[timer'[r]] = "done" /\ Pending(ticks'[r], curId[r])
    BY <1>1 DEF TimerIsCurrent
  <2>1. r # q /\ timer'[r] = timer[r]
    BY <1>7
  <2>2. timer[r] \in Tasks
    BY <2>1, Parts DEF TypeOK
  <2>3. timer[r] # t
    BY <1>4, <2>1, Parts DEF TimerIsCurrent
  <2>4. Pending(ticks[r], curId[r]) => Pending(ticks'[r], curId[r])
    BY <1>5
  <2> QED
    BY <1>6, <2>1, <2>2, <2>3, <2>4, Parts DEF TimerIsCurrent
<1>15. NeverStalls'
  <2>1. Pending(ticks'[q], curId[q])
    BY <1>5
  <2>2. \A r \in Queues : Pending(ticks[r], curId[r]) => Pending(ticks'[r], curId[r])
    BY <1>5
  <2> QED
    BY <1>1, <1>7, <2>1, <2>2, Parts DEF NeverStalls
<1> QED
  BY <1>8, <1>9, <1>10, <1>12, <1>13, <1>14, <1>15 DEF IInv

LEMMA EndsStep == ASSUME IInv, NEW t \in Tasks, TaskEnds(t) PROVE IInv'
<1>0. PICK q \in Queues : home[t] = q
  BY Parts DEF TypeOK
<1>1. /\ phase[t] \in {"running", "late"}
      /\ phase' = [phase EXCEPT ![t] = "done"]
      /\ ticks' = [ticks EXCEPT ![q] = Append(@, taskId[t])]
      /\ UNCHANGED <<current, status, queue, curId, timer, home, taskId>>
  BY <1>0 DEF TaskEnds
<1>2. q \in Queues /\ home[t] = q /\ taskId[t] \in Nat /\ \A r \in Queues : curId[r] \in Nat
  BY <1>0, Parts DEF TypeOK
<1>3. /\ ticks' \in [Queues -> Seq(Nat)]
      /\ \A r \in Queues : \A id : Pending(ticks'[r], id)
             <=> Pending(ticks[r], id) \/ (r = q /\ id = taskId[t])
  <2>1. PICK n \in Nat : taskId[t] = n
    BY <1>2
  <2>2. ticks' = [ticks EXCEPT ![q] = Append(@, n)]
    BY <1>1, <2>1
  <2> QED
    BY <2>1, <2>2, AppendedTick, Parts
<1>4. /\ phase' \in [Tasks -> Phases] /\ phase'[t] = "done"
      /\ \A s \in Tasks : s # t => phase'[s] = phase[s]
  BY <1>1, Parts DEF TypeOK, Phases
<1>5. TypeOK' /\ CurrentAccepts'
  BY <1>1, <1>3, <1>4, Parts DEF TypeOK, CurrentAccepts
<1>6. QueueHoldsWaiting'
  <2>1. \A r \in Queues : \A i \in 1..Len(queue[r]) : phase'[queue[r][i]] = "waiting"
    <3> SUFFICES ASSUME NEW r \in Queues, NEW i \in 1..Len(queue[r])
                 PROVE  phase'[queue[r][i]] = "waiting"
      OBVIOUS
    <3>1. queue[r] \in Seq(Tasks)
      BY Parts DEF TypeOK
    <3>2. queue[r][i] \in Tasks /\ phase[queue[r][i]] = "waiting"
      BY <3>1, Parts DEF QueueHoldsWaiting
    <3> QED
      BY <1>1, <1>4, <3>2
  <2> QED
    BY <1>1, <2>1, Parts DEF QueueHoldsWaiting
<1>7. IdsUnique'
  <2>1. \A s \in Tasks : Begun(s)' <=> Begun(s)
    BY <1>1, <1>4 DEF Begun
  <2> QED
    BY <1>1, <2>1, Parts DEF IdsUnique
<1>8. \A s \in Tasks : phase'[s] = "running" => phase[s] = "running" /\ s # t
  BY <1>4
<1>9. RunningIsCurrent'
  BY <1>1, <1>8, Parts DEF RunningIsCurrent
<1>10. taskId[t] = curId[q] => NoneRuns(q)'
  <2> SUFFICES ASSUME taskId[t] = curId[q], NEW s \in Tasks, home[s] = q, phase'[s] = "running"
               PROVE  FALSE
    BY <1>1 DEF NoneRuns
  <2>1. phase[s] = "running" /\ s # t /\ taskId[s] = curId[q]
    BY <1>8, Parts DEF RunningIsCurrent
  <2> QED
    BY <1>1, <1>2, <2>1, Parts DEF IdsUnique, Begun
<1>11. PendingIsOver'
  <2>1. \A r \in Queues : NoneRuns(r) => NoneRuns(r)'
    BY <1>1, <1>8 DEF NoneRuns
  <2>2. taskId[t] <= curId[q]
    BY <1>1, <1>2, Parts DEF IdsUnique, Begun
  <2>3. \A r \in Queues : \A id : Pending(ticks'[r], id) => id <= curId'[r]
    BY <1>1, <1>3, <2>2, Parts
  <2> QED
    BY <1>1, <1>3, <1>10, <2>1, <2>3, TicksBounded, Parts DEF PendingIsOver
<1>12. TimerIsCurrent'
  <2> SUFFICES ASSUME NEW r \in Queues, timer[r] # None
               PROVE  /\ home[timer[r]] = r
                      /\ taskId[timer[r]] = curId[r]
                      /\ status[r] \in {"BUSY", "CLOSED"}
                      /\ \/ phase'[timer[r]] = "running"
                         \/ phase'[timer[r]] = "done" /\ Pending(ticks'[r], curId[r])
    BY <1>1 DEF TimerIsCurrent
  <2>1. timer[r] \in Tasks
    BY Parts DEF TypeOK
  <2>2. Pending(ticks[r], curId[r]) => Pending(ticks'[r], curId[r])
    BY <1>3
  <2>3. timer[r] = t => r = q /\ taskId[t] = curId[r] /\ Pending(ticks'[r], curId[r])
    BY <1>2, <1>3, Parts DEF TimerIsCurrent
  <2> QED
    BY <1>4, <2>1, <2>2, <2>3, Parts DEF TimerIsCurrent
<1>13. NeverStalls'
  <2>1. \A r \in Queues : Pending(ticks[r], curId[r]) => Pending(ticks'[r], curId[r])
    BY <1>3
  <2> QED
    BY <1>1, <2>1, Parts DEF NeverStalls
<1> QED
  BY <1>5, <1>6, <1>7, <1>9, <1>11, <1>12, <1>13 DEF IInv

LEMMA StepOK == IInv /\ [Next]_vars => IInv'
<1> SUFFICES ASSUME IInv, [Next]_vars PROVE IInv'
  OBVIOUS
<1>1. CASE UNCHANGED vars
  BY <1>1 DEF vars, queueVars, taskVars, IInv, TypeOK, CurrentAccepts, QueueHoldsWaiting,
     IdsUnique, RunningIsCurrent, PendingIsOver, TimerIsCurrent, NeverStalls, NoneRuns, Begun
<1>2. CASE Next
  BY <1>2, AddTaskStep, CloseStep, IgnoredStep, EmptyStep, BeginsStep, TimeoutStep, EndsStep
  DEF Next, NextTick
<1> QED
  BY <1>1, <1>2

-----------------------------------------------------------------------------
(* The results.                                                            *)

\* Queue contents, ids, timer and pending callbacks stay in step.
THEOREM Invariance == Spec => []IInv
BY InitOK, StepOK, PTL DEF Spec

\* Types are respected; task ids are natural numbers.
THEOREM TypeCorrect == Spec => []TypeOK
BY Invariance, PTL DEF IInv

\* Two tasks of a queue run together only if the earlier one overran.
THEOREM Sequential == Spec => []OneAtATime
<1>1. IInv => OneAtATime
  <2> SUFFICES ASSUME IInv, NEW q \in Queues, NEW s \in Tasks, NEW t \in Tasks,
                      home[s] = q, home[t] = q, phase[s] = "running", phase[t] = "running"
               PROVE  s = t
    BY DEF OneAtATime, Running
  <2>1. taskId[s] = curId[q] /\ taskId[t] = curId[q]
    BY Parts DEF RunningIsCurrent
  <2> QED
    BY <2>1, Parts DEF IdsUnique, Begun
<1> QED
  BY <1>1, Invariance, PTL

\* onTimeout is only called for a task that is still running.
THEOREM NoFalseTimeout == Spec => []TimeoutsAreReal
<1>1. IInv => TimeoutsAreReal
  <2> SUFFICES ASSUME IInv, NEW q \in Queues, timer[q] # None, ticks[q] = <<>>
               PROVE  phase[timer[q]] = "running"
    BY DEF TimeoutsAreReal
  <2>1. ~Pending(ticks[q], curId[q])
    BY DEF Pending
  <2> QED
    BY <2>1, Parts DEF TimerIsCurrent
<1> QED
  BY <1>1, Invariance, PTL

\* A queue with tasks left always has a callback or a timer that goes on with
\* them.
THEOREM WakeUpKept == Spec => []NeverStalls
BY Invariance, PTL DEF IInv

\* Timers and callbacks are right: no false timeout, no lost wake-up.
THEOREM TimersCorrect == Spec => []TasksTimed
BY NoFalseTimeout, WakeUpKept, PTL DEF TasksTimed

LEMMA GateChanged ==
    ASSUME status \in [Queues -> Statuses], NEW q \in Queues, NEW s \in Statuses,
           status' = [status EXCEPT ![q] = s]
    PROVE  [r \in Queues |-> GateOf[status'[r]]]
               = [[r \in Queues |-> GateOf[status[r]]] EXCEPT ![q] = GateOf[s]]
OBVIOUS

\* Each step of the queues is a step of TaskLine or leaves it as it is.
LEMMA LineStep == IInv /\ [Next]_vars => [Line!Next]_(Line!vars)
<1> DEFINE gate == [q \in Queues |-> GateOf[status[q]]]
<1> SUFFICES ASSUME IInv, [Next]_vars PROVE [Line!Next]_(Line!vars)
  OBVIOUS
<1>0. gate' = [q \in Queues |-> GateOf[status'[q]]]
  OBVIOUS
<1>1. ASSUME NEW t \in Tasks, AddTask(t) PROVE Line!Accept(home[t], t)
  <2>1. /\ home[t] \in Queues /\ phase[t] = "new"
        /\ status[home[t]] \in {"none", "IDLE", "BUSY"}
        /\ status' = [status EXCEPT ![home[t]] = "BUSY"] /\ status \in [Queues -> Statuses]
        /\ queue' = [queue EXCEPT ![home[t]] = Append(@, t)]
        /\ phase' = [phase EXCEPT ![t] = "waiting"] /\ UNCHANGED home
    BY <1>1, Parts DEF AddTask, CurrentAccepts, TypeOK
  <2>2. gate[home[t]] \in {"none", "open"}
    BY <2>1 DEF GateOf, Statuses
  <2>3. gate' = [gate EXCEPT ![home[t]] = "open"]
    BY <2>1 DEF GateOf, Statuses
  <2> QED
    BY <2>1, <2>2, <2>3 DEF Line!Accept
<1>2. ASSUME NEW q \in Queues, q = current, CloseForced PROVE Line!Clear(q)
  <2>1. /\ status[q] \in {"IDLE", "BUSY"}
        /\ status' = [status EXCEPT ![q] = "DRAINED"] /\ status \in [Queues -> Statuses]
        /\ UNCHANGED <<queue, home, phase>>
    BY <1>2, Parts DEF CloseForced, CurrentAccepts, TypeOK, taskVars
  <2>2. gate[q] = "open" /\ gate' = [gate EXCEPT ![q] = "cleared"]
    <3>1. "DRAINED" \in Statuses /\ GateOf["DRAINED"] = "cleared"
      BY DEF Statuses, GateOf
    <3>2. gate' = [gate EXCEPT ![q] = GateOf["DRAINED"]]
      BY <2>1, <3>1, GateChanged
    <3>3. gate[q] = "open"
      BY <2>1 DEF GateOf
    <3> QED
      BY <3>1, <3>2, <3>3
  <2> QED
    BY <2>1, <2>2 DEF Line!Clear
<1>3. ASSUME NEW q \in Queues, q = current, CloseGently PROVE Line!Close(q)
  <2>1. /\ status[q] \in {"IDLE", "BUSY"}
        /\ status' = [status EXCEPT ![q] = "CLOSED"] /\ status \in [Queues -> Statuses]
        /\ UNCHANGED <<queue, home, phase>>
    BY <1>3, Parts DEF CloseGently, CurrentAccepts, TypeOK, taskVars
  <2>2. gate[q] = "open" /\ gate' = [gate EXCEPT ![q] = "closed"]
    <3>1. "CLOSED" \in Statuses /\ GateOf["CLOSED"] = "closed"
      BY DEF Statuses, GateOf
    <3>2. gate' = [gate EXCEPT ![q] = GateOf["CLOSED"]]
      BY <2>1, <3>1, GateChanged
    <3>3. gate[q] = "open"
      BY <2>1 DEF GateOf
    <3> QED
      BY <3>1, <3>2, <3>3
  <2> QED
    BY <2>1, <2>2 DEF Line!Close
<1>4. ASSUME NEW q \in Queues, NextIgnored(q) \/ UNCHANGED vars PROVE UNCHANGED Line!vars
  BY <1>4 DEF NextIgnored, vars, queueVars, taskVars, Line!vars
<1>5. ASSUME NEW q \in Queues, NextEmpty(q) PROVE Line!Clear(q) \/ UNCHANGED Line!vars
  <2>1. status \in [Queues -> Statuses] /\ queue[q] = <<>> /\ UNCHANGED <<queue, home, phase>>
    BY <1>5, Parts DEF NextEmpty, taskVars, TypeOK
  <2>2. CASE status[q] = "BUSY" /\ status' = [status EXCEPT ![q] = "IDLE"]
    <3>1. gate' = gate
      BY <2>1, <2>2 DEF GateOf, Statuses
    <3> QED
      BY <2>1, <3>1 DEF Line!vars
  <2>3. CASE status[q] = "CLOSED" /\ status' = [status EXCEPT ![q] = "DRAINED"]
    <3>1. gate[q] = "closed" /\ gate' = [gate EXCEPT ![q] = "cleared"]
      <4>1. "DRAINED" \in Statuses /\ GateOf["DRAINED"] = "cleared"
        BY DEF Statuses, GateOf
      <4>2. gate' = [gate EXCEPT ![q] = GateOf["DRAINED"]]
        BY <2>1, <2>3, <4>1, GateChanged
      <4>3. gate[q] = "closed"
        BY <2>1, <2>3 DEF GateOf
      <4> QED
        BY <4>1, <4>2, <4>3
    <3> QED
      BY <2>1, <3>1 DEF Line!Clear
  <2> QED
    BY <1>5, <2>2, <2>3 DEF NextEmpty
<1>6. ASSUME NEW q \in Queues, NextBegins(q) PROVE Line!Begin(q)
  <2>1. /\ ticks[q] # <<>> /\ Head(ticks[q]) = curId[q] /\ status[q] \in {"BUSY", "CLOSED"}
        /\ queue[q] # <<>> /\ queue' = [queue EXCEPT ![q] = Tail(@)]
        /\ phase' = [phase EXCEPT ![Head(queue[q])] = "running"]
        /\ UNCHANGED <<status, home>>
    BY <1>6 DEF NextBegins, Valid
  <2>2. Pending(ticks[q], curId[q])
    <3>1. ticks[q] \in Seq(Nat)
      BY Parts DEF TypeOK
    <3>2. 1 \in 1..Len(ticks[q]) /\ ticks[q][1] = curId[q]
      BY <2>1, <3>1
    <3> QED
      BY <3>2 DEF Pending
  <2>3. Line!Running(q) = {}
    BY <2>1, <2>2, Parts DEF Line!Running, PendingIsOver, NoneRuns
  <2>4. queue[q] \in Seq(Tasks)
    BY Parts DEF TypeOK
  <2>5. Head(queue[q]) = queue[q][1] /\ 1 \in 1..Len(queue[q])
    BY <2>1, <2>4
  <2>6. phase[Head(queue[q])] = "waiting"
    BY <2>5, Parts DEF QueueHoldsWaiting
  <2>7. gate[q] \in {"open", "closed"} /\ gate' = gate
    BY <2>1 DEF GateOf, Statuses
  <2> QED
    BY <2>1, <2>3, <2>6, <2>7 DEF Line!Begin
<1>7. ASSUME NEW q \in Queues, Timeout(q) PROVE Line!Overrun(timer[q]) /\ timer[q] \in Tasks
  <2>1. timer[q] \in Tasks /\ ~Pending(ticks[q], curId[q]) /\ timer[q] # None
    BY <1>7, Parts DEF Timeout, TypeOK, Pending
  <2>2. phase[timer[q]] = "running"
    BY <2>1, Parts DEF TimerIsCurrent
  <2>3. gate' = gate
    BY <1>7 DEF Timeout
  <2> QED
    BY <1>7, <2>1, <2>2, <2>3 DEF Timeout, Line!Overrun
<1>8. ASSUME NEW t \in Tasks, TaskEnds(t) PROVE Line!End(t)
  <2>1. gate' = gate
    BY <1>8 DEF TaskEnds
  <2> QED
    BY <1>8, <2>1 DEF TaskEnds, Line!End
<1>9. CloseForced \/ CloseGently => current \in Queues
  BY Parts DEF CloseForced, CloseGently, TypeOK
<1>10. \A t \in Tasks : home[t] \in Queues
  BY Parts DEF TypeOK
<1>11. CASE UNCHANGED vars
  BY <1>11 DEF vars, queueVars, taskVars, Line!vars
<1>12. CASE Next
  <2>1. ASSUME NEW t \in Tasks, AddTask(t) \/ TaskEnds(t) PROVE Line!Next
    BY <1>1, <1>8, <1>10, <2>1 DEF Line!Next
  <2>2. ASSUME CloseForced \/ CloseGently PROVE Line!Next
    <3>1. PICK q \in Queues : q = current
      BY <1>9, <2>2
    <3> QED
      BY <1>2, <1>3, <2>2, <3>1 DEF Line!Next
  <2>3. ASSUME NEW q \in Queues, NextTick(q) PROVE Line!Next \/ UNCHANGED Line!vars
    BY <1>4, <1>5, <1>6, <2>3 DEF NextTick, Line!Next
  <2>4. ASSUME NEW q \in Queues, Timeout(q) PROVE Line!Next
    BY <1>7, <2>4 DEF Line!Next
  <2> QED
    BY <1>12, <2>1, <2>2, <2>3, <2>4 DEF Next
<1> QED
  BY <1>11, <1>12

\* The queues of a key implement the abstract line: order, each task once,
\* nothing after a forced close.
THEOREM ImplementsTaskLine == Spec => KeepsOrder
<1>1. Init => Line!Init
  BY DEF Init, Line!Init, GateOf
<1> QED
  BY <1>1, LineStep, Invariance, PTL DEF Spec, KeepsOrder, Line!Spec
=============================================================================
