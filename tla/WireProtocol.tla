---------------------------- MODULE WireProtocol ----------------------------
(***************************************************************************)
(* The bytes of packages and messages.  Routes are not compressed (no      *)
(* client fills its dictionary) and bodies are not zipped (nothing asks    *)
(* for it).  Ids stay below 2^31, where "<<" acts as on naturals.          *)
(* Text is a sequence of UTF-16 code units outside the surrogates.         *)
(***************************************************************************)
EXTENDS Naturals, Sequences

REQUEST == 0
NOTIFY == 1
RESPONSE == 2
PUSH == 3

DATA == 4

MaxId == 2147483647

HasId(type) == type \in {REQUEST, RESPONSE}
HasRoute(type) == type \in {REQUEST, NOTIFY, PUSH}

\* The bytes of a character.
CharBytes(c) ==
    IF c < 128 THEN <<c>>
    ELSE IF c < 2048 THEN <<192 + c \div 64, 128 + (c % 64)>>
    ELSE <<224 + c \div 4096, 128 + ((c \div 64) % 64), 128 + (c % 64)>>

\* strencode() and strdecode(), as the browser does them; a Buffer does the same.
StrEncode(text) ==
    LET From[k \in Nat \ {0}] == IF k > Len(text) THEN <<>> ELSE CharBytes(text[k]) \o From[k + 1]
    IN  From[1]

\* What shifts and masks make of a byte; past the end it counts as zero.
Byte(bytes, k) == IF k <= Len(bytes) THEN bytes[k] ELSE 0

\* The character that begins at a byte, and how many bytes it has.
CharAt(bytes, k) ==
    LET Low(j) == Byte(bytes, j) % 64 IN
    IF bytes[k] < 128 THEN bytes[k]
    ELSE IF bytes[k] < 224 THEN (bytes[k] % 32) * 64 + Low(k + 1)
    ELSE (bytes[k] % 16) * 4096 + Low(k + 1) * 64 + Low(k + 2)

CharSize(byte) == IF byte < 128 THEN 1 ELSE IF byte < 224 THEN 2 ELSE 3

StrDecode(bytes) ==
    LET From[k \in Nat \ {0}] ==
            IF k > Len(bytes) THEN <<>> ELSE <<CharAt(bytes, k)>> \o From[k + CharSize(bytes[k])]
    IN  From[1]

\* The message type, with the bits for compression clear.
Flag(type) == <<2 * type>>

RouteBytes(route) == <<Len(StrEncode(route)) % 256>> \o StrEncode(route)

\* Seven bits a byte, the lowest first; the top bit says that more follow.
IdBytes(id) ==
    LET From[n \in Nat] == IF n < 128 THEN <<n>> ELSE <<(n % 128) + 128>> \o From[n \div 128]
    IN  From[id]

\* Mutant: the loop ends at one.
IdLengthShort(id) ==
    LET From[n \in Nat] == IF n \div 128 <= 1 THEN 1 ELSE 1 + From[n \div 128]
    IN  From[id]

\* The length that is reserved for an id, by shifts.
IdLength(id) ==
    LET From[n \in Nat] == IF n \div 128 = 0 THEN 1 ELSE 1 + From[n \div 128]
    IN  From[id]

\* The id that begins at a byte.
IdAt(bytes, k) ==
    LET From[j \in Nat \ {0}] ==
            IF j > Len(bytes) THEN 0
            ELSE IF bytes[j] < 128 THEN bytes[j]
            ELSE (bytes[j] % 128) + 128 * From[j + 1]
    IN  From[k]

\* Where it ends.
IdEnd(bytes, k) ==
    CHOOSE last \in k .. Len(bytes) : bytes[last] < 128 /\ \A j \in k .. last - 1 : bytes[j] >= 128

\* The buffer has the length computed before; what is written past it is lost.
EncodeMessage(m) ==
    LET id == IF HasId(m.type) THEN IdBytes(m.id) ELSE <<>>
        route == IF HasRoute(m.type) THEN RouteBytes(m.route) ELSE <<>>
        length == 1 + (IF HasId(m.type) THEN IdLength(m.id) ELSE 0) + Len(route) + Len(m.body)
    IN  SubSeq(Flag(m.type) \o id \o route \o m.body, 1, length)

DecodeMessage(bytes) ==
    LET type == (bytes[1] \div 2) % 8
        id == IF HasId(type) THEN IdAt(bytes, 2) ELSE 0
        last == IF HasId(type) THEN IdEnd(bytes, 2) ELSE 1
        after == IF HasRoute(type) THEN last + 1 + bytes[last + 1] ELSE last
    IN  [type |-> type, id |-> id, route |-> StrDecode(SubSeq(bytes, last + 2, after)),
         body |-> SubSeq(bytes, after + 1, Len(bytes))]

EncodePackage(type, body) ==
    <<type, (Len(body) \div 65536) % 256, (Len(body) \div 256) % 256, Len(body) % 256>> \o body

\* The length of the body of the package that begins at a byte.
BodySize(bytes, o) ==
    Byte(bytes, o + 1) * 65536 + Byte(bytes, o + 2) * 256 + Byte(bytes, o + 3)

\* All the packages of a frame.
DecodePackages(bytes) ==
    LET From[o \in Nat \ {0}] ==
            IF o > Len(bytes) THEN <<>>
            ELSE <<[type |-> bytes[o], body |-> SubSeq(bytes, o + 4, o + 3 + BodySize(bytes, o))]>>
                 \o From[o + 4 + BodySize(bytes, o)]
    IN  From[1]
=============================================================================
