---------------------------- MODULE CodecProofs -----------------------------
(***************************************************************************)
(* Proofs about frames and payloads as bytes, for any number of values of  *)
(* a byte that leaves room for the flags, and for any header and text.     *)
(***************************************************************************)
EXTENDS Codec, SequenceTheorems, TLAPS

-----------------------------------------------------------------------------
(* Division. *)

LEMMA Division ==
  ASSUME NEW n \in Nat, NEW b \in Nat \ {0}
  PROVE  /\ n \div b \in Nat /\ n % b \in 0..(b - 1)
         /\ n = b * (n \div b) + (n % b)
OBVIOUS

\* A quotient is small when the number is.
LEMMA Quotient ==
  ASSUME NEW n \in Nat, NEW b \in Nat \ {0}, NEW c \in Nat, n < b * c
  PROVE  n \div b < c
<1>1. n \div b \in Nat /\ n % b \in 0..(b - 1) /\ n = b * (n \div b) + (n % b)
  BY Division
<1>2. SUFFICES ASSUME c <= n \div b PROVE FALSE
  BY <1>1
<1>3. PICK d \in Nat : n \div b = c + d
  BY <1>1, <1>2, (n \div b) - c \in Nat
<1>4. b * (c + d) = b * c + b * d /\ b * c \in Nat /\ b * d \in Nat
  OBVIOUS
<1> QED
  BY <1>1, <1>3, <1>4

\* There is only one remainder.
LEMMA Remainder ==
  ASSUME NEW q \in Nat, NEW b \in Nat \ {0}, NEW r \in 0..(b - 1)
  PROVE  (b * q + r) % b = r /\ (b * q + r) \div b = q
<1> DEFINE n == b * q + r
           p == n \div b
           m == n % b
<1>1. n \in Nat
  OBVIOUS
<1>2. p \in Nat /\ m \in 0..(b - 1) /\ n = b * p + m
  BY <1>1, Division
<1>3. p = q
  <2> HIDE DEF p, m
  <2>1. CASE p < q
    <3>1. PICK d \in Nat : q = p + 1 + d
      BY <1>2, <2>1, q - p - 1 \in Nat
    <3>2. b * q = b * p + b + b * d /\ b * d \in Nat /\ b * p \in Nat
      BY <3>1, <1>2
    <3> QED
      BY <1>2, <3>2
  <2>2. CASE q < p
    <3>1. PICK d \in Nat : p = q + 1 + d
      BY <1>2, <2>2, p - q - 1 \in Nat
    <3>2. b * p = b * q + b + b * d /\ b * d \in Nat /\ b * q \in Nat
      BY <3>1, <1>2
    <3> QED
      BY <1>2, <3>2
  <2> QED
    BY <1>2, <2>1, <2>2
<1> HIDE DEF p, m
<1>4. m = r
  BY <1>2, <1>3, b * q \in Nat
<1> QED
  BY <1>3, <1>4 DEF p, m

-----------------------------------------------------------------------------
(* Numbers. *)

LEMMA Sizes ==
  /\ Base \in Nat \ {0} /\ Base >= 8
  /\ Word \in Nat \ {0} /\ Word >= 64
  /\ DoubleWord \in Nat \ {0}
  /\ DoubleWord * DoubleWord \in Nat \ {0}
<1>1. Base \in Nat /\ Base >= 8
  BY CodecAssumption
<1>2. Base * Base \in Nat /\ Base * Base >= 64
  BY <1>1
<1>3. Word * Word \in Nat /\ Word * Word > 0
  BY <1>2 DEF Word
<1>4. DoubleWord * DoubleWord \in Nat /\ DoubleWord * DoubleWord > 0
  BY <1>3 DEF DoubleWord
<1> QED
  BY <1>1, <1>2, <1>3, <1>4 DEF Word, DoubleWord

\* Two digits of a number, of which the lower has b values.
LEMMA TwoDigits ==
  ASSUME NEW n \in Nat, NEW b \in Nat \ {0}
  PROVE  ((n \div b) % b) * b + (n % b) = n % (b * b)
<1> DEFINE q == n \div b
           r == n % b
           q1 == q \div b
           q0 == q % b
<1>1. q \in Nat /\ r \in 0..(b - 1) /\ n = b * q + r
  BY Division
<1>2. q1 \in Nat /\ q0 \in 0..(b - 1) /\ q = b * q1 + q0
  BY <1>1, Division
<1> HIDE DEF q, r, q1, q0
<1>3. b * q = (b * b) * q1 + b * q0
  BY <1>2
<1>4. b * q0 <= b * (b - 1) /\ b * q0 \in Nat
  BY <1>2
<1>5. b * (b - 1) = b * b - b /\ b * b \in Nat \ {0}
  OBVIOUS
<1>6. b * q0 + r \in 0..(b * b - 1)
  BY <1>1, <1>4, <1>5
<1>7. n = (b * b) * q1 + (b * q0 + r)
  BY <1>1, <1>2, <1>3, <1>4, <1>5, (b * b) * q1 \in Nat
<1>8. n % (b * b) = b * q0 + r
  BY <1>2, <1>5, <1>6, <1>7, Remainder
<1> QED
  BY <1>2, <1>8 DEF q0, q, r

-----------------------------------------------------------------------------
(* Bytes. *)

\* t stands at place i of s.
At(s, i, t) == \A k \in 1..Len(t) : s[i + k - 1] = t[k]

LEMMA Joined ==
  ASSUME NEW s \in Seq(Byte), NEW t \in Seq(Byte)
  PROVE  /\ s \o t \in Seq(Byte)
         /\ Len(s \o t) = Len(s) + Len(t)
         /\ \A k \in 1..Len(s) : (s \o t)[k] = s[k]
         /\ \A k \in 1..Len(t) : (s \o t)[Len(s) + k] = t[k]
<1>1. /\ s \o t \in Seq(Byte)
      /\ Len(s \o t) = Len(s) + Len(t)
      /\ \A i \in 1..(Len(s) + Len(t)) :
           (s \o t)[i] = IF i <= Len(s) THEN s[i] ELSE t[i - Len(s)]
  BY ConcatProperties
<1>2. Len(s) \in Nat /\ Len(t) \in Nat
  OBVIOUS
<1>3. ASSUME NEW k \in 1..Len(s) PROVE (s \o t)[k] = s[k]
  BY <1>1, <1>2
<1>4. ASSUME NEW k \in 1..Len(t) PROVE (s \o t)[Len(s) + k] = t[k]
  <2>1. /\ Len(s) + k \in 1..(Len(s) + Len(t)) /\ ~(Len(s) + k <= Len(s))
        /\ (Len(s) + k) - Len(s) = k
    BY <1>2
  <2> QED
    BY <1>1, <2>1
<1> QED
  BY <1>1, <1>3, <1>4

\* u is the part of s that begins at place i.
Part(s, i, u) ==
  u \in Seq(Byte) /\ i \in Nat \ {0} /\ At(s, i, u) /\ i + Len(u) <= Len(s) + 1

\* The parts of s, and t, are parts of their concatenation.
LEMMA Parts ==
  ASSUME NEW s \in Seq(Byte), NEW t \in Seq(Byte)
  PROVE  /\ s \o t \in Seq(Byte) /\ Len(s \o t) = Len(s) + Len(t)
         /\ Part(s \o t, Len(s) + 1, t)
         /\ \A u, i : Part(s, i, u) => Part(s \o t, i, u)
<1> DEFINE r == s \o t
<1>1. /\ r \in Seq(Byte) /\ Len(r) = Len(s) + Len(t)
      /\ \A k \in 1..Len(s) : r[k] = s[k]
      /\ \A k \in 1..Len(t) : r[Len(s) + k] = t[k]
  BY Joined
<1> HIDE DEF r
<1>2. Len(s) \in Nat /\ Len(t) \in Nat
  OBVIOUS
<1>3. Part(r, Len(s) + 1, t)
  <2>1. ASSUME NEW k \in 1..Len(t) PROVE r[Len(s) + 1 + k - 1] = t[k]
    BY <1>1, <1>2, Len(s) + 1 + k - 1 = Len(s) + k
  <2> QED
    BY <1>1, <1>2, <2>1 DEF Part, At
<1>4. ASSUME NEW u, NEW i, Part(s, i, u)
      PROVE  Part(r, i, u)
  <2>1. u \in Seq(Byte) /\ i \in Nat \ {0} /\ Len(u) \in Nat /\ i + Len(u) <= Len(s) + 1
    BY <1>4 DEF Part
  <2>2. ASSUME NEW k \in 1..Len(u) PROVE r[i + k - 1] = u[k]
    <3>1. i + k - 1 \in 1..Len(s)
      BY <1>2, <2>1
    <3>2. s[i + k - 1] = u[k]
      BY <1>4 DEF Part, At
    <3> QED
      BY <1>1, <3>1, <3>2
  <2> QED
    BY <1>1, <1>2, <2>1, <2>2 DEF Part, At
<1> QED
  BY <1>1, <1>3, <1>4 DEF r

\* And a part is what is cut out at its place.
LEMMA PartIsCut ==
  ASSUME NEW s, NEW u, NEW i, Part(s, i, u)
  PROVE  SubSeq(s, i, i + Len(u) - 1) = u
<1> DEFINE e == i + Len(u) - 1
           c == SubSeq(s, i, e)
<1>1. u \in Seq(Byte) /\ i \in Nat \ {0} /\ Len(u) \in Nat /\ e \in Int
  BY DEF Part
<1>2. \A k \in 1..Len(u) : u[k] \in Byte /\ s[i + k - 1] = u[k]
  BY DEF Part, At
<1>3. ASSUME NEW j \in i..e PROVE s[j] \in Byte
  <2>1. j - i + 1 \in 1..Len(u) /\ i + (j - i + 1) - 1 = j
    BY <1>1
  <2> QED
    BY <1>2, <2>1
<1> HIDE DEF e
<1>4. /\ c \in Seq(Byte) /\ Len(c) = IF i <= e THEN e - i + 1 ELSE 0
      /\ \A k \in 1..(e - i + 1) : c[k] = s[i + k - 1]
  BY <1>1, <1>3, SubSeqProperties
<1> HIDE DEF c
<1>5. Len(c) = Len(u) /\ e - i + 1 = Len(u)
  BY <1>1, <1>4 DEF e
<1>6. \A k \in 1..Len(c) : c[k] = u[k]
  BY <1>2, <1>4, <1>5
<1>7. c = u
  BY <1>1, <1>4, <1>5, <1>6, SeqEqual
<1> QED
  BY <1>7 DEF c, e

\* And the other way round.
LEMMA AtJoined ==
  ASSUME NEW s \in Seq(Byte), NEW t \in Seq(Byte),
         NEW b, NEW i \in Nat, At(b, i, s \o t)
  PROVE  At(b, i, s) /\ At(b, i + Len(s), t)
<1> DEFINE r == s \o t
<1>1. /\ Len(r) = Len(s) + Len(t)
      /\ \A k \in 1..Len(s) : r[k] = s[k]
      /\ \A k \in 1..Len(t) : r[Len(s) + k] = t[k]
  BY Joined
<1>2. Len(s) \in Nat /\ Len(t) \in Nat
  OBVIOUS
<1>3. At(b, i, r)
  OBVIOUS
<1> HIDE DEF r
<1>4. \A k \in 1..(Len(s) + Len(t)) : b[i + k - 1] = r[k]
  BY <1>1, <1>3 DEF At
<1>5. At(b, i, s)
  BY <1>1, <1>2, <1>4 DEF At
<1>6. ASSUME NEW k \in 1..Len(t) PROVE b[i + Len(s) + k - 1] = t[k]
  BY <1>1, <1>2, <1>4, Len(s) + k \in 1..(Len(s) + Len(t)),
     i + Len(s) + k - 1 = i + (Len(s) + k) - 1
<1> QED
  BY <1>5, <1>6 DEF At

LEMMA Bytes16 ==
  ASSUME NEW n \in Nat
  PROVE  /\ Be16(n) \in Seq(Byte) /\ Len(Be16(n)) = 2
         /\ \A s : \A i \in Nat : At(s, i, Be16(n)) => Value16(s, i) = n % Word
<1>1. n \div Base \in Nat /\ (n \div Base) % Base \in Byte /\ n % Base \in Byte
  BY Sizes, Division DEF Byte
<1>2. Be16(n) \in Seq(Byte) /\ Len(Be16(n)) = 2
  BY <1>1 DEF Be16
<1>3. ASSUME NEW s, NEW i \in Nat, At(s, i, Be16(n)) PROVE Value16(s, i) = n % Word
  <2>1. s[i + 1 - 1] = (n \div Base) % Base /\ s[i + 2 - 1] = n % Base
    BY <1>2, <1>3 DEF At, Be16
  <2>2. i + 1 - 1 = i /\ i + 2 - 1 = i + 1
    OBVIOUS
  <2>3. Value16(s, i) = ((n \div Base) % Base) * Base + (n % Base)
    BY <2>1, <2>2 DEF Value16
  <2> QED
    BY <2>3, TwoDigits, Sizes DEF Word
<1> QED
  BY <1>2, <1>3

LEMMA Bytes32 ==
  ASSUME NEW n \in Nat
  PROVE  /\ Be32(n) \in Seq(Byte) /\ Len(Be32(n)) = 4
         /\ \A s : \A i \in Nat : At(s, i, Be32(n)) => Value32(s, i) = n % DoubleWord
<1> DEFINE hi == Be16(n \div Word)
           lo == Be16(n)
<1>0. n \div Word \in Nat
  BY Sizes, Division
<1>1. /\ hi \in Seq(Byte) /\ Len(hi) = 2 /\ lo \in Seq(Byte) /\ Len(lo) = 2
      /\ Be32(n) = hi \o lo
  BY <1>0, Bytes16 DEF Be32
<1>2. ASSUME NEW s, NEW i \in Nat PROVE /\ At(s, i, hi) => Value16(s, i) = (n \div Word) % Word
                                        /\ At(s, i, lo) => Value16(s, i) = n % Word
  BY <1>0, Bytes16
<1> HIDE DEF hi, lo
<1>3. Be32(n) \in Seq(Byte) /\ Len(Be32(n)) = 4
  <2>1. hi \o lo \in Seq(Byte) /\ Len(hi \o lo) = Len(hi) + Len(lo)
    BY <1>1, Joined, Zenon
  <2> QED
    BY <1>1, <2>1
<1>4. ASSUME NEW s, NEW i \in Nat, At(s, i, Be32(n))
      PROVE  Value32(s, i) = n % DoubleWord
  <2>0. At(s, i, hi) /\ At(s, i + Len(hi), lo)
    BY <1>1, <1>4, AtJoined, Zenon
  <2>1. At(s, i, hi) /\ At(s, i + 2, lo)
    BY <1>1, <2>0
  <2>2. /\ Value16(s, i) = (n \div Word) % Word
        /\ Value16(s, i + 2) = n % Word
    BY <1>2, <2>1
  <2>3. Value32(s, i) = ((n \div Word) % Word) * Word + (n % Word)
    BY <2>2 DEF Value32
  <2> QED
    BY <2>3, TwoDigits, Sizes DEF DoubleWord
<1> QED
  BY <1>3, <1>4

LEMMA Bytes64 ==
  ASSUME NEW n \in Nat
  PROVE  /\ Be64(n) \in Seq(Byte) /\ Len(Be64(n)) = 8
         /\ \A s : \A i \in Nat :
              At(s, i, Be64(n)) => Value64(s, i) = n % (DoubleWord * DoubleWord)
<1> DEFINE hi == Be32(n \div DoubleWord)
           lo == Be32(n)
<1>0. n \div DoubleWord \in Nat
  BY Sizes, Division
<1>1. /\ hi \in Seq(Byte) /\ Len(hi) = 4 /\ lo \in Seq(Byte) /\ Len(lo) = 4
      /\ Be64(n) = hi \o lo
  BY <1>0, Bytes32 DEF Be64
<1>2. ASSUME NEW s, NEW i \in Nat
      PROVE  /\ At(s, i, hi) => Value32(s, i) = (n \div DoubleWord) % DoubleWord
             /\ At(s, i, lo) => Value32(s, i) = n % DoubleWord
  BY <1>0, Bytes32
<1> HIDE DEF hi, lo
<1>3. Be64(n) \in Seq(Byte) /\ Len(Be64(n)) = 8
  <2>1. hi \o lo \in Seq(Byte) /\ Len(hi \o lo) = Len(hi) + Len(lo)
    BY <1>1, Joined, Zenon
  <2> QED
    BY <1>1, <2>1
<1>4. ASSUME NEW s, NEW i \in Nat, At(s, i, Be64(n))
      PROVE  Value64(s, i) = n % (DoubleWord * DoubleWord)
  <2>0. At(s, i, hi) /\ At(s, i + Len(hi), lo)
    BY <1>1, <1>4, AtJoined, Zenon
  <2>1. At(s, i, hi) /\ At(s, i + 4, lo)
    BY <1>1, <2>0
  <2>2. /\ Value32(s, i) = (n \div DoubleWord) % DoubleWord
        /\ Value32(s, i + 4) = n % DoubleWord
    BY <1>2, <2>1
  <2>3. Value64(s, i) = ((n \div DoubleWord) % DoubleWord) * DoubleWord + (n % DoubleWord)
    BY <2>2 DEF Value64
  <2> QED
    BY <2>3, TwoDigits, Sizes
<1> QED
  BY <1>3, <1>4

-----------------------------------------------------------------------------
(* Headers. *)

\* Where each part of a header stands, whatever follows.
LEMMA Layout ==
  ASSUME NEW h \in Headers, NEW payload \in Seq(Byte)
  PROVE  LET s == Encode(h) \o payload
         IN  /\ Encode(h) \in Seq(Byte)
             /\ s \in Seq(Byte) /\ Len(s) = HeaderSize + Len(payload)
             /\ Part(s, 1, Magic) /\ Part(s, 5, <<Version, h.flags>>)
             /\ Part(s, 7, Be16(h.type)) /\ Part(s, 9, Be16(h.kind))
             /\ Part(s, 13, Be32(h.length)) /\ Part(s, 17, Be64(h.id))
             /\ Part(s, 25, payload)
<1> DEFINE flags == <<Version, h.flags>>
           type == Be16(h.type)
           kind == Be16(h.kind)
           reserved == Be16(0)
           length == Be32(h.length)
           id == Be64(h.id)
           a1 == Magic \o flags
           a2 == a1 \o type
           a3 == a2 \o kind
           a4 == a3 \o reserved
           a5 == a4 \o length
           a6 == a5 \o id
           a7 == a6 \o payload
<1>1. /\ h.type \in Nat /\ h.kind \in Nat /\ h.flags \in Byte /\ Version \in Byte
      /\ h.length \in Nat /\ h.id \in Nat
  <2>1. /\ h.type \in FrameTypes /\ h.kind \in MessageKinds /\ h.flags \in AllFlags
        /\ h.length \in 0..(DoubleWord - 1) /\ h.id \in 0..(DoubleWord * DoubleWord - 1)
    BY DEF Headers
  <2>2. FrameTypes \subseteq 1..10
    BY DEF FrameTypes, FrameType
  <2>3. MessageKinds \subseteq 1..5
    BY DEF MessageKinds, MessageKind
  <2>4. h.length \in Nat /\ h.id \in Nat
    <3>1. DoubleWord \in Nat /\ DoubleWord * DoubleWord \in Nat
      BY Sizes
    <3>2. \A m \in Nat : 0..(m - 1) \subseteq Nat
      OBVIOUS
    <3> QED
      BY <2>1, <3>1, <3>2, Zenon
  <2>5. h.flags \in Byte /\ Version \in Byte
    <3>1. h.flags \in 0..7
      BY <2>1 DEF AllFlags
    <3>2. Base \in Nat /\ Base >= 8
      BY Sizes
    <3> QED
      BY <3>1, <3>2 DEF Byte, Version
  <2>6. h.type \in Nat /\ h.kind \in Nat
    <3>1. h.type \in 1..10 /\ h.kind \in 1..5
      BY <2>1, <2>2, <2>3, Zenon
    <3> QED
      BY <3>1
  <2> QED
    BY <2>4, <2>5, <2>6, Zenon
<1>2. Magic \in Seq(Byte) /\ Len(Magic) = 4 /\ Part(Magic, 1, Magic)
  <2>1. 77 % Base \in Byte /\ 83 % Base \in Byte /\ 73 % Base \in Byte /\ 80 % Base \in Byte
    BY Sizes DEF Byte
  <2>2. Magic \in Seq(Byte) /\ Len(Magic) = 4
    BY <2>1 DEF Magic
  <2> QED
    BY <2>2 DEF Part, At
<1>3. flags \in Seq(Byte) /\ Len(flags) = 2
  BY <1>1
<1>4. /\ type \in Seq(Byte) /\ Len(type) = 2 /\ kind \in Seq(Byte) /\ Len(kind) = 2
      /\ reserved \in Seq(Byte) /\ Len(reserved) = 2
      /\ length \in Seq(Byte) /\ Len(length) = 4 /\ id \in Seq(Byte) /\ Len(id) = 8
  BY <1>1, Bytes16, Bytes32, Bytes64
<1>5. Encode(h) = a6
  BY DEF Encode
<1> HIDE DEF flags, type, kind, reserved, length, id
<1>6. a1 \in Seq(Byte) /\ Len(a1) = 6 /\ Part(a1, 1, Magic) /\ Part(a1, 5, flags)
  <2>1. /\ a1 \in Seq(Byte) /\ Len(a1) = Len(Magic) + Len(flags)
        /\ Part(a1, Len(Magic) + 1, flags)
    BY <1>2, <1>3, Parts, Zenon
  <2>2. Part(a1, 1, Magic)
    BY <1>2, <1>3, Parts, Zenon
  <2> QED
    BY <1>2, <1>3, <2>1, <2>2
<1> HIDE DEF a1
<1>7. /\ a2 \in Seq(Byte) /\ Len(a2) = 8 /\ Part(a2, 1, Magic) /\ Part(a2, 5, flags)
      /\ Part(a2, 7, type)
  <2>1. /\ a2 \in Seq(Byte) /\ Len(a2) = Len(a1) + Len(type)
        /\ Part(a2, Len(a1) + 1, type)
    BY <1>6, <1>4, Parts, Zenon
  <2>2. Part(a2, 1, Magic) /\ Part(a2, 5, flags)
    BY <1>6, <1>4, Parts, Zenon
  <2> QED
    BY <1>6, <1>4, <2>1, <2>2
<1> HIDE DEF a2
<1>8. /\ a3 \in Seq(Byte) /\ Len(a3) = 10 /\ Part(a3, 1, Magic) /\ Part(a3, 5, flags)
      /\ Part(a3, 7, type) /\ Part(a3, 9, kind)
  <2>1. /\ a3 \in Seq(Byte) /\ Len(a3) = Len(a2) + Len(kind)
        /\ Part(a3, Len(a2) + 1, kind)
    BY <1>7, <1>4, Parts, Zenon
  <2>2. Part(a3, 1, Magic) /\ Part(a3, 5, flags) /\ Part(a3, 7, type)
    BY <1>7, <1>4, Parts, Zenon
  <2> QED
    BY <1>7, <1>4, <2>1, <2>2
<1> HIDE DEF a3
<1>9. /\ a4 \in Seq(Byte) /\ Len(a4) = 12 /\ Part(a4, 1, Magic) /\ Part(a4, 5, flags)
      /\ Part(a4, 7, type) /\ Part(a4, 9, kind)
  <2>1. /\ a4 \in Seq(Byte) /\ Len(a4) = Len(a3) + Len(reserved)
        /\ Part(a4, Len(a3) + 1, reserved)
    BY <1>8, <1>4, Parts, Zenon
  <2>2. /\ Part(a4, 1, Magic) /\ Part(a4, 5, flags) /\ Part(a4, 7, type)
        /\ Part(a4, 9, kind)
    BY <1>8, <1>4, Parts, Zenon
  <2> QED
    BY <1>8, <1>4, <2>1, <2>2
<1> HIDE DEF a4
<1>10. /\ a5 \in Seq(Byte) /\ Len(a5) = 16 /\ Part(a5, 1, Magic) /\ Part(a5, 5, flags)
       /\ Part(a5, 7, type) /\ Part(a5, 9, kind) /\ Part(a5, 13, length)
  <2>1. /\ a5 \in Seq(Byte) /\ Len(a5) = Len(a4) + Len(length)
        /\ Part(a5, Len(a4) + 1, length)
    BY <1>9, <1>4, Parts, Zenon
  <2>2. /\ Part(a5, 1, Magic) /\ Part(a5, 5, flags) /\ Part(a5, 7, type)
        /\ Part(a5, 9, kind)
    BY <1>9, <1>4, Parts, Zenon
  <2> QED
    BY <1>9, <1>4, <2>1, <2>2
<1> HIDE DEF a5
<1>11. /\ a6 \in Seq(Byte) /\ Len(a6) = 24 /\ Part(a6, 1, Magic) /\ Part(a6, 5, flags)
       /\ Part(a6, 7, type) /\ Part(a6, 9, kind) /\ Part(a6, 13, length)
       /\ Part(a6, 17, id)
  <2>1. /\ a6 \in Seq(Byte) /\ Len(a6) = Len(a5) + Len(id)
        /\ Part(a6, Len(a5) + 1, id)
    BY <1>10, <1>4, Parts, Zenon
  <2>2. /\ Part(a6, 1, Magic) /\ Part(a6, 5, flags) /\ Part(a6, 7, type)
        /\ Part(a6, 9, kind) /\ Part(a6, 13, length)
    BY <1>10, <1>4, Parts, Zenon
  <2> QED
    BY <1>10, <1>4, <2>1, <2>2
<1> HIDE DEF a6
<1>12. Len(payload) \in Nat
  OBVIOUS
<1>13. /\ a7 \in Seq(Byte) /\ Len(a7) = 24 + Len(payload) /\ Part(a7, 1, Magic)
       /\ Part(a7, 5, flags) /\ Part(a7, 7, type) /\ Part(a7, 9, kind)
       /\ Part(a7, 13, length) /\ Part(a7, 17, id) /\ Part(a7, 25, payload)
  <2>1. /\ a7 \in Seq(Byte) /\ Len(a7) = Len(a6) + Len(payload)
        /\ Part(a7, Len(a6) + 1, payload)
    BY <1>11, <1>12, Parts, Zenon
  <2>2. /\ Part(a7, 1, Magic) /\ Part(a7, 5, flags) /\ Part(a7, 7, type)
        /\ Part(a7, 9, kind) /\ Part(a7, 13, length) /\ Part(a7, 17, id)
    BY <1>11, <1>12, Parts, Zenon
  <2> QED
    BY <1>11, <1>12, <2>1, <2>2
<1> QED
  BY <1>5, <1>11, <1>13, Zenon DEF HeaderSize, flags, type, kind, length, id

\* A number that fits is not cut.
LEMMA Fitting ==
  ASSUME NEW b \in Nat \ {0}, NEW n \in 0..(b - 1)
  PROVE  n \in Nat /\ n % b = n
<1>1. (b * 0 + n) % b = n
  BY Remainder
<1> QED
  BY <1>1, b * 0 = 0

\* The numbers of a header, read at their places.
LEMMA Fields ==
  ASSUME NEW h \in Headers, NEW payload \in Seq(Byte)
  PROVE  LET s == Encode(h) \o payload
         IN  /\ s[5] = Version /\ s[6] = h.flags
             /\ Value16(s, 7) = h.type /\ Value16(s, 9) = h.kind
             /\ Value32(s, 13) = h.length /\ Value64(s, 17) = h.id
             /\ SubSeq(s, 1, 4) = Magic /\ SubSeq(s, 25, 24 + Len(payload)) = payload
<1> DEFINE s == Encode(h) \o payload
<1>1. /\ Part(s, 1, Magic) /\ Part(s, 5, <<Version, h.flags>>)
      /\ Part(s, 7, Be16(h.type)) /\ Part(s, 9, Be16(h.kind))
      /\ Part(s, 13, Be32(h.length)) /\ Part(s, 17, Be64(h.id))
      /\ Part(s, 25, payload)
  BY Layout
<1> HIDE DEF s
<1>2. /\ h.type \in FrameTypes /\ h.kind \in MessageKinds
      /\ h.length \in 0..(DoubleWord - 1) /\ h.id \in 0..(DoubleWord * DoubleWord - 1)
  BY DEF Headers
<1>3. h.type \in 0..(Word - 1) /\ h.kind \in 0..(Word - 1)
  <2>1. h.type \in 1..10
    BY <1>2 DEF FrameTypes, FrameType
  <2>2. h.kind \in 1..5
    BY <1>2 DEF MessageKinds, MessageKind
  <2> QED
    BY <2>1, <2>2, Sizes
<1>4. /\ h.type \in Nat /\ h.type % Word = h.type
      /\ h.kind \in Nat /\ h.kind % Word = h.kind
      /\ h.length \in Nat /\ h.length % DoubleWord = h.length
      /\ h.id \in Nat /\ h.id % (DoubleWord * DoubleWord) = h.id
  BY <1>2, <1>3, Sizes, Fitting, Zenon
<1>5. s[5] = Version /\ s[6] = h.flags
  <2>1. /\ 1 \in 1..Len(<<Version, h.flags>>) /\ 2 \in 1..Len(<<Version, h.flags>>)
        /\ <<Version, h.flags>>[1] = Version /\ <<Version, h.flags>>[2] = h.flags
    OBVIOUS
  <2> QED
    BY <1>1, <2>1, 5 + 1 - 1 = 5, 5 + 2 - 1 = 6 DEF Part, At
<1>6. At(s, 7, Be16(h.type)) /\ At(s, 9, Be16(h.kind)) /\ At(s, 13, Be32(h.length))
      /\ At(s, 17, Be64(h.id))
  BY <1>1 DEF Part
<1>7. Value16(s, 7) = h.type /\ Value16(s, 9) = h.kind
  BY <1>4, <1>6, Bytes16
<1>8. Value32(s, 13) = h.length
  BY <1>4, <1>6, Bytes32
<1>9. Value64(s, 17) = h.id
  BY <1>4, <1>6, Bytes64
<1>10. SubSeq(s, 1, 4) = Magic
  <2>1. SubSeq(s, 1, 1 + Len(Magic) - 1) = Magic
    BY <1>1, PartIsCut
  <2>2. 1 + Len(Magic) - 1 = 4
    BY DEF Magic
  <2> QED
    BY <2>1, <2>2, Zenon
<1>11. SubSeq(s, 25, 24 + Len(payload)) = payload
  <2>1. SubSeq(s, 25, 25 + Len(payload) - 1) = payload
    BY <1>1, PartIsCut
  <2>2. 25 + Len(payload) - 1 = 24 + Len(payload)
    OBVIOUS
  <2> QED
    BY <2>1, <2>2, Zenon
<1> QED
  BY <1>5, <1>7, <1>8, <1>9, <1>10, <1>11 DEF s

(***************************************************************************)
(* What encode() writes, every client decodes, and reads the header that   *)
(* was written, whatever payload follows.                                  *)
(***************************************************************************)
THEOREM HeaderIsRead ==
  ASSUME NEW h \in Headers, NEW payload \in Seq(Byte),
         NEW client \in {"rust", "python", "ts"}
  PROVE  /\ Decodable(client, Encode(h) \o payload)
         /\ Decode(client, Encode(h) \o payload) = h
<1> DEFINE s == Encode(h) \o payload
<1>1. /\ s[5] = Version /\ s[6] = h.flags
      /\ Value16(s, 7) = h.type /\ Value16(s, 9) = h.kind
      /\ Value32(s, 13) = h.length /\ Value64(s, 17) = h.id
      /\ SubSeq(s, 1, 4) = Magic
  BY Fields
<1> HIDE DEF s
<1>2. /\ h.type \in FrameTypes /\ h.kind \in MessageKinds /\ h.flags \in 0..7
      /\ h = [type |-> h.type, kind |-> h.kind, flags |-> h.flags,
              length |-> h.length, id |-> h.id]
  BY DEF Headers, AllFlags
<1>3. h.flags % 8 = h.flags
  BY <1>2
<1>4. Decodable(client, s)
  BY <1>1, <1>2 DEF Decodable
<1>5. Decode(client, s) = h
  BY <1>1, <1>2, <1>3, Zenon DEF Decode
<1> QED
  BY <1>4, <1>5 DEF s

(***************************************************************************)
(* A client that reads a stream waits for exactly the frame: it has come   *)
(* when the bytes of its header and its payload have, and with fewer it    *)
(* has not.                                                                *)
(***************************************************************************)
THEOREM FrameEnds ==
  ASSUME NEW h \in Headers, NEW payload \in Seq(Byte), Len(payload) = h.length,
         NEW rest \in Seq(Byte)
  PROVE  LET s == Encode(h) \o (payload \o rest)
         IN  /\ Whole(s)
             /\ SubSeq(s, HeaderSize + 1, HeaderSize + Value32(s, 13)) = payload
             /\ \A n \in 0..(HeaderSize + h.length - 1) : ~Whole(SubSeq(s, 1, n))
<1> DEFINE more == payload \o rest
           s == Encode(h) \o more
<1>1. more \in Seq(Byte) /\ Len(more) = Len(payload) + Len(rest)
  BY Joined
<1>2. Part(more, 1, payload)
  <2>1. \A k \in 1..Len(payload) : more[k] = payload[k]
    BY Joined
  <2>2. Len(payload) \in Nat /\ Len(rest) \in Nat
    OBVIOUS
  <2> HIDE DEF more
  <2> QED
    BY <1>1, <2>1, <2>2 DEF Part, At
<1> HIDE DEF more
<1>3. /\ s \in Seq(Byte) /\ Len(s) = HeaderSize + Len(more) /\ Part(s, 25, more)
  BY <1>1, Layout
<1>4. Value32(s, 13) = h.length
  BY <1>1, Fields
<1> HIDE DEF s
<1>5. Len(payload) \in Nat /\ Len(rest) \in Nat /\ h.length \in Nat
  OBVIOUS
<1>6. Whole(s)
  BY <1>1, <1>3, <1>4, <1>5 DEF Whole, HeaderSize
<1>7. Part(s, 25, payload)
  <2>1. ASSUME NEW k \in 1..Len(payload) PROVE s[25 + k - 1] = payload[k]
    <3>1. more[k] = payload[k]
      BY <1>2 DEF Part, At
    <3>2. k \in 1..Len(more)
      BY <1>1, <1>5
    <3> QED
      BY <1>3, <3>1, <3>2 DEF Part, At
  <2> QED
    BY <1>1, <1>3, <1>5, <2>1 DEF Part, At, HeaderSize
<1>8. SubSeq(s, HeaderSize + 1, HeaderSize + Value32(s, 13)) = payload
  <2>1. SubSeq(s, 25, 25 + Len(payload) - 1) = payload
    BY <1>7, PartIsCut
  <2>2. HeaderSize + 1 = 25 /\ HeaderSize + Value32(s, 13) = 25 + Len(payload) - 1
    BY <1>4, <1>5 DEF HeaderSize
  <2> QED
    BY <2>1, <2>2, Zenon
<1>9. ASSUME NEW n \in 0..(HeaderSize + h.length - 1) PROVE ~Whole(SubSeq(s, 1, n))
  <2> DEFINE c == SubSeq(s, 1, n)
  <2>1. n \in Nat /\ n < HeaderSize + h.length /\ n <= Len(s)
    BY <1>1, <1>3, <1>5 DEF HeaderSize
  <2>2. \A j \in 1..n : s[j] \in Byte
    BY <1>3, <2>1
  <2>3. Len(c) = (IF 1 <= n THEN n - 1 + 1 ELSE 0) /\ \A k \in 1..(n - 1 + 1) : c[k] = s[1 + k - 1]
    BY <2>1, <2>2, SubSeqProperties
  <2> HIDE DEF c
  <2>4. Len(c) = n /\ \A k \in 1..n : c[k] = s[k]
    BY <2>1, <2>3
  <2>5. CASE n < HeaderSize
    BY <2>1, <2>4, <2>5 DEF Whole, HeaderSize, c
  <2>6. CASE n >= HeaderSize
    <3>1. c[13] = s[13] /\ c[14] = s[14] /\ c[15] = s[15] /\ c[16] = s[16]
      BY <2>1, <2>4, <2>6 DEF HeaderSize
    <3>2. Value32(c, 13) = Value32(s, 13)
      <4>1. 13 + 1 = 14 /\ 13 + 2 = 15 /\ 15 + 1 = 16
        OBVIOUS
      <4> QED
        BY <3>1, <4>1, Zenon DEF Value32, Value16
    <3>3. ~(Len(c) >= HeaderSize + Value32(c, 13))
      BY <1>4, <1>5, <2>1, <2>4, <3>2 DEF HeaderSize
    <3> QED
      BY <3>3 DEF Whole, c
  <2> QED
    BY <2>1, <2>5, <2>6 DEF HeaderSize
<1> QED
  BY <1>6, <1>8, <1>9 DEF s, more

-----------------------------------------------------------------------------
(* Messages. *)

\* Where the parts of a PUBLISH stand, and the length that is read of its topic.
LEMMA PublishLayout ==
  ASSUME NEW topic \in Seq(Byte), NEW message \in Seq(Byte)
  PROVE  LET p == PublishPayload(topic, message)
         IN  /\ p \in Seq(Byte) /\ Len(p) = 2 + Len(topic) + Len(message)
             /\ Part(p, 3, topic) /\ Part(p, 3 + Len(topic), message)
             /\ Value16(p, 1) = Len(topic) % Word
<1> DEFINE n == Be16(Len(topic))
           a == n \o topic
           p == a \o message
<1>1. Len(topic) \in Nat /\ Len(message) \in Nat
  OBVIOUS
<1>2. /\ n \in Seq(Byte) /\ Len(n) = 2
      /\ \A s : \A i \in Nat : At(s, i, n) => Value16(s, i) = Len(topic) % Word
  BY <1>1, Bytes16
<1>3. PublishPayload(topic, message) = p
  BY DEF PublishPayload
<1> HIDE DEF n
<1>4. Part(n, 1, n)
  BY <1>2 DEF Part, At
<1>5. /\ a \in Seq(Byte) /\ Len(a) = 2 + Len(topic)
      /\ Part(a, 1, n) /\ Part(a, 3, topic)
  <2>1. /\ a \in Seq(Byte) /\ Len(a) = Len(n) + Len(topic)
        /\ Part(a, Len(n) + 1, topic) /\ Part(a, 1, n)
    BY <1>2, <1>4, Parts, Zenon
  <2> QED
    BY <1>2, <2>1
<1> HIDE DEF a
<1>6. /\ p \in Seq(Byte) /\ Len(p) = 2 + Len(topic) + Len(message)
      /\ Part(p, 1, n) /\ Part(p, 3, topic) /\ Part(p, 3 + Len(topic), message)
  <2>1. /\ p \in Seq(Byte) /\ Len(p) = Len(a) + Len(message)
        /\ Part(p, Len(a) + 1, message) /\ Part(p, 1, n) /\ Part(p, 3, topic)
    BY <1>5, Parts, Zenon
  <2>2. Len(a) + 1 = 3 + Len(topic)
    BY <1>1, <1>5
  <2> QED
    BY <1>1, <1>5, <2>1, <2>2, Zenon
<1> HIDE DEF p
<1>7. Value16(p, 1) = Len(topic) % Word
  BY <1>2, <1>6 DEF Part
<1> QED
  BY <1>3, <1>6, <1>7

(***************************************************************************)
(* The message that was published is the one that is read, when the length *)
(* of its topic fits its field: which TypeScript and Python see to.        *)
(***************************************************************************)
THEOREM MessageIsRead ==
  ASSUME NEW topic \in Seq(Byte), NEW message \in Seq(Byte), Len(topic) < Word
  PROVE  Messages(PublishPayload(topic, message)) =
           {[topic |-> topic, message |-> message]}
<1> DEFINE p == PublishPayload(topic, message)
<1>1. /\ p \in Seq(Byte) /\ Len(p) = 2 + Len(topic) + Len(message)
      /\ Part(p, 3, topic) /\ Part(p, 3 + Len(topic), message)
      /\ Value16(p, 1) = Len(topic) % Word
  BY PublishLayout
<1> HIDE DEF p
<1>2. Len(topic) \in Nat /\ Len(message) \in Nat
  OBVIOUS
<1>3. Value16(p, 1) = Len(topic)
  BY <1>1, <1>2, Sizes, Fitting, Len(topic) \in 0..(Word - 1)
<1>4. SubSeq(p, 3, 2 + Len(topic)) = topic
  <2>1. SubSeq(p, 3, 3 + Len(topic) - 1) = topic
    BY <1>1, PartIsCut
  <2>2. 3 + Len(topic) - 1 = 2 + Len(topic)
    BY <1>2
  <2> QED
    BY <2>1, <2>2, Zenon
<1>5. SubSeq(p, 3 + Len(topic), Len(p)) = message
  <2>1. SubSeq(p, 3 + Len(topic), 3 + Len(topic) + Len(message) - 1) = message
    BY <1>1, PartIsCut
  <2>2. 3 + Len(topic) + Len(message) - 1 = Len(p)
    BY <1>1, <1>2
  <2> QED
    BY <2>1, <2>2, Zenon
<1>6. ~(Len(p) < 2 \/ Len(p) < 2 + Len(topic))
  BY <1>1, <1>2
<1> QED
  BY <1>3, <1>4, <1>5, <1>6, Zenon DEF Messages, p

\* The end of a part, and the part behind it, are one part.
LEMMA EndAndNext ==
  ASSUME NEW s \in Seq(Byte), NEW t \in Seq(Byte), NEW u \in Seq(Byte),
         NEW i \in Nat \ {0}, NEW n \in 0..Len(t),
         Part(s, i, t), Part(s, i + Len(t), u)
  PROVE  Part(s, i + n, SubSeq(t, n + 1, Len(t)) \o u)
<1> DEFINE e == SubSeq(t, n + 1, Len(t))
           r == e \o u
<1>1. Len(t) \in Nat /\ Len(u) \in Nat /\ Len(s) \in Nat /\ n \in Nat
  OBVIOUS
<1>2. /\ e \in Seq(Byte) /\ Len(e) = Len(t) - n
      /\ \A k \in 1..(Len(t) - n) : e[k] = t[n + k]
  <2>1. \A k \in (n + 1)..Len(t) : t[k] \in Byte
    BY <1>1
  <2>2. /\ e \in Seq(Byte)
        /\ Len(e) = IF n + 1 <= Len(t) THEN Len(t) - (n + 1) + 1 ELSE 0
        /\ \A k \in 1..(Len(t) - (n + 1) + 1) : e[k] = t[(n + 1) + k - 1]
    BY <1>1, <2>1, SubSeqProperties
  <2> HIDE DEF e
  <2>3. ASSUME NEW k \in 1..(Len(t) - n) PROVE e[k] = t[n + k]
    <3>1. k \in 1..(Len(t) - (n + 1) + 1) /\ (n + 1) + k - 1 = n + k
      BY <1>1
    <3> QED
      BY <2>2, <3>1
  <2> QED
    BY <1>1, <2>2, <2>3
<1> HIDE DEF e
<1>3. /\ r \in Seq(Byte) /\ Len(r) = Len(e) + Len(u)
      /\ \A k \in 1..Len(e) : r[k] = e[k]
      /\ \A k \in 1..Len(u) : r[Len(e) + k] = u[k]
  BY <1>2, Joined
<1> HIDE DEF r
<1>4. ASSUME NEW k \in 1..Len(r) PROVE s[i + n + k - 1] = r[k]
  <2>1. CASE k <= Len(t) - n
    <3>1. n + k \in 1..Len(t) /\ i + (n + k) - 1 = i + n + k - 1 /\ k \in 1..Len(e)
          /\ k \in 1..(Len(t) - n)
      BY <1>1, <1>2, <2>1
    <3>2. s[i + (n + k) - 1] = t[n + k]
      BY <3>1 DEF Part, At
    <3> QED
      BY <1>2, <1>3, <3>1, <3>2
  <2>2. CASE k > Len(t) - n
    <3> DEFINE j == k - (Len(t) - n)
    <3>1. /\ j \in 1..Len(u) /\ Len(e) + j = k
          /\ (i + Len(t)) + j - 1 = i + n + k - 1
      BY <1>1, <1>2, <1>3, <2>2
    <3> HIDE DEF j
    <3>2. s[(i + Len(t)) + j - 1] = u[j]
      BY <3>1 DEF Part, At
    <3> QED
      BY <1>3, <3>1, <3>2
  <2> QED
    BY <1>1, <2>1, <2>2
<1>5. i + n \in Nat \ {0} /\ (i + n) + Len(r) <= Len(s) + 1
  BY <1>1, <1>2, <1>3 DEF Part
<1>6. Part(s, i + n, r)
  BY <1>3, <1>4, <1>5 DEF Part, At
<1> QED
  BY <1>6 DEF r, e

(***************************************************************************)
(* What the Rust client, which cuts the length to 16 bits, makes of a      *)
(* topic of any length: one message is read.  Its topic is the beginning   *)
(* of the one that was published, as long as the cut length says; what is  *)
(* left of the topic is read in front of the message.                      *)
(***************************************************************************)
THEOREM LongTopicIsCut ==
  ASSUME NEW topic \in Seq(Byte), NEW message \in Seq(Byte)
  PROVE  LET n == Len(topic) % Word
         IN  Messages(PublishPayload(topic, message)) =
               {[topic |-> SubSeq(topic, 1, n),
                 message |-> SubSeq(topic, n + 1, Len(topic)) \o message]}
<1> DEFINE p == PublishPayload(topic, message)
           n == Len(topic) % Word
           left == SubSeq(topic, n + 1, Len(topic)) \o message
<1>1. /\ p \in Seq(Byte) /\ Len(p) = 2 + Len(topic) + Len(message)
      /\ Part(p, 3, topic) /\ Part(p, 3 + Len(topic), message) /\ Value16(p, 1) = n
  BY PublishLayout
<1>2. Len(topic) \in Nat /\ Len(message) \in Nat
  OBVIOUS
<1>3. n \in Nat /\ n <= Len(topic)
  <2> DEFINE q == Len(topic) \div Word
  <2>1. q \in Nat /\ n \in 0..(Word - 1) /\ Len(topic) = Word * q + n
    BY <1>2, Sizes, Division
  <2> HIDE DEF q, n
  <2> QED
    BY <2>1, Sizes, Word * q \in Nat
<1> HIDE DEF p, n
<1>4. ~(Len(p) < 2 \/ Len(p) < 2 + n)
  BY <1>1, <1>2, <1>3
<1>5. Messages(p) = {[topic |-> SubSeq(p, 3, 2 + n), message |-> SubSeq(p, 3 + n, Len(p))]}
  BY <1>1, <1>4, Zenon DEF Messages
<1>6. SubSeq(p, 3, 2 + n) = SubSeq(topic, 1, n)
  <2> DEFINE t == SubSeq(topic, 1, n)
  <2>1. \A k \in 1..n : topic[k] \in Byte
    BY <1>2, <1>3
  <2>2. /\ t \in Seq(Byte) /\ Len(t) = IF 1 <= n THEN n - 1 + 1 ELSE 0
        /\ \A k \in 1..(n - 1 + 1) : t[k] = topic[1 + k - 1]
    BY <1>3, <2>1, SubSeqProperties
  <2> HIDE DEF t
  <2>3. Len(t) = n /\ \A k \in 1..n : t[k] = topic[k]
    BY <1>3, <2>2
  <2>4. Part(p, 3, t)
    <3>0. \A k \in 1..Len(topic) : p[3 + k - 1] = topic[k]
      BY <1>1 DEF Part, At
    <3>1. ASSUME NEW k \in 1..n PROVE p[3 + k - 1] = t[k]
      <4>1. k \in 1..Len(topic) /\ t[k] = topic[k]
        BY <1>2, <1>3, <2>3
      <4> QED
        BY <3>0, <4>1, Zenon
    <3>2. 3 + n <= Len(p) + 1
      BY <1>1, <1>2, <1>3
    <3> QED
      BY <2>2, <2>3, <3>1, <3>2 DEF Part, At
  <2>5. SubSeq(p, 3, 3 + Len(t) - 1) = t
    BY <2>4, PartIsCut
  <2>6. 3 + Len(t) - 1 = 2 + n
    BY <1>3, <2>3
  <2> QED
    BY <2>5, <2>6, Zenon DEF t
<1>7. SubSeq(p, 3 + n, Len(p)) = left
  <2>1. n \in 0..Len(topic) /\ 3 \in Nat \ {0}
    BY <1>2, <1>3
  <2>2. Part(p, 3 + n, left)
    BY <1>1, <2>1, EndAndNext
  <2>3. Len(left) = (Len(topic) - n) + Len(message)
    <3>1. \A k \in (n + 1)..Len(topic) : topic[k] \in Byte
      BY <1>2, <1>3
    <3>2. /\ SubSeq(topic, n + 1, Len(topic)) \in Seq(Byte)
          /\ Len(SubSeq(topic, n + 1, Len(topic))) =
               IF n + 1 <= Len(topic) THEN Len(topic) - (n + 1) + 1 ELSE 0
      BY <1>2, <1>3, <3>1, SubSeqProperties
    <3>3. Len(SubSeq(topic, n + 1, Len(topic))) = Len(topic) - n
      BY <1>2, <1>3, <3>2
    <3> QED
      BY <3>2, <3>3, Joined
  <2> HIDE DEF left
  <2>4. SubSeq(p, 3 + n, (3 + n) + Len(left) - 1) = left
    BY <2>2, PartIsCut
  <2>5. (3 + n) + Len(left) - 1 = Len(p)
    BY <1>1, <1>2, <1>3, <2>3
  <2> QED
    BY <2>4, <2>5, Zenon
<1> QED
  BY <1>5, <1>6, <1>7, Zenon DEF p, n, left

=============================================================================
