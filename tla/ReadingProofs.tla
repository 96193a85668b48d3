----------------------------- MODULE ReadingProofs -----------------------------
(***************************************************************************)
(* What PacketBuffer makes of the fixed headers, wherever the stream is    *)
(* cut: whoever waits for bytes has handed over every complete packet, and *)
(* buffers no more than the limit allows.                                  *)
(***************************************************************************)
EXTENDS Reading, QueueLemmas

-----------------------------------------------------------------------------
(* Variable-length integers.                                               *)

\* Where a varint at pos may end: at the bytes without the continuation bit.
Ends(buf, pos) == {i \in 1 .. 4 : pos + i - 1 <= Len(buf) /\ buf[pos + i - 1] < 128}

\* What round i of decode_varint() adds when the varint ends in round n.
Digit(buf, pos, n, i) == IF i <= n THEN (buf[pos + i - 1] % 128) * Weight[i] ELSE 0

\* The continuation bit and the seven others.
LEMMA LowBits ==
  /\ \A b \in Byte : b % 128 \in 0 .. 127
  /\ \A d \in 0 .. 127 : d % 128 = d /\ (d + 128) % 128 = d
BY SMT DEF Byte

\* Four groups of seven bits.
LEMMA Groups ==
  ASSUME NEW v \in Nat
  PROVE  /\ \A w \in Nat \ {0} : (v \div w) % 128 \in 0 .. 127
         /\ v < 128 => v = (v % 128) * 1
         /\ v < 16384 => v = (v % 128) * 1 + ((v \div 128) % 128) * 128
         /\ v < 2097152 => v = (v % 128) * 1 + ((v \div 128) % 128) * 128
                               + ((v \div 16384) % 128) * 16384
         /\ v <= 268435455 => v = (v % 128) * 1 + ((v \div 128) % 128) * 128
                                  + ((v \div 16384) % 128) * 16384
                                  + ((v \div 2097152) % 128) * 2097152
<1>1. \A w \in Nat \ {0} : (v \div w) % 128 \in 0 .. 127
  BY SMT
<1>2. v < 128 => v = (v % 128) * 1
  BY SMT
<1>3. v < 16384 => v = (v % 128) * 1 + ((v \div 128) % 128) * 128
  BY SMT
<1>4. v < 2097152 => v = (v % 128) * 1 + ((v \div 128) % 128) * 128
                         + ((v \div 16384) % 128) * 16384
  BY SMT
<1>5. v <= 268435455 => v = (v % 128) * 1 + ((v \div 128) % 128) * 128
                            + ((v \div 16384) % 128) * 16384
                            + ((v \div 2097152) % 128) * 2097152
  BY SMT
<1> QED
  BY <1>1, <1>2, <1>3, <1>4, <1>5, SMT

\* What encode_varint() writes.
LEMMA VarintBytes ==
  ASSUME NEW v \in Nat, v <= MaxVarint
  PROVE  /\ VarintLength(v) \in 1 .. 4
         /\ EncodeVarint(v) \in Seq(Byte) /\ Len(EncodeVarint(v)) = VarintLength(v)
         /\ \A i \in 1 .. VarintLength(v) :
              /\ EncodeVarint(v)[i] < 128 <=> i = VarintLength(v)
              /\ EncodeVarint(v)[i] % 128 = (v \div Weight[i]) % 128
<1>1. VarintLength(v) \in 1 .. 4
  BY SMT DEF VarintLength, MaxVarint
<1>2. \A i \in 1 .. 4 : Weight[i] \in Nat \ {0}
  BY SMT DEF Weight
<1>3. \A i \in 1 .. 4 : (v \div Weight[i]) % 128 \in 0 .. 127
  <2>1. \A w \in Nat \ {0} : (v \div w) % 128 \in 0 .. 127
    BY Groups
  <2> QED
    BY <1>2, <2>1
<1>4. ASSUME NEW i \in 1 .. VarintLength(v)
      PROVE  /\ EncodeVarint(v)[i] \in Byte
             /\ EncodeVarint(v)[i] < 128 <=> i = VarintLength(v)
             /\ EncodeVarint(v)[i] % 128 = (v \div Weight[i]) % 128
  <2>1. PICK d \in 0 .. 127 : d = (v \div Weight[i]) % 128
    BY <1>1, <1>3, SMT
  <2>2. EncodeVarint(v)[i] = d + (IF i < VarintLength(v) THEN 128 ELSE 0)
    BY <2>1, SMT DEF EncodeVarint
  <2>3. i \in 1 .. 4 /\ i <= VarintLength(v)
    BY <1>1, SMT
  <2>4. CASE i < VarintLength(v)
    <3>1. EncodeVarint(v)[i] = d + 128 /\ i # VarintLength(v)
      BY <1>1, <2>2, <2>3, <2>4, SMT
    <3> QED
      BY <2>1, <3>1, LowBits, SMT DEF Byte
  <2>5. CASE i = VarintLength(v)
    <3>1. EncodeVarint(v)[i] = d
      BY <1>1, <2>2, <2>3, <2>5, SMT
    <3> QED
      BY <2>1, <2>5, <3>1, LowBits, SMT DEF Byte
  <2> QED
    BY <1>1, <2>3, <2>4, <2>5, SMT
<1>5. EncodeVarint(v) \in Seq(Byte) /\ Len(EncodeVarint(v)) = VarintLength(v)
  BY <1>1, <1>4, SMT DEF EncodeVarint
<1> QED
  BY <1>1, <1>4, <1>5, SMT

\* decode_varint(), by where the varint ends.
LEMMA VarintCases ==
  ASSUME NEW buf \in Seq(Byte), NEW pos \in Nat \ {0}
  PROVE  /\ Ends(buf, pos) = {} =>
              DecodeVarint(buf, pos) = (IF pos + 3 <= Len(buf) THEN Malformed ELSE Incomplete)
         /\ \A n \in Ends(buf, pos) :
              (\A j \in Ends(buf, pos) : n <= j) =>
                DecodeVarint(buf, pos) =
                  Value(Digit(buf, pos, n, 1) + Digit(buf, pos, n, 2)
                        + Digit(buf, pos, n, 3) + Digit(buf, pos, n, 4), pos + n)
<1>1. Ends(buf, pos) = {} =>
        DecodeVarint(buf, pos) = (IF pos + 3 <= Len(buf) THEN Malformed ELSE Incomplete)
  BY SMT DEF DecodeVarint, Ends
<1>2. ASSUME NEW n \in Ends(buf, pos), \A j \in Ends(buf, pos) : n <= j
      PROVE  DecodeVarint(buf, pos) =
                  Value(Digit(buf, pos, n, 1) + Digit(buf, pos, n, 2)
                        + Digit(buf, pos, n, 3) + Digit(buf, pos, n, 4), pos + n)
  <2>1. Ends(buf, pos) \subseteq 1 .. 4 /\ n \in 1 .. 4
    BY SMT DEF Ends
  <2>2. (CHOOSE i \in Ends(buf, pos) : \A j \in Ends(buf, pos) : i <= j) = n
    BY <1>2, <2>1, SMT
  <2> DEFINE m == CHOOSE i \in Ends(buf, pos) : \A j \in Ends(buf, pos) : i <= j
  <2>3. DecodeVarint(buf, pos) =
          Value(Digit(buf, pos, m, 1) + Digit(buf, pos, m, 2)
                + Digit(buf, pos, m, 3) + Digit(buf, pos, m, 4), pos + m)
    BY <1>2, Zenon DEF DecodeVarint, Ends, Digit
  <2> QED
    BY <2>2, <2>3, Zenon
<1> QED
  BY <1>1, <1>2, Zenon

\* What comes out of decode_varint(), whatever the bytes.
LEMMA VarintType ==
  ASSUME NEW buf \in Seq(Byte), NEW pos \in Nat \ {0}
  PROVE  \/ DecodeVarint(buf, pos) = Malformed
         \/ DecodeVarint(buf, pos) = Incomplete /\ Len(buf) < pos + 3
         \/ \E v \in Nat, n \in 1 .. 4 :
              DecodeVarint(buf, pos) = Value(v, pos + n) /\ pos + n - 1 <= Len(buf)
<1>1. CASE Ends(buf, pos) = {}
  BY <1>1, VarintCases, SMT
<1>2. CASE Ends(buf, pos) # {}
  <2>1. Ends(buf, pos) \in SUBSET Nat
    BY SMT DEF Ends
  <2>2. PICK n \in Ends(buf, pos) : \A j \in Ends(buf, pos) : n <= j
    BY <1>2, <2>1, LeastNatural
  <2>3. n \in 1 .. 4 /\ pos + n - 1 <= Len(buf)
    BY <2>2, SMT DEF Ends
  <2>4. ASSUME NEW i \in 1 .. 4 PROVE Digit(buf, pos, n, i) \in Nat
    <3>1. CASE i <= n
      <4>1. pos + i - 1 \in 1 .. Len(buf)
        BY <2>3, <3>1, SMT
      <4>2. buf[pos + i - 1] % 128 \in 0 .. 127
        <5>1. buf[pos + i - 1] \in Byte
          BY <4>1
        <5> QED
          BY <5>1, LowBits
      <4>3. Weight[i] \in Nat /\ \A x \in 0 .. 127, w \in Nat : x * w \in Nat
        BY SMT DEF Weight
      <4> QED
        BY <3>1, <4>2, <4>3 DEF Digit
    <3>2. CASE ~(i <= n)
      BY <3>2, SMT DEF Digit
    <3> QED
      BY <3>1, <3>2
  <2>5. Digit(buf, pos, n, 1) + Digit(buf, pos, n, 2)
          + Digit(buf, pos, n, 3) + Digit(buf, pos, n, 4) \in Nat
    BY <2>4, SMT
  <2> QED
    BY <2>2, <2>3, <2>5, VarintCases
<1> QED
  BY <1>1, <1>2

\* decode_varint() is the inverse of encode_varint(), up to 268435455.
LEMMA VarintRead ==
  ASSUME NEW v \in Nat, v <= MaxVarint, NEW buf \in Seq(Byte), NEW pos \in Nat \ {0},
         pos + VarintLength(v) - 1 <= Len(buf),
         \A i \in 1 .. VarintLength(v) : buf[pos + i - 1] = EncodeVarint(v)[i]
  PROVE  DecodeVarint(buf, pos) = Value(v, pos + VarintLength(v))
<1>1. PICK n \in 1 .. 4 : n = VarintLength(v)
  BY VarintBytes
<1>2. \A i \in 1 .. n : /\ pos + i - 1 <= Len(buf)
                        /\ buf[pos + i - 1] < 128 <=> i = n
                        /\ buf[pos + i - 1] % 128 = (v \div Weight[i]) % 128
  BY <1>1, VarintBytes, SMT
<1>3. n \in Ends(buf, pos) /\ \A j \in Ends(buf, pos) : n <= j
  <2>1. n \in Ends(buf, pos)
    <3>1. pos + n - 1 <= Len(buf) /\ buf[pos + n - 1] < 128
      BY <1>2
    <3> QED
      BY <3>1 DEF Ends
  <2>2. ASSUME NEW j \in Ends(buf, pos), j < n PROVE FALSE
    <3>1. j \in 1 .. 4 /\ buf[pos + j - 1] < 128
      BY DEF Ends
    <3>2. j \in 1 .. n /\ j # n
      BY <2>2, <3>1
    <3> QED
      BY <1>2, <3>1, <3>2
  <2>3. Ends(buf, pos) \subseteq Nat
    BY SMT DEF Ends
  <2> QED
    BY <2>1, <2>2, <2>3
<1>4. \A i \in 1 .. 4 : Digit(buf, pos, n, i) =
                          IF i <= n THEN ((v \div Weight[i]) % 128) * Weight[i] ELSE 0
  BY <1>2, SMT DEF Digit
<1>5. /\ Weight[1] = 1 /\ Weight[2] = 128 /\ Weight[3] = 16384 /\ Weight[4] = 2097152
      /\ v \div 1 = v
  BY SMT DEF Weight
<1>6. /\ Digit(buf, pos, n, 1) = (v % 128) * 1
      /\ Digit(buf, pos, n, 2) = IF 2 <= n THEN ((v \div 128) % 128) * 128 ELSE 0
      /\ Digit(buf, pos, n, 3) = IF 3 <= n THEN ((v \div 16384) % 128) * 16384 ELSE 0
      /\ Digit(buf, pos, n, 4) = IF 4 <= n THEN ((v \div 2097152) % 128) * 2097152 ELSE 0
  <2>1. 1 <= n /\ 1 \in 1 .. 4 /\ 2 \in 1 .. 4 /\ 3 \in 1 .. 4 /\ 4 \in 1 .. 4
    BY SMT
  <2>2. Digit(buf, pos, n, 1) = (v % 128) * 1
    <3>1. Digit(buf, pos, n, 1) = ((v \div Weight[1]) % 128) * Weight[1]
      BY <1>4, <2>1, Zenon
    <3>2. Weight[1] = 1 /\ v \div 1 = v
      BY SMT DEF Weight
    <3> QED
      BY <3>1, <3>2, Zenon
  <2>3. Digit(buf, pos, n, 2) = IF 2 <= n THEN ((v \div 128) % 128) * 128 ELSE 0
    <3>1. Digit(buf, pos, n, 2) = IF 2 <= n THEN ((v \div Weight[2]) % 128) * Weight[2] ELSE 0
      BY <1>4, <2>1, Zenon
    <3>2. Weight[2] = 128
      BY SMT DEF Weight
    <3> QED
      BY <3>1, <3>2, Zenon
  <2>4. Digit(buf, pos, n, 3) = IF 3 <= n THEN ((v \div 16384) % 128) * 16384 ELSE 0
    <3>1. Digit(buf, pos, n, 3) = IF 3 <= n THEN ((v \div Weight[3]) % 128) * Weight[3] ELSE 0
      BY <1>4, <2>1, Zenon
    <3>2. Weight[3] = 16384
      BY SMT DEF Weight
    <3> QED
      BY <3>1, <3>2, SMT
  <2>5. Digit(buf, pos, n, 4) = IF 4 <= n THEN ((v \div 2097152) % 128) * 2097152 ELSE 0
    <3>1. Digit(buf, pos, n, 4) = IF 4 <= n THEN ((v \div Weight[4]) % 128) * Weight[4] ELSE 0
      BY <1>4, <2>1, Zenon
    <3>2. Weight[4] = 2097152
      BY SMT DEF Weight
    <3> QED
      BY <3>1, <3>2, SMT
  <2> QED
    BY <2>2, <2>3, <2>4, <2>5, SMT
<1>7. /\ n = 1 => v < 128
      /\ n = 2 => v < 16384
      /\ n = 3 => v < 2097152
      /\ v <= 268435455
  BY <1>1, SMT DEF VarintLength, MaxVarint
<1>8. v = Digit(buf, pos, n, 1) + Digit(buf, pos, n, 2)
          + Digit(buf, pos, n, 3) + Digit(buf, pos, n, 4)
  <2>1. CASE n = 1
    BY <1>6, <1>7, <2>1, Groups, SMT
  <2>2. CASE n = 2
    BY <1>6, <1>7, <2>2, Groups, SMT
  <2>3. CASE n = 3
    <3>1. v = (v % 128) * 1 + ((v \div 128) % 128) * 128 + ((v \div 16384) % 128) * 16384
      BY <1>7, <2>3, Groups, SMT
    <3>2. /\ Digit(buf, pos, n, 1) = (v % 128) * 1
          /\ Digit(buf, pos, n, 2) = ((v \div 128) % 128) * 128
          /\ Digit(buf, pos, n, 3) = ((v \div 16384) % 128) * 16384
          /\ Digit(buf, pos, n, 4) = 0
      BY <1>6, <2>3, SMT
    <3> QED
      BY <3>1, <3>2, SMT
  <2>4. CASE n = 4
    BY <1>6, <1>7, <2>4, Groups, SMT
  <2> QED
    BY <2>1, <2>2, <2>3, <2>4, SMT
<1> QED
  BY <1>1, <1>3, <1>8, VarintCases

\* A varint that is cut short is incomplete, never taken for another one.
LEMMA VarintCut ==
  ASSUME NEW v \in Nat, v <= MaxVarint, NEW buf \in Seq(Byte), NEW pos \in Nat \ {0},
         Len(buf) < pos + VarintLength(v) - 1,
         \A i \in 1 .. VarintLength(v) :
           pos + i - 1 <= Len(buf) => buf[pos + i - 1] = EncodeVarint(v)[i]
  PROVE  DecodeVarint(buf, pos) = Incomplete
<1>1. PICK n \in 1 .. 4 : n = VarintLength(v)
  BY VarintBytes, SMT
<1>2. Ends(buf, pos) = {}
  <2> SUFFICES ASSUME NEW j \in Ends(buf, pos) PROVE FALSE
    OBVIOUS
  <2>1. j \in 1 .. 4 /\ pos + j - 1 <= Len(buf) /\ buf[pos + j - 1] < 128
    BY DEF Ends
  <2>2. j \in 1 .. n /\ j # n
    BY <1>1, <2>1
  <2>3. \A i \in 1 .. n : EncodeVarint(v)[i] < 128 <=> i = n
    BY <1>1, VarintBytes
  <2> QED
    BY <1>1, <2>1, <2>2, <2>3
<1>3. ~(pos + 3 <= Len(buf))
  BY <1>1, SMT
<1> QED
  BY <1>2, <1>3, VarintCases, SMT

-----------------------------------------------------------------------------
(* One packet.                                                             *)

\* The three results of decode() that are no packet, and a packet.
LEMMA Results ==
  ASSUME NEW p, NEW n
  PROVE  /\ Malformed # Incomplete /\ TooLarge # Incomplete /\ Malformed # TooLarge
         /\ "consumed" \notin DOMAIN Malformed /\ "consumed" \notin DOMAIN Incomplete
         /\ "consumed" \notin DOMAIN TooLarge
         /\ Complete(p, n) # Incomplete /\ Complete(p, n) # TooLarge
         /\ "consumed" \in DOMAIN Complete(p, n) => Complete(p, n).consumed = n
<1>1. DOMAIN Malformed = {"malformed"} /\ DOMAIN Incomplete = {"incomplete"} /\ DOMAIN TooLarge = {"too_large"}
  BY DEF Malformed, Incomplete, TooLarge
<1>2. Complete(p, n) = Malformed \/ Complete(p, n) = [packet |-> p, consumed |-> n]
  BY DEF Complete
<1>3. DOMAIN [packet |-> p, consumed |-> n] = {"packet", "consumed"} /\ [packet |-> p, consumed |-> n].consumed = n
  OBVIOUS
<1>4. /\ Malformed # Incomplete /\ TooLarge # Incomplete /\ Malformed # TooLarge
      /\ "consumed" \notin DOMAIN Malformed /\ "consumed" \notin DOMAIN Incomplete
      /\ "consumed" \notin DOMAIN TooLarge
  BY <1>1
<1>5. CASE Complete(p, n) = Malformed
  BY <1>4, <1>5
<1>6. CASE Complete(p, n) = [packet |-> p, consumed |-> n]
  BY <1>1, <1>3, <1>4, <1>6
<1> QED
  BY <1>2, <1>4, <1>5, <1>6

\* A varint is no error.
LEMMA ValueIsRead ==
  ASSUME NEW v, NEW n
  PROVE  /\ Value(v, n) # Malformed /\ Value(v, n) # Incomplete
         /\ Value(v, n).value = v /\ Value(v, n).next = n
<1>1. DOMAIN Malformed = {"malformed"} /\ DOMAIN Incomplete = {"incomplete"}
  BY DEF Malformed, Incomplete
<1>2. DOMAIN Value(v, n) = {"value", "next"} /\ Value(v, n).value = v /\ Value(v, n).next = n
  BY DEF Value
<1> QED
  BY <1>1, <1>2

\* decode() behind the fixed header.
LEMMA RestRead ==
  ASSUME NEW buf \in Seq(Byte), NEW ver, NEW lim, NEW next, NEW total
  PROVE  LET result == DecodeRest(buf, ver, lim, next, total) IN
         /\ result = Incomplete => Len(buf) < total /\ (lim # None => ~(total > lim[1]))
         /\ "consumed" \in DOMAIN result => result.consumed = total /\ ~(Len(buf) < total)
BY Results DEF DecodeRest

\* decode() before it.
LEMMA HeaderRead ==
  ASSUME NEW buf \in Seq(Byte), NEW ver, NEW lim
  PROVE  /\ Len(buf) < 2 \/ DecodeVarint(buf, 2) = Incomplete => Decode(buf, ver, lim) = Incomplete
         /\ Len(buf) >= 2 /\ DecodeVarint(buf, 2) = Malformed => Decode(buf, ver, lim) = Malformed
         /\ \A v, n : Len(buf) >= 2 /\ DecodeVarint(buf, 2) = Value(v, n) =>
              Decode(buf, ver, lim) = DecodeRest(buf, ver, lim, n, n - 1 + v)
<1>1. Malformed # Incomplete
  BY Results
<1>2. Len(buf) \in Nat
  OBVIOUS
<1> QED
  BY <1>1, <1>2, ValueIsRead DEF Decode, IfRead

\* Whatever the bytes: who has to wait for more of them holds less than the limit, and a
\* packet that is taken was in the buffer.
LEMMA DecodeBound ==
  ASSUME NEW buf \in Seq(Byte), NEW ver, NEW lim, lim = None \/ lim[1] \in Nat
  PROVE  /\ Decode(buf, ver, lim) = Incomplete /\ lim # None /\ lim[1] > 4 => Len(buf) < lim[1]
         /\ "consumed" \in DOMAIN Decode(buf, ver, lim) =>
              Decode(buf, ver, lim).consumed \in 1 .. Len(buf)
<1>1. Len(buf) \in Nat
  OBVIOUS
<1>2. /\ "consumed" \notin DOMAIN Malformed /\ "consumed" \notin DOMAIN Incomplete
      /\ Malformed # Incomplete
  BY Results
<1>3. CASE Len(buf) < 2
  BY <1>1, <1>2, <1>3, HeaderRead
<1>4. CASE Len(buf) >= 2 /\ DecodeVarint(buf, 2) = Malformed
  BY <1>1, <1>2, <1>4, HeaderRead
<1>5. CASE Len(buf) >= 2 /\ DecodeVarint(buf, 2) = Incomplete /\ Len(buf) < 2 + 3
  BY <1>1, <1>2, <1>5, HeaderRead
<1>6. ASSUME Len(buf) >= 2, NEW v \in Nat, NEW n \in 1 .. 4, DecodeVarint(buf, 2) = Value(v, 2 + n)
      PROVE  /\ Decode(buf, ver, lim) = Incomplete /\ lim # None /\ lim[1] > 4 => Len(buf) < lim[1]
             /\ "consumed" \in DOMAIN Decode(buf, ver, lim) =>
                  Decode(buf, ver, lim).consumed \in 1 .. Len(buf)
  <2>1. PICK total \in Nat \ {0} : total = 2 + n - 1 + v
    OBVIOUS
  <2>2. Decode(buf, ver, lim) = DecodeRest(buf, ver, lim, 2 + n, total)
    BY <1>6, <2>1, HeaderRead
  <2> QED
    BY <1>1, <2>1, <2>2, RestRead
<1> QED
  BY <1>1, <1>3, <1>4, <1>5, <1>6, VarintType

\* What a frame looks like.
LEMMA FrameBytes ==
  ASSUME NEW first \in Byte, NEW body \in Seq(Byte), Len(body) <= MaxVarint
  PROVE  /\ Frame(first, body) \in Seq(Byte)
         /\ Len(Frame(first, body)) = 1 + VarintLength(Len(body)) + Len(body)
         /\ \A i \in 1 .. VarintLength(Len(body)) :
              Frame(first, body)[1 + i] = EncodeVarint(Len(body))[i]
<1>1. Len(body) \in Nat
  OBVIOUS
<1>2. /\ VarintLength(Len(body)) \in 1 .. 4
      /\ EncodeVarint(Len(body)) \in Seq(Byte)
      /\ Len(EncodeVarint(Len(body))) = VarintLength(Len(body))
  BY <1>1, VarintBytes
<1>3. PICK length \in Seq(Byte) : length = EncodeVarint(Len(body))
  BY <1>2
<1>4. <<first>> \o length \in Seq(Byte) /\ Len(<<first>> \o length) = 1 + Len(length)
  OBVIOUS
<1>5. \A i \in 1 .. Len(length) : (<<first>> \o length)[1 + i] = length[i]
  OBVIOUS
<1>6. PICK header \in Seq(Byte) : header = <<first>> \o length
  BY <1>4
<1>7. /\ header \o body \in Seq(Byte) /\ Len(header \o body) = Len(header) + Len(body)
      /\ \A i \in 1 .. Len(header) : (header \o body)[i] = header[i]
  OBVIOUS
<1>8. Frame(first, body) = header \o body
  BY <1>3, <1>6 DEF Frame
<1> QED
  BY <1>2, <1>3, <1>4, <1>5, <1>6, <1>7, <1>8

\* decode() at the start of a frame: incomplete only until the frame has arrived, and
\* otherwise it takes exactly the frame, or raises.
LEMMA DecodeFrame ==
  ASSUME NEW first \in Byte, NEW body \in Seq(Byte), Len(body) <= MaxVarint,
         NEW buf \in Seq(Byte), NEW ver, NEW lim,
         \A j \in 1 .. Len(Frame(first, body)) : j <= Len(buf) => buf[j] = Frame(first, body)[j]
  PROVE  /\ Decode(buf, ver, lim) = Incomplete => Len(buf) < Len(Frame(first, body))
         /\ "consumed" \in DOMAIN Decode(buf, ver, lim) =>
              Decode(buf, ver, lim).consumed = Len(Frame(first, body))
<1>1. PICK b \in Seq(Byte), l \in Nat, k \in 1 .. 4 :
        /\ b = Frame(first, body) /\ l = Len(body) /\ k = VarintLength(l) /\ l <= MaxVarint
        /\ Len(b) = 1 + k + l /\ \A i \in 1 .. k : b[1 + i] = EncodeVarint(l)[i]
  <2>1. Len(body) \in Nat
    OBVIOUS
  <2>2. VarintLength(Len(body)) \in 1 .. 4
    BY <2>1, VarintBytes
  <2> QED
    BY <2>1, <2>2, FrameBytes, Zenon
<1>2. Len(buf) \in Nat
  OBVIOUS
<1>3. "consumed" \notin DOMAIN Incomplete
  BY Results
<1>4. CASE Len(buf) < 2
  BY <1>1, <1>2, <1>3, <1>4, HeaderRead
<1>5. ASSUME NEW i \in 1 .. k, 2 + i - 1 <= Len(buf) PROVE buf[2 + i - 1] = EncodeVarint(l)[i]
  <2>1. 2 + i - 1 = 1 + i /\ 1 + i \in 1 .. Len(b) /\ 1 + i <= Len(buf)
    BY <1>1, <1>5
  <2> QED
    BY <1>1, <2>1
<1>6. CASE Len(buf) >= 2 /\ Len(buf) < 1 + k
  <2>1. Len(buf) < 2 + VarintLength(l) - 1
    BY <1>1, <1>2, <1>6
  <2>2. DecodeVarint(buf, 2) = Incomplete
    BY <1>1, <1>5, <2>1, VarintCut
  <2> QED
    BY <1>1, <1>2, <1>3, <1>6, <2>2, HeaderRead
<1>7. CASE Len(buf) >= 1 + k
  <2>1. 2 + VarintLength(l) - 1 <= Len(buf) /\ Len(buf) >= 2
    BY <1>1, <1>2, <1>7
  <2>2. \A i \in 1 .. VarintLength(l) : buf[2 + i - 1] = EncodeVarint(l)[i]
    BY <1>1, <1>5, <1>7, <1>2
  <2>3. DecodeVarint(buf, 2) = Value(l, 2 + k)
    BY <1>1, <2>1, <2>2, VarintRead
  <2>4. 2 + k - 1 + l = Len(b)
    BY <1>1
  <2>5. Decode(buf, ver, lim) = DecodeRest(buf, ver, lim, 2 + k, Len(b))
    BY <2>1, <2>3, <2>4, HeaderRead
  <2> QED
    BY <1>1, <2>5, RestRead
<1> QED
  BY <1>1, <1>2, <1>4, <1>6, <1>7

-----------------------------------------------------------------------------
(* The stream.                                                             *)

\* A recursive definition over the positions of a sequence of sequences has a solution.
LEMMA FlattenExists ==
  ASSUME NEW S, NEW seqs \in Seq(Seq(S)), seqs # <<>>
  PROVE  \E f : f = [i \in 1 .. Len(seqs) |-> IF i = 1 THEN seqs[i] ELSE f[i - 1] \o seqs[i]]
<1> DEFINE Solves(f, n) == \A i \in 1 .. n : f[i] = IF i = 1 THEN seqs[i] ELSE f[i - 1] \o seqs[i]
           Bad == {n \in 1 .. Len(seqs) : ~\E f \in [1 .. n -> Seq(S)] : Solves(f, n)}
<1>1. Len(seqs) \in Nat \ {0} /\ \A i \in 1 .. Len(seqs) : seqs[i] \in Seq(S)
  OBVIOUS
<1>2. Bad = {}
  <2> SUFFICES ASSUME Bad # {} PROVE FALSE
    OBVIOUS
  <2>1. Bad \in SUBSET Nat
    BY <1>1
  <2>2. PICK n \in Bad : \A j \in Bad : n <= j
    BY <2>1, LeastNatural
  <2>3. n \in 1 .. Len(seqs) /\ ~\E f \in [1 .. n -> Seq(S)] : Solves(f, n)
    BY <2>2
  <2>4. CASE n = 1
    <3> DEFINE g == [i \in 1 .. n |-> seqs[1]]
    <3>1. g \in [1 .. n -> Seq(S)] /\ Solves(g, n)
      BY <1>1, <2>4
    <3> QED
      BY <2>3, <3>1
  <2>5. CASE n # 1
    <3>1. n \in Nat /\ n - 1 \in 1 .. Len(seqs) /\ ~(n <= n - 1)
      BY <1>1, <2>3, <2>5
    <3>2. PICK f \in [1 .. n - 1 -> Seq(S)] : Solves(f, n - 1)
      <4>1. n - 1 \notin Bad
        BY <2>2, <3>1, Zenon
      <4> QED
        BY <3>1, <4>1, Zenon
    <3> DEFINE g == [i \in 1 .. n |-> IF i = n THEN f[n - 1] \o seqs[n] ELSE f[i]]
    <3>3. f[n - 1] \in Seq(S) /\ seqs[n] \in Seq(S)
      BY <1>1, <2>3, <3>1
    <3>4. f[n - 1] \o seqs[n] \in Seq(S)
      BY <3>3
    <3>5. g \in [1 .. n -> Seq(S)]
      BY <3>1, <3>4
    <3>6. ASSUME NEW i \in 1 .. n
          PROVE  g[i] = IF i = 1 THEN seqs[i] ELSE g[i - 1] \o seqs[i]
      <4>1. CASE i = n
        <5>1. n - 1 \in 1 .. n /\ n - 1 # n
          BY <3>1
        <5>2. g[n] = f[n - 1] \o seqs[n] /\ g[n - 1] = f[n - 1]
          BY <4>1, <5>1, Zenon
        <5> QED
          BY <2>5, <4>1, <5>2
      <4>2. CASE i # n
        <5>1. i \in 1 .. n - 1 /\ g[i] = f[i]
          BY <3>1, <4>2
        <5>2. f[i] = IF i = 1 THEN seqs[i] ELSE f[i - 1] \o seqs[i]
          BY <3>2, <5>1
        <5>3. i # 1 => i - 1 \in 1 .. n /\ g[i - 1] = f[i - 1]
          BY <3>1, <5>1
        <5> QED
          BY <5>1, <5>2, <5>3
      <4> QED
        BY <4>1, <4>2
    <3> QED
      BY <2>3, <3>5, <3>6
  <2> QED
    BY <2>4, <2>5
<1>3. PICK f \in [1 .. Len(seqs) -> Seq(S)] : Solves(f, Len(seqs))
  <2>1. Len(seqs) \in 1 .. Len(seqs)
    BY <1>1
  <2> QED
    BY <1>2, <2>1, Zenon
<1>4. f = [i \in 1 .. Len(seqs) |-> IF i = 1 THEN seqs[i] ELSE f[i - 1] \o seqs[i]]
  BY <1>3
<1> QED
  BY <1>4

\* Where each member of a flattened sequence lies in it: start[i] is what comes before
\* the member i + 1.
Laid(seqs, all, start) ==
  /\ start \in [0 .. Len(seqs) -> Nat]
  /\ start[0] = 0 /\ start[Len(seqs)] = Len(all)
  /\ \A i \in 1 .. Len(seqs) :
       /\ start[i] = start[i - 1] + Len(seqs[i])
       /\ start[i] <= Len(all)
       /\ \A j \in 1 .. Len(seqs[i]) : all[start[i - 1] + j] = seqs[i][j]

\* Flattening keeps the members, one behind the other.
LEMMA Flattened ==
  ASSUME NEW S, NEW seqs \in Seq(Seq(S))
  PROVE  /\ FlattenSeq(seqs) \in Seq(S)
         /\ \E start : Laid(seqs, FlattenSeq(seqs), start)
<1>1. CASE Len(seqs) = 0
  <2>1. FlattenSeq(seqs) = <<>> /\ FlattenSeq(seqs) \in Seq(S) /\ Len(FlattenSeq(seqs)) = 0
    BY <1>1 DEF FlattenSeq
  <2> DEFINE zero == [i \in 0 .. Len(seqs) |-> 0]
  <2>2. Laid(seqs, FlattenSeq(seqs), zero)
    BY <1>1, <2>1 DEF Laid
  <2> QED
    BY <2>1, <2>2
<1>2. CASE Len(seqs) # 0
  <2> DEFINE N == Len(seqs)
             g == CHOOSE f : f = [i \in 1 .. N |-> IF i = 1 THEN seqs[i] ELSE f[i - 1] \o seqs[i]]
  <2>1. N \in Nat \ {0} /\ seqs # <<>> /\ \A i \in 1 .. N : seqs[i] \in Seq(S)
    BY <1>2
  <2>2. FlattenSeq(seqs) = g[N]
    BY <1>2 DEF FlattenSeq
  <2>3. g = [i \in 1 .. N |-> IF i = 1 THEN seqs[i] ELSE g[i - 1] \o seqs[i]]
    BY <2>1, FlattenExists, Zenon
  <2> HIDE DEF g
  <2>4. g[1] = seqs[1] /\ \A i \in 2 .. N : g[i] = g[i - 1] \o seqs[i]
    <3>1. \A i \in 1 .. N : g[i] = IF i = 1 THEN seqs[i] ELSE g[i - 1] \o seqs[i]
      BY <2>3, Zenon
    <3>2. 1 \in 1 .. N /\ \A i \in 2 .. N : i \in 1 .. N /\ i # 1
      BY <2>1
    <3> QED
      BY <3>1, <3>2, Zenon
  <2> DEFINE Before(i, k) == /\ Len(g[i]) <= Len(g[k])
                             /\ \A j \in 1 .. Len(g[i]) : g[k][j] = g[i][j]
             Good(k) == g[k] \in Seq(S) /\ \A i \in 1 .. k : Before(i, k)
             Bad == {k \in 1 .. N : ~Good(k)}
  <2>5. Bad = {}
    <3> SUFFICES ASSUME Bad # {} PROVE FALSE
      OBVIOUS
    <3>1. Bad \in SUBSET Nat
      BY <2>1
    <3>2. PICK k \in Bad : \A j \in Bad : k <= j
      BY <3>1, LeastNatural
    <3>3. k \in 1 .. N /\ ~Good(k)
      BY <3>2
    <3>4. CASE k = 1
      <4>1. g[k] \in Seq(S)
        BY <2>1, <2>4, <3>4
      <4>2. Before(k, k)
        BY <4>1
      <4> QED
        BY <3>3, <3>4, <4>1, <4>2
    <3>5. CASE k # 1
      <4>1. k \in Nat /\ k - 1 \in 1 .. N /\ k \in 2 .. N /\ \A i \in 1 .. k - 1 : i \in 1 .. N /\ ~(k <= i)
        BY <2>1, <3>3, <3>5
      <4>5. \A i \in 1 .. k - 1 : Good(i)
        BY <3>2, <4>1, Zenon
      <4>2. g[k] = g[k - 1] \o seqs[k] /\ g[k - 1] \in Seq(S) /\ seqs[k] \in Seq(S)
        <5>1. k - 1 \in 1 .. k - 1
          BY <4>1
        <5> QED
          BY <2>1, <2>4, <3>3, <4>1, <4>5, <5>1, Zenon
      <4>3. g[k] \in Seq(S) /\ Before(k - 1, k)
        <5>1. PICK a \in Seq(S), b \in Seq(S) : a = g[k - 1] /\ b = seqs[k] /\ g[k] = a \o b
          BY <4>2, Zenon
        <5>2. a \o b \in Seq(S) /\ Len(a) <= Len(a \o b) /\ \A j \in 1 .. Len(a) : (a \o b)[j] = a[j]
          OBVIOUS
        <5> QED
          BY <5>1, <5>2, Zenon
      <4>4. ASSUME NEW i \in 1 .. k PROVE Before(i, k)
        <5>1. CASE i = k
          BY <4>3, <5>1
        <5>2. CASE i # k
          <6>1. i \in 1 .. k - 1 /\ k - 1 \in 1 .. k - 1
            BY <4>1, <5>2
          <6>2. g[i] \in Seq(S) /\ Before(i, k - 1)
            BY <4>5, <6>1, Zenon
          <6>3. PICK a \in Seq(S), b \in Seq(S), c \in Seq(S) : a = g[i] /\ b = g[k - 1] /\ c = g[k]
            BY <4>2, <4>3, <6>2, Zenon
          <6>4. /\ Len(a) <= Len(b) /\ \A j \in 1 .. Len(a) : b[j] = a[j]
                /\ Len(b) <= Len(c) /\ \A j \in 1 .. Len(b) : c[j] = b[j]
            BY <4>3, <6>2, <6>3, Zenon
          <6>5. Len(a) <= Len(c) /\ \A j \in 1 .. Len(a) : c[j] = a[j]
            BY <6>4
          <6> QED
            BY <6>3, <6>5, Zenon
        <5> QED
          BY <5>1, <5>2
      <4> QED
        BY <3>3, <4>3, <4>4
    <3> QED
      BY <3>4, <3>5
  <2>6. \A k \in 1 .. N : Good(k)
    BY <2>5
  <2> DEFINE start == [i \in 0 .. N |-> IF i = 0 THEN 0 ELSE Len(g[i])]
  <2>7. FlattenSeq(seqs) \in Seq(S)
    BY <2>1, <2>2, <2>6
  <2>8. start \in [0 .. N -> Nat] /\ start[0] = 0 /\ start[N] = Len(FlattenSeq(seqs))
    BY <2>1, <2>2, <2>6
  <2>9. ASSUME NEW i \in 1 .. N
        PROVE  /\ start[i] = start[i - 1] + Len(seqs[i])
               /\ start[i] <= Len(FlattenSeq(seqs))
               /\ \A j \in 1 .. Len(seqs[i]) : FlattenSeq(seqs)[start[i - 1] + j] = seqs[i][j]
    <3>1. Before(i, N) /\ g[i] \in Seq(S) /\ seqs[i] \in Seq(S)
      <4>1. N \in 1 .. N /\ i \in 1 .. N
        BY <2>1
      <4> QED
        BY <2>1, <2>6, <4>1, Zenon
    <3>2. start[i] = Len(g[i]) /\ start[i] <= Len(FlattenSeq(seqs))
      BY <2>2, <3>1
    <3>3. start[i] = start[i - 1] + Len(seqs[i])
          /\ \A j \in 1 .. Len(seqs[i]) : g[i][start[i - 1] + j] = seqs[i][j]
      <4>1. CASE i = 1
        BY <2>4, <3>1, <3>2, <4>1
      <4>2. CASE i # 1
        <5>1. i - 1 \in 1 .. N /\ i \in 2 .. N /\ g[i - 1] \in Seq(S) /\ start[i - 1] = Len(g[i - 1])
          BY <2>1, <2>6, <4>2
        <5>2. g[i] = g[i - 1] \o seqs[i]
          BY <2>4, <5>1
        <5>3. PICK a \in Seq(S), b \in Seq(S) : a = g[i - 1] /\ b = seqs[i] /\ g[i] = a \o b
          BY <3>1, <5>1, <5>2, Zenon
        <5>4. Len(a \o b) = Len(a) + Len(b) /\ \A j \in 1 .. Len(b) : (a \o b)[Len(a) + j] = b[j]
          OBVIOUS
        <5>5. start[i] = Len(a \o b) /\ start[i - 1] = Len(a)
          BY <3>2, <5>1, <5>3, Zenon
        <5> HIDE DEF start
        <5> QED
          BY <5>3, <5>4, <5>5, Zenon
      <4> QED
        BY <4>1, <4>2
    <3>4. ASSUME NEW j \in 1 .. Len(seqs[i])
          PROVE  FlattenSeq(seqs)[start[i - 1] + j] = seqs[i][j]
      <4>1. start[i - 1] \in Nat
        BY <2>1, <2>8
      <4>2. start[i - 1] + j \in 1 .. Len(g[i])
        BY <3>1, <3>2, <3>3, <4>1
      <4> QED
        BY <2>2, <3>1, <3>3, <4>2
    <3> QED
      BY <3>2, <3>3, <3>4
  <2> QED
    <3>1. Laid(seqs, FlattenSeq(seqs), start)
      BY <2>8, <2>9, Zenon DEF Laid
    <3> QED
      BY <2>7, <3>1, Zenon
<1> QED
  BY <1>1, <1>2

-----------------------------------------------------------------------------
(* The invariant.                                                          *)

\* What encode() wrote for each packet.
SentBytes == [i \in DOMAIN sent |-> sent[i].bytes]

\* What was sent are frames.
Frames ==
  /\ Len(sent) \in Nat /\ DOMAIN sent = 1 .. Len(sent)
  /\ \A i \in 1 .. Len(sent) : \E first \in Byte, body \in Seq(Byte) :
       Len(body) <= MaxVarint /\ sent[i].bytes = Frame(first, body)

\* buf behind from, and rest behind it, are what comes in all behind c.
Follows(all, c, buf, from, rest) ==
  /\ Len(buf) - from + Len(rest) = Len(all) - c
  /\ \A j \in 1 .. Len(buf) - from : buf[from + j] = all[c + j]
  /\ \A j \in 1 .. Len(rest) : rest[j] = all[c + (Len(buf) - from) + j]

\* Until the connection is closed, a packet yielded is a packet sent, and the reader is
\* behind it in the stream.
Placed(start) ==
  /\ Len(received) <= Len(sent)
  /\ Follows(AllBytes, start[Len(received)], buffer, offset, coming)

ReaderType ==
  /\ limit \in Limits
  /\ buffer \in Seq(Byte) /\ coming \in Seq(Byte) /\ offset \in 0 .. Len(buffer)
  /\ \E S : received \in Seq(S)

ReaderInv ==
  /\ ReaderType
  /\ Frames
  /\ AllBytes \in Seq(Byte)
  /\ \E start : /\ Laid(SentBytes, AllBytes, start)
                /\ phase # "closed" => Placed(start)

-----------------------------------------------------------------------------
(* What feed() and one round of the iterator do to it.                     *)

\* A sequence cut in two.
LEMMA CutInTwo ==
  ASSUME NEW S, NEW s \in Seq(S), NEW n \in 0 .. Len(s)
  PROVE  /\ SubSeq(s, 1, n) \in Seq(S) /\ Len(SubSeq(s, 1, n)) = n
         /\ \A j \in 1 .. n : SubSeq(s, 1, n)[j] = s[j]
         /\ SubSeq(s, n + 1, Len(s)) \in Seq(S) /\ Len(SubSeq(s, n + 1, Len(s))) = Len(s) - n
         /\ \A j \in 1 .. Len(s) - n : SubSeq(s, n + 1, Len(s))[j] = s[n + j]
OBVIOUS

\* feed() with the next bytes of the transport.
LEMMA Feeding ==
  ASSUME NEW all \in Seq(Byte), NEW c \in Nat, NEW buf \in Seq(Byte), NEW from \in 0 .. Len(buf),
         NEW rest \in Seq(Byte), NEW n \in 1 .. Len(rest)
  PROVE  LET fed == SubSeq(buf, from + 1, Len(buf)) \o SubSeq(rest, 1, n) IN
         /\ fed \in Seq(Byte) /\ SubSeq(rest, n + 1, Len(rest)) \in Seq(Byte)
         /\ Follows(all, c, buf, from, rest) =>
              Follows(all, c, fed, 0, SubSeq(rest, n + 1, Len(rest)))
<1>1. PICK a \in Seq(Byte) :
        /\ a = SubSeq(buf, from + 1, Len(buf)) /\ Len(a) = Len(buf) - from
        /\ \A j \in 1 .. Len(buf) - from : a[j] = buf[from + j]
  <2>1. /\ SubSeq(buf, from + 1, Len(buf)) \in Seq(Byte)
        /\ Len(SubSeq(buf, from + 1, Len(buf))) = Len(buf) - from
        /\ \A j \in 1 .. Len(buf) - from : SubSeq(buf, from + 1, Len(buf))[j] = buf[from + j]
    BY CutInTwo
  <2> QED
    BY <2>1, Zenon
<1>2. PICK b \in Seq(Byte), r \in Seq(Byte) :
        /\ b = SubSeq(rest, 1, n) /\ Len(b) = n
        /\ \A j \in 1 .. n : b[j] = rest[j]
        /\ r = SubSeq(rest, n + 1, Len(rest)) /\ Len(r) = Len(rest) - n
        /\ \A j \in 1 .. Len(rest) - n : r[j] = rest[n + j]
  <2>1. n \in 0 .. Len(rest)
    OBVIOUS
  <2>2. /\ SubSeq(rest, 1, n) \in Seq(Byte) /\ Len(SubSeq(rest, 1, n)) = n
        /\ \A j \in 1 .. n : SubSeq(rest, 1, n)[j] = rest[j]
        /\ SubSeq(rest, n + 1, Len(rest)) \in Seq(Byte)
        /\ Len(SubSeq(rest, n + 1, Len(rest))) = Len(rest) - n
        /\ \A j \in 1 .. Len(rest) - n : SubSeq(rest, n + 1, Len(rest))[j] = rest[n + j]
    BY <2>1, CutInTwo
  <2> QED
    BY <2>2, Zenon
<1>3. PICK f \in Seq(Byte) :
        /\ f = a \o b /\ Len(f) = Len(a) + Len(b)
        /\ \A j \in 1 .. Len(a) : f[j] = a[j]
        /\ \A j \in 1 .. Len(b) : f[Len(a) + j] = b[j]
  <2>1. /\ a \o b \in Seq(Byte) /\ Len(a \o b) = Len(a) + Len(b)
        /\ \A j \in 1 .. Len(a) : (a \o b)[j] = a[j]
        /\ \A j \in 1 .. Len(b) : (a \o b)[Len(a) + j] = b[j]
    OBVIOUS
  <2> QED
    BY <2>1, Zenon
<1>4. ASSUME Follows(all, c, buf, from, rest) PROVE Follows(all, c, f, 0, r)
  <2>1. /\ Len(f) = (Len(buf) - from) + n /\ Len(a) = Len(buf) - from /\ Len(b) = n
        /\ Len(r) = Len(rest) - n /\ Len(buf) - from \in Nat /\ Len(rest) \in Nat /\ Len(all) \in Nat
    <3>1. Len(f) = Len(a) + Len(b)
      BY <1>3, Zenon
    <3>2. Len(a) = Len(buf) - from /\ Len(b) = n /\ Len(r) = Len(rest) - n
      BY <1>1, <1>2, Zenon
    <3>3. Len(buf) \in Nat /\ Len(rest) \in Nat /\ Len(all) \in Nat
      OBVIOUS
    <3> QED
      BY <3>1, <3>2, <3>3
  <2>2. Len(f) - 0 + Len(r) = Len(all) - c
    <3>1. Len(buf) - from + Len(rest) = Len(all) - c
      BY <1>4 DEF Follows
    <3>2. PICK x \in Nat, y \in Nat, z \in Nat, m \in Nat :
            x = Len(buf) - from /\ y = Len(rest) /\ z = Len(all) /\ m = n
      <4>1. n \in Nat
        OBVIOUS
      <4> QED
        BY <2>1, <4>1, Zenon
    <3>3. x + y = z - c => (x + m) - 0 + (y - m) = z - c
      OBVIOUS
    <3>4. Len(f) = x + m /\ Len(r) = y - m /\ x + y = z - c
      BY <2>1, <3>1, <3>2, Zenon
    <3> QED
      BY <3>2, <3>3, <3>4, Zenon
  <2>3. ASSUME NEW j \in 1 .. Len(f) - 0 PROVE f[0 + j] = all[c + j]
    <3>1. CASE j <= Len(a)
      <4>1. j \in 1 .. Len(a) /\ j \in 1 .. Len(buf) - from /\ 0 + j = j
        BY <1>1, <3>1
      <4> QED
        BY <1>1, <1>3, <1>4, <4>1, Zenon DEF Follows
    <3>2. CASE j > Len(a)
      <4>1. PICK i \in 1 .. n : j = Len(a) + i
        <5>1. j - Len(a) \in 1 .. n /\ j = Len(a) + (j - Len(a))
          BY <1>2, <1>3, <3>2
        <5> QED
          BY <5>1
      <4>2. /\ 0 + j = Len(a) + i /\ i \in 1 .. Len(b) /\ i \in 1 .. Len(rest)
            /\ c + j = c + (Len(buf) - from) + i
        BY <2>1, <4>1
      <4>3. rest[i] = all[c + (Len(buf) - from) + i]
        BY <1>4, <4>2, Zenon DEF Follows
      <4>4. f[Len(a) + i] = b[i] /\ b[i] = rest[i]
        BY <1>2, <1>3, <4>2, Zenon
      <4> QED
        BY <4>2, <4>3, <4>4, Zenon
    <3> QED
      BY <3>1, <3>2
  <2>4. ASSUME NEW j \in 1 .. Len(r) PROVE r[j] = all[c + (Len(f) - 0) + j]
    <3>1. /\ j \in 1 .. Len(rest) - n /\ n + j \in 1 .. Len(rest)
          /\ c + (Len(f) - 0) + j = c + (Len(buf) - from) + (n + j)
      BY <2>1
    <3> QED
      BY <1>2, <1>4, <3>1, Zenon DEF Follows
  <2> QED
    BY <2>2, <2>3, <2>4 DEF Follows
<1> QED
  BY <1>1, <1>2, <1>3, <1>4

\* A round that takes n bytes.
LEMMA Taking ==
  ASSUME NEW all \in Seq(Byte), NEW c \in Nat, NEW buf \in Seq(Byte), NEW from \in 0 .. Len(buf),
         NEW rest \in Seq(Byte), NEW n \in 0 .. Len(buf) - from, Follows(all, c, buf, from, rest)
  PROVE  Follows(all, c + n, buf, from + n, rest)
<1>1. Len(buf) - (from + n) + Len(rest) = Len(all) - (c + n)
  BY DEF Follows
<1>2. ASSUME NEW j \in 1 .. Len(buf) - (from + n) PROVE buf[from + n + j] = all[c + n + j]
  <2>1. n + j \in 1 .. Len(buf) - from /\ from + n + j = from + (n + j) /\ c + n + j = c + (n + j)
    OBVIOUS
  <2> QED
    BY <2>1, Zenon DEF Follows
<1>3. ASSUME NEW j \in 1 .. Len(rest)
      PROVE  rest[j] = all[c + n + (Len(buf) - (from + n)) + j]
  <2>1. c + n + (Len(buf) - (from + n)) + j = c + (Len(buf) - from) + j
    OBVIOUS
  <2> QED
    BY <2>1, Zenon DEF Follows
<1> QED
  BY <1>1, <1>2, <1>3 DEF Follows

\* A round of the iterator, whatever the bytes.
LEMMA RoundBound ==
  ASSUME limit \in Limits, NEW buf \in Seq(Byte), NEW from \in 0 .. Len(buf)
  PROVE  /\ Consumed(Step(buf, from)) \in 0 .. Len(buf) - from
         /\ Step(buf, from) = Incomplete =>
              /\ "consumed" \notin DOMAIN Step(buf, from)
              /\ limit # None /\ limit[1] > 4 => Len(buf) - from < limit[1]
<1>1. PICK b \in Seq(Byte) : b = SubSeq(buf, from + 1, Len(buf)) /\ Len(b) = Len(buf) - from
  BY CutInTwo
<1>2. limit = None \/ limit[1] \in Nat
  BY ReadingAssumption
<1>3. Step(buf, from) = Decode(b, version, limit)
  BY <1>1 DEF Step
<1>4. "consumed" \notin DOMAIN Incomplete
  BY Results
<1>5. /\ Decode(b, version, limit) = Incomplete /\ limit # None /\ limit[1] > 4 => Len(b) < limit[1]
      /\ "consumed" \in DOMAIN Decode(b, version, limit) =>
           Decode(b, version, limit).consumed \in 1 .. Len(b)
  BY <1>2, DecodeBound
<1>6. Consumed(Step(buf, from)) \in 0 .. Len(buf) - from
  <2>1. CASE "consumed" \in DOMAIN Step(buf, from)
    BY <1>1, <1>3, <1>5, <2>1 DEF Consumed
  <2>2. CASE "consumed" \notin DOMAIN Step(buf, from)
    BY <1>1, <2>2 DEF Consumed
  <2> QED
    BY <2>1, <2>2
<1> QED
  BY <1>1, <1>3, <1>4, <1>5, <1>6

\* A round of the iterator at the start of packet k + 1: it takes the packet, or it waits
\* for the packet to arrive, or it raises.
LEMMA RoundTakes ==
  ASSUME limit \in Limits, NEW buf \in Seq(Byte), NEW from \in 0 .. Len(buf), Frames,
         AllBytes \in Seq(Byte), NEW rest \in Seq(Byte), NEW start, NEW k \in 0 .. Len(sent),
         Laid(SentBytes, AllBytes, start),
         Follows(AllBytes, start[k], buf, from, rest)
  PROVE  /\ start[k] \in Nat
         /\ Step(buf, from) = Incomplete /\ k < Len(sent) => Len(buf) - from < Len(sent[k + 1].bytes)
         /\ "consumed" \in DOMAIN Step(buf, from) =>
              k < Len(sent) /\ start[k + 1] = start[k] + Consumed(Step(buf, from))
<1>1. PICK b \in Seq(Byte) :
        /\ b = SubSeq(buf, from + 1, Len(buf)) /\ Len(b) = Len(buf) - from
        /\ \A j \in 1 .. Len(buf) - from : b[j] = buf[from + j]
  <2>1. /\ SubSeq(buf, from + 1, Len(buf)) \in Seq(Byte)
        /\ Len(SubSeq(buf, from + 1, Len(buf))) = Len(buf) - from
        /\ \A j \in 1 .. Len(buf) - from : SubSeq(buf, from + 1, Len(buf))[j] = buf[from + j]
    BY CutInTwo
  <2> QED
    BY <2>1, Zenon
<1>2. Step(buf, from) = Decode(b, version, limit)
  BY <1>1 DEF Step
<1>3. PICK seqs : seqs = [i \in DOMAIN sent |-> sent[i].bytes]
  OBVIOUS
<1>4. /\ Len(seqs) = Len(sent) /\ Laid(seqs, AllBytes, start)
      /\ \A i \in 1 .. Len(sent) : seqs[i] = sent[i].bytes
  BY <1>3 DEF Frames, SentBytes
<1>5. start[k] \in Nat /\ Len(sent) \in Nat
  BY <1>4 DEF Laid, Frames
<1>6. CASE k = Len(sent)
  <2>1. start[k] = Len(AllBytes)
    BY <1>4, <1>6 DEF Laid
  <2>2. Len(b) = 0
    BY <1>1, <2>1 DEF Follows
  <2>3. Step(buf, from) = Incomplete
    <3>1. Len(b) < 2
      BY <2>2
    <3> QED
      BY <1>2, <3>1, HeaderRead, Zenon
  <2>4. "consumed" \notin DOMAIN Step(buf, from) /\ ~(k < Len(sent))
    <3>1. "consumed" \notin DOMAIN Incomplete
      BY Results
    <3> QED
      BY <1>5, <1>6, <2>3, <3>1
  <2> QED
    BY <1>5, <2>4, Zenon
<1>7. CASE k < Len(sent)
  <2>1. k + 1 \in 1 .. Len(sent) /\ k + 1 - 1 = k
    BY <1>5, <1>7
  <2>2. PICK first \in Byte, body \in Seq(Byte) :
          Len(body) <= MaxVarint /\ sent[k + 1].bytes = Frame(first, body)
    BY <2>1 DEF Frames
  <2>3. PICK frame \in Seq(Byte) : frame = Frame(first, body)
    BY <2>2, FrameBytes
  <2>4. /\ start[k + 1] = start[k] + Len(frame)
        /\ \A j \in 1 .. Len(frame) : AllBytes[start[k] + j] = frame[j]
    <3>1. PICK m \in 1 .. Len(seqs) : m = k + 1 /\ m - 1 = k
      BY <1>4, <2>1
    <3>2. seqs[m] = frame
      BY <1>4, <2>1, <2>2, <2>3, <3>1, Zenon
    <3>3. /\ start[m] = start[m - 1] + Len(seqs[m])
          /\ \A j \in 1 .. Len(seqs[m]) : AllBytes[start[m - 1] + j] = seqs[m][j]
      BY <1>4, <3>1, Zenon DEF Laid
    <3> QED
      BY <3>1, <3>2, <3>3, Zenon
  <2>5. ASSUME NEW j \in 1 .. Len(frame), j <= Len(b) PROVE b[j] = frame[j]
    <3>1. j \in 1 .. Len(b) /\ j \in 1 .. Len(buf) - from
      BY <1>1, <2>5
    <3> QED
      BY <1>1, <2>4, <3>1, Zenon DEF Follows
  <2>6. /\ Decode(b, version, limit) = Incomplete => Len(b) < Len(frame)
        /\ "consumed" \in DOMAIN Decode(b, version, limit) =>
             Decode(b, version, limit).consumed = Len(frame)
    <3>1. \A j \in 1 .. Len(Frame(first, body)) : j <= Len(b) => b[j] = Frame(first, body)[j]
      BY <2>3, <2>5, Zenon
    <3>2. Len(body) <= MaxVarint
      BY <2>2, Zenon
    <3>3. Decode(b, version, limit) = Incomplete => Len(b) < Len(Frame(first, body))
      BY <3>1, <3>2, DecodeFrame
    <3>4. "consumed" \in DOMAIN Decode(b, version, limit) =>
            Decode(b, version, limit).consumed = Len(Frame(first, body))
      BY <3>1, <3>2, DecodeFrame
    <3> QED
      BY <2>3, <3>3, <3>4, Zenon
  <2> QED
    BY <1>1, <1>2, <1>5, <1>7, <2>2, <2>3, <2>4, <2>6 DEF Consumed
<1> QED
  BY <1>5, <1>6, <1>7

-----------------------------------------------------------------------------
(* The theorems.                                                           *)

\* What one of the reader's users holds while it waits for bytes.
Waiting == WaitsOnlyWhenDrained /\ BufferBounded

\* A sequence grows by a member of any kind.
LEMMA Grown ==
  ASSUME NEW S, NEW s \in Seq(S), NEW e
  PROVE  Append(s, e) \in Seq(S \cup {e}) /\ Len(Append(s, e)) = Len(s) + 1
<1>1. s \in Seq(S \cup {e}) /\ e \in S \cup {e}
  OBVIOUS
<1> QED
  BY <1>1

\* Nothing has been read: the frames lie in the stream one behind the other.
LEMMA ReaderInit == Init => ReaderInv /\ Waiting
<1> SUFFICES ASSUME Init PROVE ReaderInv /\ Waiting
  OBVIOUS
<1>1. PICK packets \in Streams(version) : sent = Sent(packets, version)
  BY DEF Init
<1>2. /\ packets \in Seq(ToSet(packets))
      /\ \A p \in ToSet(packets) : /\ FirstByte(p) \in Byte
                                  /\ EncodeBody(p, version) \in Seq(Byte)
                                  /\ Len(EncodeBody(p, version)) <= MaxVarint
  BY <1>1, ReadingAssumption DEF Init
<1>3. PICK N \in Nat : N = Len(packets) /\ DOMAIN packets = 1 .. N
  BY <1>2
<1>4. sent = [i \in 1 .. N |-> [packet |-> packets[i], bytes |-> Encode(packets[i], version)]]
  BY <1>1, <1>3, Zenon DEF Sent
<1>5. Len(sent) = N /\ DOMAIN sent = 1 .. N
      /\ \A i \in 1 .. N : sent[i].bytes = Encode(packets[i], version)
  BY <1>4
<1>6. ASSUME NEW i \in 1 .. N
      PROVE  \E first \in Byte, body \in Seq(Byte) :
               Len(body) <= MaxVarint /\ sent[i].bytes = Frame(first, body)
  <2>1. packets[i] \in ToSet(packets)
    BY <1>3 DEF ToSet
  <2> QED
    BY <1>2, <1>5, <2>1, Zenon DEF Encode
<1>7. Frames
  BY <1>5, <1>6, Zenon DEF Frames
<1>8. PICK seqs \in Seq(Seq(Byte)) :
        /\ seqs = [i \in DOMAIN sent |-> sent[i].bytes] /\ Len(seqs) = N
        /\ \A i \in 1 .. N : seqs[i] = sent[i].bytes
  <2>1. ASSUME NEW i \in 1 .. N PROVE sent[i].bytes \in Seq(Byte)
    BY <1>6, FrameBytes
  <2>2. [i \in 1 .. N |-> sent[i].bytes] \in Seq(Seq(Byte)) /\ Len([i \in 1 .. N |-> sent[i].bytes]) = N
    BY <2>1
  <2> QED
    BY <1>5, <2>2, Zenon
<1>9. AllBytes = FlattenSeq(seqs)
  BY <1>8 DEF AllBytes
<1>10. seqs = SentBytes
  BY <1>8 DEF SentBytes
<1>11. AllBytes \in Seq(Byte) /\ \E start : Laid(seqs, AllBytes, start)
  BY <1>9, Flattened
<1>12. PICK start : Laid(seqs, AllBytes, start)
  BY <1>11
<1>13. coming = AllBytes /\ buffer = <<>> /\ offset = 0 /\ received = <<>> /\ limit \in Limits
  BY DEF Init
<1>14. ReaderType
  <2>1. received \in Seq({})
    BY <1>13
  <2> QED
    BY <1>11, <1>13, <2>1 DEF ReaderType
<1>15. Placed(start)
  <2>1. start[0] = 0 /\ Len(AllBytes) \in Nat
    BY <1>11, <1>12 DEF Laid
  <2>2. Follows(AllBytes, 0, <<>>, 0, AllBytes)
    BY <1>11 DEF Follows
  <2> QED
    BY <1>5, <1>13, <2>1, <2>2 DEF Placed
<1>16. WaitsOnlyWhenDrained
  <2>1. ASSUME N # 0 PROVE 0 < Len(sent[1].bytes)
    <3>1. PICK first \in Byte, body \in Seq(Byte) :
            Len(body) <= MaxVarint /\ sent[1].bytes = Frame(first, body)
      BY <1>6, <2>1
    <3>2. Len(Frame(first, body)) = 1 + VarintLength(Len(body)) + Len(body)
      BY <3>1, FrameBytes
    <3>3. Len(body) \in Nat
      OBVIOUS
    <3>4. VarintLength(Len(body)) \in 1 .. 4
      BY <3>1, <3>3, VarintBytes
    <3> QED
      BY <3>1, <3>2, <3>3, <3>4
  <2> QED
    BY <1>5, <1>13, <2>1 DEF WaitsOnlyWhenDrained
<1>17. BufferBounded
  <2>1. limit = None \/ limit[1] \in Nat
    BY <1>13, ReadingAssumption
  <2> QED
    BY <1>13, <2>1 DEF BufferBounded
<1> QED
  BY <1>7, <1>10, <1>11, <1>12, <1>14, <1>15, <1>16, <1>17 DEF ReaderInv, Waiting

\* What was sent stays what it is.
LEMMA StreamKept ==
  ASSUME Frames, AllBytes \in Seq(Byte), sent' = sent, NEW start, Laid(SentBytes, AllBytes, start)
  PROVE  Frames' /\ AllBytes' \in Seq(Byte) /\ Laid(SentBytes, AllBytes, start)'
<1>1. Frames'
  BY DEF Frames
<1>2. AllBytes' = AllBytes /\ SentBytes' = SentBytes
  BY DEF AllBytes, SentBytes
<1>3. Laid(SentBytes', AllBytes', start)
  BY <1>2
<1> QED
  BY <1>1, <1>2, <1>3

\* One round of the iterator and what its user makes of it.
LEMMA ReaderRound ==
  ASSUME ReaderInv, phase # "closed", NEW start,
         Laid(SentBytes, AllBytes, start), Placed(start),
         NEW buf \in Seq(Byte), NEW from \in 0 .. Len(buf), NEW rest \in Seq(Byte),
         Follows(AllBytes, start[Len(received)], buf, from, rest),
         NEW otherwise \in {"handshake", "reading"},
         Yield(Step(buf, from), otherwise, "iterating"),
         buffer' = buf, offset' = from + Consumed(Step(buf, from)), coming' = rest,
         UNCHANGED <<version, limit, sent>>
  PROVE  ReaderInv' /\ Waiting'
<1>1. limit \in Limits /\ Frames /\ AllBytes \in Seq(Byte)
  BY DEF ReaderInv, ReaderType
<1>2. PICK S : received \in Seq(S)
  BY DEF ReaderInv, ReaderType
<1>3. PICK k \in Nat : k = Len(received) /\ k \in 0 .. Len(sent) /\ Len(sent) \in Nat
  BY <1>1, <1>2 DEF Placed, Frames
<1>4. PICK result : result = Step(buf, from)
  OBVIOUS
<1>5. PICK taken \in 0 .. Len(buf) - from : taken = Consumed(result)
  BY <1>1, <1>4, RoundBound
<1>6. /\ start[k] \in Nat
      /\ result = Incomplete /\ k < Len(sent) => Len(buf) - from < Len(sent[k + 1].bytes)
      /\ "consumed" \in DOMAIN result => k < Len(sent) /\ start[k + 1] = start[k] + taken
  <2>1. Follows(AllBytes, start[k], buf, from, rest)
    BY <1>3, Zenon
  <2>2. /\ start[k] \in Nat
        /\ Step(buf, from) = Incomplete /\ k < Len(sent) => Len(buf) - from < Len(sent[k + 1].bytes)
        /\ "consumed" \in DOMAIN Step(buf, from) =>
             k < Len(sent) /\ start[k + 1] = start[k] + Consumed(Step(buf, from))
    <3>1. k \in 0 .. Len(sent)
      BY <1>3
    <3>2. limit \in Limits /\ Frames /\ AllBytes \in Seq(Byte) /\ Laid(SentBytes, AllBytes, start)
      BY <1>1
    <3>3. start[k] \in Nat
      BY <2>1, <3>1, <3>2, RoundTakes
    <3>4. Step(buf, from) = Incomplete /\ k < Len(sent) => Len(buf) - from < Len(sent[k + 1].bytes)
      BY <2>1, <3>1, <3>2, RoundTakes
    <3>5. "consumed" \in DOMAIN Step(buf, from) => k < Len(sent)
      BY <2>1, <3>1, <3>2, RoundTakes
    <3>6. "consumed" \in DOMAIN Step(buf, from) => start[k + 1] = start[k] + Consumed(Step(buf, from))
      BY <2>1, <3>1, <3>2, RoundTakes
    <3> QED
      BY <3>3, <3>4, <3>5, <3>6
  <2> QED
    BY <1>4, <1>5, <2>2, Zenon
<1>7. /\ sent' = sent /\ limit' = limit /\ AllBytes' = AllBytes
      /\ buffer' = buf /\ offset' = from + taken /\ coming' = rest
  BY <1>4, <1>5 DEF AllBytes
<1>8. Frames' /\ AllBytes' \in Seq(Byte) /\ Laid(SentBytes, AllBytes, start)'
  BY <1>1, <1>7, StreamKept
<1>9. Follows(AllBytes, start[k] + taken, buf, from + taken, rest)
  BY <1>1, <1>3, <1>5, <1>6, Taking
<1>10. CASE "consumed" \in DOMAIN result
  <2>1. received' = Append(received, result.packet) /\ phase' \in {"iterating", "closed"}
    BY <1>4, <1>10 DEF Yield
  <2>2. received' \in Seq(S \cup {result.packet}) /\ Len(received') = k + 1
    BY <1>2, <1>3, <2>1, Grown
  <2>3. ReaderType'
    BY <1>1, <1>5, <1>7, <2>2 DEF ReaderType
  <2>4. Placed(start)'
    <3>1. Follows(AllBytes, start[k + 1], buf, from + taken, rest) /\ k + 1 <= Len(sent)
      BY <1>3, <1>6, <1>9, <1>10
    <3> QED
      BY <1>7, <2>2, <3>1 DEF Placed, Follows
  <2>5. Waiting'
    BY <2>1 DEF Waiting, WaitsOnlyWhenDrained, BufferBounded
  <2> QED
    BY <1>8, <2>3, <2>4, <2>5 DEF ReaderInv
<1>11. CASE "consumed" \notin DOMAIN result
  <2>1. /\ received' = received /\ taken = 0
        /\ phase' = IF result = Incomplete THEN otherwise ELSE "closed"
    BY <1>4, <1>5, <1>11 DEF Yield, Consumed
  <2>2. start[k] + taken = start[k] /\ from + taken = from
    BY <1>6, <2>1
  <2>3. ReaderType'
    BY <1>1, <1>2, <1>7, <2>1, <2>2 DEF ReaderType
  <2>4. Placed(start)'
    BY <1>3, <1>7, <1>9, <2>1, <2>2 DEF Placed, Follows
  <2>5. result = Incomplete =>
          /\ k < Len(sent) => Len(buf) - from < Len(sent[k + 1].bytes)
          /\ limit # None /\ limit[1] > 4 => Len(buf) - from < limit[1]
    BY <1>1, <1>4, <1>6, RoundBound
  <2>6. phase' \in {"handshake", "reading"} => result = Incomplete
    BY <2>1
  <2>7. WaitsOnlyWhenDrained'
    BY <1>3, <1>7, <2>1, <2>2, <2>5, <2>6 DEF WaitsOnlyWhenDrained
  <2>8. BufferBounded'
    BY <1>7, <2>2, <2>5, <2>6 DEF BufferBounded
  <2> QED
    BY <1>8, <2>3, <2>4, <2>7, <2>8 DEF ReaderInv, Waiting
<1> QED
  BY <1>10, <1>11

\* Every step keeps the invariant.
LEMMA ReaderStep == ReaderInv /\ Waiting /\ [Next]_vars => ReaderInv' /\ Waiting'
<1> SUFFICES ASSUME ReaderInv, Waiting, [Next]_vars PROVE ReaderInv' /\ Waiting'
  OBVIOUS
<1>1. PICK start : /\ Laid(SentBytes, AllBytes, start)
                   /\ phase # "closed" => Placed(start)
  BY DEF ReaderInv
<1>2. /\ Frames /\ AllBytes \in Seq(Byte) /\ buffer \in Seq(Byte) /\ coming \in Seq(Byte)
      /\ offset \in 0 .. Len(buffer) /\ limit \in Limits
  BY DEF ReaderInv, ReaderType
<1>3. PICK S : received \in Seq(S)
  BY DEF ReaderInv, ReaderType
<1>4. phase # "closed" =>
        /\ start[Len(received)] \in Nat
        /\ Follows(AllBytes, start[Len(received)], buffer, offset, coming)
  <2> SUFFICES ASSUME phase # "closed"
               PROVE  /\ start[Len(received)] \in Nat
                      /\ Follows(AllBytes, start[Len(received)], buffer, offset, coming)
    OBVIOUS
  <2>1. Placed(start)
    BY <1>1
  <2>2. Len(received) \in 0 .. Len(sent)
    BY <1>2, <1>3, <2>1 DEF Placed, Frames
  <2> QED
    BY <1>1, <1>2, <2>1, <2>2, RoundTakes DEF Placed
<1>5. ASSUME NEW n \in 1 .. Len(coming), phase # "closed"
      PROVE  /\ Fed(SubSeq(coming, 1, n)) \in Seq(Byte)
             /\ SubSeq(coming, n + 1, Len(coming)) \in Seq(Byte)
             /\ Follows(AllBytes, start[Len(received)], Fed(SubSeq(coming, 1, n)), 0,
                        SubSeq(coming, n + 1, Len(coming)))
  BY <1>2, <1>4, <1>5, Feeding DEF Fed
<1>6. ASSUME NEW n \in 1 .. Len(coming), AwaitConnack(n) PROVE ReaderInv' /\ Waiting'
  <2>1. phase = "handshake" /\ phase # "closed" /\ Placed(start)
    BY <1>1, <1>6 DEF AwaitConnack
  <2>2. PICK fed \in Seq(Byte), rest \in Seq(Byte) :
          /\ fed = Fed(SubSeq(coming, 1, n)) /\ rest = SubSeq(coming, n + 1, Len(coming))
          /\ Follows(AllBytes, start[Len(received)], fed, 0, rest)
    BY <1>5, <2>1
  <2>3. /\ Yield(Step(fed, 0), "handshake", "iterating")
        /\ buffer' = fed /\ offset' = Consumed(Step(fed, 0)) /\ coming' = rest
        /\ UNCHANGED <<version, limit, sent>>
    BY <1>6, <2>2 DEF AwaitConnack, Arrive, AfterHandshake
  <2>4. 0 \in 0 .. Len(fed) /\ Consumed(Step(fed, 0)) = 0 + Consumed(Step(fed, 0))
    <3>1. 0 \in 0 .. Len(fed)
      OBVIOUS
    <3>2. Consumed(Step(fed, 0)) \in 0 .. Len(fed) - 0
      BY <1>2, <3>1, RoundBound
    <3> QED
      BY <3>1, <3>2
  <2> QED
    BY <1>1, <2>1, <2>2, <2>3, <2>4, ReaderRound
<1>7. ASSUME Dispatch PROVE ReaderInv' /\ Waiting'
  <2>1. phase # "closed" /\ Placed(start)
    BY <1>1, <1>7 DEF Dispatch
  <2>2. /\ Yield(Step(buffer, offset), "reading", "iterating")
        /\ buffer' = buffer /\ offset' = offset + Consumed(Step(buffer, offset)) /\ coming' = coming
        /\ UNCHANGED <<version, limit, sent>>
    BY <1>7 DEF Dispatch
  <2> QED
    BY <1>1, <1>2, <1>4, <2>1, <2>2, ReaderRound
<1>8. ASSUME NEW n \in 1 .. Len(coming), Read(n) PROVE ReaderInv' /\ Waiting'
  <2>1. phase # "closed" /\ Placed(start)
    BY <1>1, <1>8 DEF Read
  <2>2. PICK fed \in Seq(Byte), rest \in Seq(Byte) :
          /\ fed = Fed(SubSeq(coming, 1, n)) /\ rest = SubSeq(coming, n + 1, Len(coming))
          /\ Follows(AllBytes, start[Len(received)], fed, 0, rest)
    BY <1>5, <2>1
  <2>3. /\ buffer' = fed /\ offset' = 0 /\ coming' = rest /\ phase' = "iterating"
        /\ received' = received /\ sent' = sent /\ limit' = limit /\ AllBytes' = AllBytes
    BY <1>8, <2>2 DEF Read, Arrive, AllBytes
  <2>4. Frames' /\ AllBytes' \in Seq(Byte) /\ Laid(SentBytes, AllBytes, start)'
    BY <1>1, <1>2, <2>3, StreamKept
  <2>5. ReaderType'
    BY <1>2, <1>3, <2>3 DEF ReaderType
  <2>6. Placed(start)'
    BY <2>1, <2>2, <2>3 DEF Placed, Follows
  <2>7. Waiting'
    BY <2>3 DEF Waiting, WaitsOnlyWhenDrained, BufferBounded
  <2> QED
    BY <2>4, <2>5, <2>6, <2>7 DEF ReaderInv
<1>9. ASSUME UNCHANGED vars PROVE ReaderInv' /\ Waiting'
  <2>1. /\ buffer' = buffer /\ offset' = offset /\ coming' = coming /\ phase' = phase
        /\ received' = received /\ sent' = sent /\ limit' = limit /\ AllBytes' = AllBytes
    BY <1>9 DEF vars, AllBytes
  <2>2. Frames' /\ AllBytes' \in Seq(Byte) /\ Laid(SentBytes, AllBytes, start)'
    BY <1>1, <1>2, <2>1, StreamKept
  <2>3. ReaderType'
    BY <1>2, <1>3, <2>1 DEF ReaderType
  <2>4. (phase # "closed" => Placed(start))'
    BY <1>1, <2>1 DEF Placed, Follows
  <2>5. Waiting'
    BY <2>1 DEF Waiting, WaitsOnlyWhenDrained, BufferBounded
  <2> QED
    BY <2>2, <2>3, <2>4, <2>5 DEF ReaderInv
<1> QED
  BY <1>6, <1>7, <1>8, <1>9 DEF Next

\* However the bytes are cut, _await_connack() and _read_loop() go back to the transport
\* only when no complete packet is left in the buffer.
THEOREM WaitsOnlyWhenDrainedHolds == Spec => []WaitsOnlyWhenDrained
<1>1. Waiting => WaitsOnlyWhenDrained
  BY DEF Waiting
<1> QED
  BY <1>1, ReaderInit, ReaderStep, PTL DEF Spec

\* A packet over maximum_packet_size is refused by its header: its body is never buffered.
THEOREM BufferBoundedHolds == Spec => []BufferBounded
<1>1. Waiting => BufferBounded
  BY DEF Waiting
<1> QED
  BY <1>1, ReaderInit, ReaderStep, PTL DEF Spec

=============================================================================
