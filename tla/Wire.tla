--------------------------------- MODULE Wire ---------------------------------
(***************************************************************************)
(* packets/_wire.py: how integers and strings are laid out in bytes.       *)
(*                                                                         *)
(* A buffer is a sequence of bytes; a string is the sequence of its UTF-8  *)
(* bytes; a 32 bit integer is the pair of its 16 bit halves; a boolean is  *)
(* 0 or 1, which in Python it is.  A reader takes a buffer and a position  *)
(* and returns the value and the position behind it, or Malformed where    *)
(* the code raises ValueError, IndexError or struct.error.                 *)
(***************************************************************************)
EXTENDS Integers, Sequences

Byte == 0 .. 255

MaxVarint == 268435455

\* Mutant: 128 is still written as one byte.
VarintLengthOffByOne(v) ==
  CASE v <= 128 -> 1 [] v > 128 /\ v < 16384 -> 2 [] v >= 16384 /\ v < 2097152 -> 3 [] v >= 2097152 -> 4

\* The number of rounds of the loop of encode_varint().
VarintLength(v) ==
  CASE v < 128 -> 1 [] v >= 128 /\ v < 16384 -> 2 [] v >= 16384 /\ v < 2097152 -> 3 [] v >= 2097152 -> 4

\* The multiplier in each round.
Weight == <<1, 128, 16384, 2097152>>

\* Seven bits a byte, the lowest first; bit 7 says that another byte follows.
EncodeVarint(v) ==
  [i \in 1 .. VarintLength(v) |->
     ((v \div Weight[i]) % 128) + (IF i < VarintLength(v) THEN 128 ELSE 0)]

Value(v, next) == [value |-> v, next |-> next]
Malformed == [malformed |-> TRUE]
Incomplete == [incomplete |-> TRUE]

\* Reading goes on from v, unless reading v raised.
IfRead(v, Then(_)) == IF v = Malformed THEN Malformed ELSE Then(v)

\* decode_varint(); what it finds too short, decode() finds incomplete.
DecodeVarint(buf, pos) ==
  LET last == {i \in 1 .. 4 : pos + i - 1 <= Len(buf) /\ buf[pos + i - 1] < 128}
      n == CHOOSE i \in last : \A j \in last : i <= j
      Round(i) == IF i <= n THEN (buf[pos + i - 1] % 128) * Weight[i] ELSE 0
  IN IF last # {} THEN Value(Round(1) + Round(2) + Round(3) + Round(4), pos + n)
     ELSE IF pos + 3 <= Len(buf) THEN Malformed ELSE Incomplete

\* Inside a packet that is complete, a varint that is too short is malformed.
Truncated(v) == IF v = Incomplete THEN Malformed ELSE v

U16(v) == <<v \div 256, v % 256>>
EncodeStr(s) == U16(Len(s)) \o s

\* One value of a wire type.  decode_str() and decode_bytes_field() do the same, since
\* a string is its bytes here.
EncodeValue(type, v) ==
  CASE type = "byte"   -> <<v>>
    [] type = "uint16" -> U16(v)
    [] type = "uint32" -> U16(v[1]) \o U16(v[2])
    [] type = "varint" -> EncodeVarint(v)
    [] type = "str"    -> EncodeStr(v)

DecodeValue(type, buf, pos) ==
  LET Has(n) == pos + n - 1 <= Len(buf)
      At16(p) == 256 * buf[p] + buf[p + 1]
  IN CASE type = "byte"   -> IF Has(1) THEN Value(buf[pos], pos + 1) ELSE Malformed
       [] type = "uint16" -> IF Has(2) THEN Value(At16(pos), pos + 2) ELSE Malformed
       [] type = "uint32" -> IF Has(4) THEN Value(<<At16(pos), At16(pos + 2)>>, pos + 4)
                             ELSE Malformed
       [] type = "varint" -> Truncated(DecodeVarint(buf, pos))
       [] type = "str"    -> IF Has(2) /\ Has(2 + At16(pos))
                             THEN Value(SubSeq(buf, pos + 2, pos + 1 + At16(pos)), pos + 2 + At16(pos))
                             ELSE Malformed

=============================================================================
