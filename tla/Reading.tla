-------------------------------- MODULE Reading --------------------------------
(***************************************************************************)
(* packets/reader.py and its two users, _await_connack() and _read_loop()  *)
(* of MQTTProtocol: bytes come in chunks that have nothing to do with the  *)
(* packets, and packets come out.                                          *)
(*                                                                         *)
(* The handshake returns from the middle of an iteration, with the rest of *)
(* the chunk in the buffer; the read loop goes on with that rest.  While a *)
(* packet is dispatched the loop is suspended, so that each packet is a    *)
(* step of its own.                                                        *)
(***************************************************************************)
EXTENDS Codec

CONSTANTS
  Versions, Streams(_), \* what the broker sends in a session of that version
  Limits                \* values of maximum_packet_size, None among them

\* The broker sends packets that encode() can write: bytes, and no more of them than the
\* remaining length can say.
ASSUME ReadingAssumption ==
  /\ \A v \in Versions : \A packets \in Streams(v) :
       /\ packets \in Seq(ToSet(packets))
       /\ \A p \in ToSet(packets) : /\ FirstByte(p) \in Byte
                                   /\ EncodeBody(p, v) \in Seq(Byte)
                                   /\ Len(EncodeBody(p, v)) <= MaxVarint
  /\ \A l \in Limits : l = None \/ (Len(l) = 1 /\ l[1] \in Nat)

VARIABLES
  version, limit, \* of the PacketBuffer
  sent,     \* the broker's packets, the CONNACK first, with what encode() makes of them
  coming,   \* bytes that are still on the way
  buffer,   \* _buf
  offset,   \* _offset
  phase,    \* "handshake", "iterating", "reading" or "closed"
  received  \* the packets that the iterator yielded

vars == <<version, limit, sent, coming, buffer, offset, phase, received>>

Sent(packets, v) == [i \in DOMAIN packets |-> [packet |-> packets[i], bytes |-> Encode(packets[i], v)]]
AllBytes == FlattenSeq([i \in DOMAIN sent |-> sent[i].bytes])

Init ==
  /\ version \in Versions
  /\ limit \in Limits
  /\ sent \in {Sent(packets, version) : packets \in Streams(version)}
  /\ coming = AllBytes
  /\ buffer = <<>>
  /\ offset = 0
  /\ phase = "handshake"
  /\ received = <<>>

-----------------------------------------------------------------------------
(* PacketBuffer                                                            *)

\* The buffer after feed(), which drops what has been parsed and resets the offset.
Fed(data) == SubSeq(buffer, offset + 1, Len(buffer)) \o data

\* Mutant: the limit is compared with what has arrived, not with what is announced.
StepWhenArrived(buf, from) ==
  LET result == Decode(SubSeq(buf, from + 1, Len(buf)), version, None)
  IN  IF limit # None /\ "consumed" \in DOMAIN result
      THEN (IF result.consumed > limit[1] THEN TooLarge ELSE result)
      ELSE result

\* One round of __iter__().
Step(buf, from) == Decode(SubSeq(buf, from + 1, Len(buf)), version, limit)

\* The packets each of them takes; the others make it raise.
Acceptable(p, place) ==
  IF place = 1 THEN p.type = "CONNACK" /\ p.return_code = 0
  ELSE \/ p.type \in PubAckVariants \cup {"PUBLISH", "SUBACK", "UNSUBACK", "PINGRESP"}
       \/ p.type = "AUTH" /\ version = "5.0"

\* What the loop around the iterator does with its next result.  Malformed and TooLarge
\* are raised, and end the connection.
Yield(result, otherwise, after) ==
  IF "consumed" \notin DOMAIN result
  THEN /\ phase' = IF result = Incomplete THEN otherwise ELSE "closed"
       /\ UNCHANGED received
  ELSE /\ received' = Append(received, result.packet)
       /\ phase' = IF Acceptable(result.packet, Len(received')) THEN after ELSE "closed"

Consumed(result) == IF "consumed" \in DOMAIN result THEN result.consumed ELSE 0

-----------------------------------------------------------------------------
(* Its users.  transport.read() returns the next n bytes.                  *)

Arrive(n) == coming' = SubSeq(coming, n + 1, Len(coming))

\* Mutant: the read loop first waits for more bytes.
AfterHandshakeReads == "reading"

AfterHandshake == "iterating"

\* _await_connack(): feed, and one round of the iterator.  The CONNACK ends it.
AwaitConnack(n) ==
  /\ phase = "handshake"
  /\ Arrive(n)
  /\ LET result == Step(Fed(SubSeq(coming, 1, n)), 0)
     IN /\ Yield(result, "handshake", AfterHandshake)
        /\ buffer' = Fed(SubSeq(coming, 1, n))
        /\ offset' = Consumed(result)
  /\ UNCHANGED <<version, limit, sent>>

\* _read_loop(): the next packet is dispatched, or there is none.
Dispatch ==
  /\ phase = "iterating"
  /\ LET result == Step(buffer, offset)
     IN /\ Yield(result, "reading", "iterating")
        /\ offset' = offset + Consumed(result)
  /\ UNCHANGED <<version, limit, sent, coming, buffer>>

Read(n) ==
  /\ phase = "reading"
  /\ Arrive(n)
  /\ buffer' = Fed(SubSeq(coming, 1, n))
  /\ offset' = 0
  /\ phase' = "iterating"
  /\ UNCHANGED <<version, limit, sent, received>>

Next ==
  \/ \E n \in 1 .. Len(coming) : AwaitConnack(n) \/ Read(n)
  \/ Dispatch

Spec == Init /\ [][Next]_vars

-----------------------------------------------------------------------------
(* Properties.                                                             *)

\* A properties object without properties is read back as None.
Canonical(p) ==
  IF "properties" \in DOMAIN p /\ p.properties = Some(<<>>)
  THEN [p EXCEPT !.properties = None] ELSE p

Oversized(bytes) == limit # None /\ Len(bytes) > limit[1]

Channel == INSTANCE PacketChannel
  WITH sent <- [i \in DOMAIN sent |-> [packet |-> Canonical(sent[i].packet),
                                       oversized |-> Oversized(sent[i].bytes),
                                       accepted |-> Acceptable(sent[i].packet, i)]],
       open <- phase # "closed"

\* However the bytes are cut, the packets that encode() wrote are yielded unchanged, in
\* order and once each, by handshake and read loop together; the connection closes only at
\* an oversized packet or behind one that is not accepted.
ImplementsChannel == Channel!Spec

\* Whoever waits for bytes has handed over every packet that has arrived completely: no
\* packet behind the CONNACK waits for the next one.
WaitsOnlyWhenDrained ==
  phase \in {"handshake", "reading"} /\ Len(received) < Len(sent) =>
    Len(buffer) - offset < Len(sent[Len(received) + 1].bytes)

\* An oversized packet is refused before its body is buffered: whoever waits for more
\* bytes holds less than the limit, or a header that is still incomplete.
BufferBounded ==
  phase \in {"handshake", "reading"} /\ limit # None /\ limit[1] > 4 =>
    Len(buffer) - offset < limit[1]

=============================================================================
