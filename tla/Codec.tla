--------------------------------- MODULE Codec ---------------------------------
(***************************************************************************)
(* packets/codec.py: encode() and decode(), for both versions of MQTT.  A  *)
(* packet is a record of the attributes of its class and its type.         *)
(***************************************************************************)
EXTENDS Properties

PacketType ==
  [CONNECT |-> 1, CONNACK |-> 2, PUBLISH |-> 3, PUBACK |-> 4, PUBREC |-> 5, PUBREL |-> 6,
   PUBCOMP |-> 7, SUBSCRIBE |-> 8, SUBACK |-> 9, UNSUBSCRIBE |-> 10, UNSUBACK |-> 11,
   PINGREQ |-> 12, PINGRESP |-> 13, DISCONNECT |-> 14, AUTH |-> 15]

PubAckVariants == {"PUBACK", "PUBREC", "PUBREL", "PUBCOMP"}
MQTT == <<77, 81, 84, 84>>

Bit(n, k) == (n \div 2 ^ k) % 2
Bits(n, k) == (n \div 2 ^ k) % 4 \* two of them
When(condition, s) == IF condition THEN s ELSE <<>>
Given(o) == IF o = None THEN 0 ELSE 1
Each(s, E(_)) == FlattenSeq([i \in DOMAIN s |-> E(s[i])])

-----------------------------------------------------------------------------
(* encode()                                                                *)

\* The properties of a packet, which only MQTT 5 has.
Props5(version, kind, props) == When(version = "5.0", EncodeProperties(kind, props))

EncodeConnect(p, version) ==
  LET will == p.will[1]
      flags == 2 * p.clean_session + 128 * Given(p.username) + 64 * Given(p.password)
                 + (IF p.will = None THEN 0 ELSE 4 + 8 * will.qos + 32 * will.retain)
  IN EncodeStr(MQTT) \o <<IF version = "5.0" THEN 5 ELSE 4, flags>> \o U16(p.keepalive)
       \o Props5(version, "connect", p.properties)
       \o EncodeStr(p.client_id)
       \o When(p.will # None, Props5(version, "will", will.properties)
                                \o EncodeStr(will.topic) \o EncodeStr(will.payload))
       \o Each(p.username, EncodeStr)
       \o Each(p.password, EncodeStr)

EncodeConnack(p, version) ==
  <<p.session_present, p.return_code>> \o Props5(version, "connack", p.properties)

\* An encoder that gets no packet_id for QoS 1 or 2 raises; publish() always gives one.
EncodePublish(p, version) ==
  EncodeStr(p.topic) \o When(p.qos # 0, Each(p.packet_id, U16))
    \o Props5(version, "publish", p.properties) \o p.payload

EncodePubAckVariant(p, version) ==
  U16(p.packet_id) \o
    When(version = "5.0" /\ (p.reason_code # 0 \/ p.properties # None),
         <<p.reason_code>> \o EncodeProperties("puback", p.properties))

EncodeSubscribe(p, version) ==
  LET Options(s) == s.qos + (IF version = "5.0" THEN 4 * s.no_local + 8 * s.retain_as_published
                                                      + 16 * s.retain_handling
                             ELSE 0)
      Request(s) == EncodeStr(s.topic_filter) \o <<Options(s)>>
  IN U16(p.packet_id) \o Props5(version, "subscribe", p.properties)
       \o Each(p.subscriptions, Request)

EncodeSuback(p, version) ==
  U16(p.packet_id) \o Props5(version, "suback", p.properties) \o p.return_codes

EncodeUnsubscribe(p, version) ==
  U16(p.packet_id) \o Props5(version, "unsubscribe", p.properties)
    \o Each(p.topic_filters, EncodeStr)

EncodeUnsuback(p, version) ==
  U16(p.packet_id) \o Props5(version, "unsuback", p.properties)
    \o When(version = "5.0", p.reason_codes)

EncodeDisconnect(p, version) ==
  When(version = "5.0" /\ (p.reason_code # 0 \/ p.properties # None),
       <<p.reason_code>> \o EncodeProperties("disconnect", p.properties))

EncodeAuth(p) == <<p.reason_code>> \o EncodeProperties("auth", p.properties)

HeaderFlags(p) ==
  CASE p.type = "PUBLISH" -> 8 * p.dup + 2 * p.qos + p.retain
    [] p.type \in {"PUBREL", "SUBSCRIBE", "UNSUBSCRIBE"} -> 2
    [] OTHER -> 0

EncodeBody(p, version) ==
  CASE p.type = "CONNECT"      -> EncodeConnect(p, version)
    [] p.type = "CONNACK"      -> EncodeConnack(p, version)
    [] p.type = "PUBLISH"      -> EncodePublish(p, version)
    [] p.type \in PubAckVariants -> EncodePubAckVariant(p, version)
    [] p.type = "SUBSCRIBE"    -> EncodeSubscribe(p, version)
    [] p.type = "SUBACK"       -> EncodeSuback(p, version)
    [] p.type = "UNSUBSCRIBE"  -> EncodeUnsubscribe(p, version)
    [] p.type = "UNSUBACK"     -> EncodeUnsuback(p, version)
    [] p.type = "DISCONNECT"   -> EncodeDisconnect(p, version)
    [] p.type = "AUTH"         -> EncodeAuth(p)
    [] OTHER                   -> <<>>

FirstByte(p) == 16 * PacketType[p.type] + HeaderFlags(p)

\* The fixed header in front of the body.
Frame(first, body) == <<first>> \o EncodeVarint(Len(body)) \o body

Encode(p, version) == Frame(FirstByte(p), EncodeBody(p, version))

-----------------------------------------------------------------------------
(* decode()                                                                *)

F(name, type) == <<name, type>>

\* The fields of a body one after the other, as a function from their names.  A field is
\* of a wire type, a block of properties, or the rest of the body.
ReadField(type, buf, pos) ==
  IF type = "rest" THEN Value(SubSeq(buf, pos, Len(buf)), Len(buf) + 1)
  ELSE IF type \in DOMAIN DecodedNames THEN DecodeProperties(type, buf, pos)
  ELSE DecodeValue(type, buf, pos)

ReadFields(layout, buf, pos) ==
  LET Next(read, f) ==
        IfRead(read, LAMBDA r :
          IfRead(ReadField(f[2], buf, r.next), LAMBDA v : Value(r.value @@ f[1] :> v.value, v.next)))
  IN FoldLeft(Next, Value(<<>>, pos), layout)

\* `while pos < len(buf)': records of the same fields up to the end of the body.
ReadRepeated(layout, buf, pos) ==
  LET from[p \in Nat] ==
        IF p > Len(buf) THEN Value(<<>>, p)
        ELSE IfRead(ReadFields(layout, buf, p), LAMBDA one :
               IfRead(from[one.next], LAMBDA rest : Value(<<one.value>> \o rest.value, rest.next)))
  IN from[pos]

FieldOr(fields, name, default) == IF name \in DOMAIN fields THEN fields[name] ELSE default
Optional(fields, name) == IF name \in DOMAIN fields THEN Some(fields[name]) ELSE None
PropsOf(fields) == FieldOr(fields, "properties", None)

\* CONNECT says itself which version it is.
ConnectLayout(flags, v5) ==
  When(v5, <<F("properties", "connect")>>) \o <<F("client_id", "str")>>
    \o When(Bit(flags, 2) = 1, When(v5, <<F("will_properties", "will")>>)
                                 \o <<F("topic", "str"), F("payload", "str")>>)
    \o When(Bit(flags, 7) = 1, <<F("username", "str")>>)
    \o When(Bit(flags, 6) = 1, <<F("password", "str")>>)

DecodeConnect(buf) ==
  LET Will(f, flags) ==
        [topic |-> f.topic, payload |-> f.payload, qos |-> Bits(flags, 3),
         retain |-> Bit(flags, 5), properties |-> FieldOr(f, "will_properties", None)]
      Packet(head, f) ==
        [type |-> "CONNECT", client_id |-> f.client_id, clean_session |-> Bit(head.flags, 1),
         keepalive |-> head.keepalive, username |-> Optional(f, "username"),
         password |-> Optional(f, "password"),
         will |-> IF Bit(head.flags, 2) = 1 THEN Some(Will(f, head.flags)) ELSE None,
         properties |-> PropsOf(f)]
      Rest(head, pos) ==
        IF head.name # MQTT \/ head.level \notin {4, 5} \/ Bits(head.flags, 3) = 3 THEN Malformed
        ELSE IfRead(ReadFields(ConnectLayout(head.flags, head.level = 5), buf, pos),
                    LAMBDA read : Packet(head, read.value))
  IN IfRead(ReadFields(<<F("name", "str"), F("level", "byte"), F("flags", "byte"),
                         F("keepalive", "uint16")>>, buf, 1),
            LAMBDA head : Rest(head.value, head.next))

DecodeConnack(buf, version) ==
  IfRead(ReadFields(<<F("present", "byte"), F("code", "byte")>>
                      \o When(version = "5.0" /\ Len(buf) > 2, <<F("properties", "connack")>>), buf, 1),
         LAMBDA read : [type |-> "CONNACK", session_present |-> Bit(read.value.present, 0),
                        return_code |-> read.value.code, properties |-> PropsOf(read.value)])

DecodePublish(buf, flags, version) ==
  LET qos == Bits(flags, 1)
      Packet(f) ==
        [type |-> "PUBLISH", topic |-> f.topic, payload |-> f.payload, qos |-> qos,
         retain |-> Bit(flags, 0), dup |-> Bit(flags, 3),
         packet_id |-> Optional(f, "packet_id"), properties |-> PropsOf(f)]
  IN IF qos = 3 THEN Malformed
     ELSE IfRead(ReadFields(<<F("topic", "str")>>
                              \o When(qos # 0, <<F("packet_id", "uint16")>>)
                              \o When(version = "5.0", <<F("properties", "publish")>>)
                              \o <<F("payload", "rest")>>, buf, 1),
                 LAMBDA read : Packet(read.value))

DecodePubAckVariant(type, buf, version) ==
  IfRead(ReadFields(<<F("packet_id", "uint16")>>
                      \o When(version = "5.0" /\ Len(buf) > 2, <<F("code", "byte")>>)
                      \o When(version = "5.0" /\ Len(buf) > 3, <<F("properties", "puback")>>), buf, 1),
         LAMBDA read : [type |-> type, packet_id |-> read.value.packet_id,
                        reason_code |-> FieldOr(read.value, "code", 0),
                        properties |-> PropsOf(read.value)])

\* What SUBSCRIBE, SUBACK, UNSUBSCRIBE and UNSUBACK begin with.
ReadHead(kind, buf, version) ==
  ReadFields(<<F("packet_id", "uint16")>> \o When(version = "5.0", <<F("properties", kind)>>),
             buf, 1)

DecodeSubscribe(buf, version) ==
  LET v5 == version = "5.0"
      Request(item) ==
        [topic_filter |-> item.topic_filter, qos |-> item.options % 4,
         no_local |-> IF v5 THEN Bit(item.options, 2) ELSE 0,
         retain_as_published |-> IF v5 THEN Bit(item.options, 3) ELSE 0,
         retain_handling |-> IF v5 THEN Bits(item.options, 4) ELSE 0]
      Bad(item) == item.options % 4 = 3 \/ (v5 /\ Bits(item.options, 4) = 3)
      Packet(head, items) ==
        IF \E i \in DOMAIN items : Bad(items[i]) THEN Malformed
        ELSE [type |-> "SUBSCRIBE", packet_id |-> head.packet_id, properties |-> PropsOf(head),
              subscriptions |-> [i \in DOMAIN items |-> Request(items[i])]]
  IN IfRead(ReadHead("subscribe", buf, version), LAMBDA head :
       IfRead(ReadRepeated(<<F("topic_filter", "str"), F("options", "byte")>>, buf, head.next),
              LAMBDA items : Packet(head.value, items.value)))

DecodeSuback(buf, version) ==
  IfRead(ReadHead("suback", buf, version), LAMBDA head :
    [type |-> "SUBACK", packet_id |-> head.value.packet_id,
     return_codes |-> SubSeq(buf, head.next, Len(buf)), properties |-> PropsOf(head.value)])

DecodeUnsubscribe(buf, version) ==
  LET Packet(head, items) ==
        [type |-> "UNSUBSCRIBE", packet_id |-> head.packet_id, properties |-> PropsOf(head),
         topic_filters |-> [i \in DOMAIN items |-> items[i].topic_filter]]
  IN IfRead(ReadHead("unsubscribe", buf, version), LAMBDA head :
       IfRead(ReadRepeated(<<F("topic_filter", "str")>>, buf, head.next),
              LAMBDA items : Packet(head.value, items.value)))

DecodeUnsuback(buf, version) ==
  IfRead(ReadHead("unsuback", buf, version), LAMBDA head :
    [type |-> "UNSUBACK", packet_id |-> head.value.packet_id,
     reason_codes |-> When(version = "5.0", SubSeq(buf, head.next, Len(buf))),
     properties |-> PropsOf(head.value)])

\* A DISCONNECT of MQTT 3.1.1 has no body; an AUTH always has one.
DecodeReason(type, kind, buf, version) ==
  IfRead(ReadFields(When(version = "5.0" /\ Len(buf) >= 1, <<F("code", "byte")>>)
                      \o When(version = "5.0" /\ Len(buf) > 1, <<F("properties", kind)>>), buf, 1),
         LAMBDA read : [type |-> type, reason_code |-> FieldOr(read.value, "code", 0),
                        properties |-> PropsOf(read.value)])

DecodeBody(type, flags, buf, version) ==
  CASE type = "CONNECT"      -> DecodeConnect(buf)
    [] type = "CONNACK"      -> DecodeConnack(buf, version)
    [] type = "PUBLISH"      -> DecodePublish(buf, flags, version)
    [] type \in PubAckVariants -> DecodePubAckVariant(type, buf, version)
    [] type = "SUBSCRIBE"    -> DecodeSubscribe(buf, version)
    [] type = "SUBACK"       -> DecodeSuback(buf, version)
    [] type = "UNSUBSCRIBE"  -> DecodeUnsubscribe(buf, version)
    [] type = "UNSUBACK"     -> DecodeUnsuback(buf, version)
    [] type = "DISCONNECT"   -> DecodeReason("DISCONNECT", "disconnect", buf, version)
    [] type = "AUTH"         -> IF buf = <<>> THEN Malformed
                                ELSE DecodeReason("AUTH", "auth", buf, "5.0")
    [] OTHER                 -> [type |-> type]

TooLarge == [too_large |-> TRUE]

\* The packet with the number of bytes it took.
Complete(p, consumed) == IF p = Malformed THEN Malformed ELSE [packet |-> p, consumed |-> consumed]

\* decode() behind the remaining length, which ends at `next'.
DecodeRest(buf, version, limit, next, total) ==
  LET types == {t \in DOMAIN PacketType : PacketType[t] = buf[1] \div 16}
  IN IF limit # None /\ total > limit[1] THEN TooLarge
     ELSE IF Len(buf) < total THEN Incomplete
     ELSE IF types = {} THEN Malformed
     ELSE Complete(DecodeBody(CHOOSE t \in types : TRUE, buf[1] % 16, SubSeq(buf, next, total), version),
                   total)

\* decode(): None is Incomplete, PacketTooLargeError is TooLarge.  limit is a size or None.
Decode(buf, version, limit) ==
  LET Remaining(length) ==
        IF length = Incomplete THEN Incomplete
        ELSE DecodeRest(buf, version, limit, length.next, length.next - 1 + length.value)
  IN IF Len(buf) < 2 THEN Incomplete ELSE IfRead(DecodeVarint(buf, 2), Remaining)

=============================================================================
