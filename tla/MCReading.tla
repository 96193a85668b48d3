------------------------------- MODULE MCReading -------------------------------
(* The instance of Reading that TLC checks.                                *)
EXTENDS Reading

A == <<97>>
BB == <<98, 98>>
Zeros(n) == [i \in 1 .. n |-> 0]
Pairs == << <<A, BB>>, <<A, <<>> >> >>

\* Every property of a kind at once, with values at the ends of their ranges.
Sample(name) ==
  CASE name = "USER_PROPERTY" -> Pairs
    [] WireType(name) = "byte" -> 1
    [] WireType(name) = "uint16" -> 65535
    [] WireType(name) = "uint32" -> <<65535, 65534>>
    [] WireType(name) = "varint" -> MaxVarint
    [] OTHER -> BB
All(kind) == Some([n \in ToSet(EncodedNames[kind]) |-> Sample(n)])
Reason == Some([REASON_STRING |-> A])
Identified(i) == Some([SUBSCRIPTION_IDENTIFIER |-> i])

Connack(props) == [type |-> "CONNACK", session_present |-> 1, return_code |-> 0, properties |-> props]
Refused == [Connack(None) EXCEPT !.return_code = 5]
Publish(qos, pid, payload, props) ==
  [type |-> "PUBLISH", topic |-> A, payload |-> payload, qos |-> qos, retain |-> 1,
   dup |-> IF qos = 0 THEN 0 ELSE 1, packet_id |-> pid, properties |-> props]
Ack(type, code, props) ==
  [type |-> type, packet_id |-> 256, reason_code |-> code, properties |-> props]
Will(props) == [topic |-> A, payload |-> BB, qos |-> 2, retain |-> 1, properties |-> props]
Connect(will, user, props) ==
  [type |-> "CONNECT", client_id |-> A, clean_session |-> 1, keepalive |-> 300,
   username |-> user, password |-> None, will |-> will, properties |-> props]
Request(bit, handling) ==
  [topic_filter |-> BB, qos |-> 1, no_local |-> bit, retain_as_published |-> bit,
   retain_handling |-> handling]
Subscribe(bit, handling, props) ==
  [type |-> "SUBSCRIBE", packet_id |-> 1, properties |-> props,
   subscriptions |-> <<Request(0, handling), Request(bit, 0)>>]
Suback(props) == [type |-> "SUBACK", packet_id |-> 1, return_codes |-> <<2, 128>>, properties |-> props]
Unsubscribe(props) ==
  [type |-> "UNSUBSCRIBE", packet_id |-> 1, topic_filters |-> <<A, BB>>, properties |-> props]
Unsuback(codes, props) ==
  [type |-> "UNSUBACK", packet_id |-> 1, reason_codes |-> codes, properties |-> props]
Plain(type) == [type |-> type]
Stop(type, code, props) == [type |-> type, reason_code |-> code, properties |-> props]

\* The remaining length crosses 127 between the two long messages.
Common ==
  {Publish(0, None, <<>>, None), Publish(2, Some(65535), <<0>>, None), Ack("PUBREL", 0, None),
   Ack("PUBCOMP", 0, None), Publish(0, None, Zeros(124), None), Publish(1, Some(1), Zeros(122), None),
   Connect(None, Some(A), None), Connect(Some(Will(None)), None, None), Subscribe(0, 0, None),
   Suback(None), Unsubscribe(None), Unsuback(<<>>, None), Plain("PINGREQ"), Plain("PINGRESP"),
   Stop("DISCONNECT", 0, None), Stop("AUTH", 24, None), Refused}
Only5 ==
  {Publish(1, Some(1), A, All("publish")), Publish(0, None, A, Identified(127)),
   Publish(0, None, A, Identified(128)), Publish(0, None, A, Some(<<>>)),
   Ack("PUBACK", 16, None), Ack("PUBREC", 0, Reason), Ack("PUBACK", 135, All("puback")),
   Connect(Some(Will(All("will"))), Some(A), All("connect")), Subscribe(1, 2, All("subscribe")),
   Suback(All("suback")), Unsubscribe(All("unsubscribe")), Unsuback(<<0, 17>>, All("unsuback")),
   Stop("DISCONNECT", 0, All("disconnect")), Stop("DISCONNECT", 142, None),
   Stop("AUTH", 0, All("auth"))}
Short == {Publish(0, None, <<>>, None), Suback(None), Ack("PUBCOMP", 0, None)}
NotHello == {Refused, Plain("PINGRESP"), Publish(0, None, <<>>, None)}
Of(v) == Common \cup (IF v = "5.0" THEN Only5 ELSE {})
Hello(v) == Connack(IF v = "5.0" THEN Some([SERVER_KEEP_ALIVE |-> 10]) ELSE None)

MCStreams(v) ==
  {<<Hello(v), p, q>> : p \in Of(v), q \in {Plain("PINGRESP"), Ack("PUBREL", 0, None)}}
    \cup {<<Hello(v), p, Plain("PINGRESP"), p, q>> : p, q \in Short} \cup {<<p, Hello(v)>> : p \in NotHello}
    \cup (IF v = "5.0" THEN {<<Connack(All("connack")), Plain("PINGRESP")>>} ELSE {})
MCLimits == {None, Some(30)}

=============================================================================
