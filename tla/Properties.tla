------------------------------ MODULE Properties ------------------------------
(***************************************************************************)
(* packets/properties.py: the MQTT 5 properties of a packet.  A properties *)
(* object is a function from the names of the properties that are not None *)
(* to their values, user_properties being the sequence of its pairs.  What *)
(* may be None is a sequence of at most one value.                         *)
(***************************************************************************)
EXTENDS Wire, SequencesExt

None == <<>>
Some(v) == <<v>>

PropertyID ==
  [PAYLOAD_FORMAT_INDICATOR |-> 1, MESSAGE_EXPIRY_INTERVAL |-> 2, CONTENT_TYPE |-> 3,
   RESPONSE_TOPIC |-> 8, CORRELATION_DATA |-> 9, SUBSCRIPTION_IDENTIFIER |-> 11,
   SESSION_EXPIRY_INTERVAL |-> 17, ASSIGNED_CLIENT_IDENTIFIER |-> 18,
   SERVER_KEEP_ALIVE |-> 19, AUTHENTICATION_METHOD |-> 21, AUTHENTICATION_DATA |-> 22,
   REQUEST_PROBLEM_INFORMATION |-> 23, WILL_DELAY_INTERVAL |-> 24,
   REQUEST_RESPONSE_INFORMATION |-> 25, RESPONSE_INFORMATION |-> 26,
   SERVER_REFERENCE |-> 28, REASON_STRING |-> 31, RECEIVE_MAXIMUM |-> 33,
   TOPIC_ALIAS_MAXIMUM |-> 34, TOPIC_ALIAS |-> 35, MAXIMUM_QOS |-> 36,
   RETAIN_AVAILABLE |-> 37, USER_PROPERTY |-> 38, MAXIMUM_PACKET_SIZE |-> 39,
   WILDCARD_SUBSCRIPTION_AVAILABLE |-> 40, SUBSCRIPTION_IDENTIFIER_AVAILABLE |-> 41,
   SHARED_SUBSCRIPTION_AVAILABLE |-> 42]

\* The categories of wire types.
WireType(name) ==
  CASE name \in {"PAYLOAD_FORMAT_INDICATOR", "REQUEST_PROBLEM_INFORMATION",
                 "REQUEST_RESPONSE_INFORMATION", "MAXIMUM_QOS", "RETAIN_AVAILABLE",
                 "WILDCARD_SUBSCRIPTION_AVAILABLE", "SUBSCRIPTION_IDENTIFIER_AVAILABLE",
                 "SHARED_SUBSCRIPTION_AVAILABLE"} -> "byte"
    [] name \in {"SERVER_KEEP_ALIVE", "RECEIVE_MAXIMUM", "TOPIC_ALIAS_MAXIMUM",
                 "TOPIC_ALIAS"} -> "uint16"
    [] name \in {"MESSAGE_EXPIRY_INTERVAL", "SESSION_EXPIRY_INTERVAL",
                 "WILL_DELAY_INTERVAL", "MAXIMUM_PACKET_SIZE"} -> "uint32"
    [] name = "SUBSCRIPTION_IDENTIFIER" -> "varint"
    [] OTHER -> "str"

\* encode_props(): the properties in the order of the dict.
EncodeProps(names, d) ==
  LET One(name) ==
        LET id == <<PropertyID[name]>> IN
        IF name = "USER_PROPERTY"
        THEN FlattenSeq([i \in DOMAIN d[name] |->
                           id \o EncodeStr(d[name][i][1]) \o EncodeStr(d[name][i][2])])
        ELSE id \o EncodeValue(WireType(name), d[name])
  IN FlattenSeq([i \in DOMAIN names |-> One(names[i])])

\* The order in which encode_<kind>_properties() puts them, USER_PROPERTY last.
EncodedNames ==
  LET reason == <<"REASON_STRING", "USER_PROPERTY">> IN
  [connect |-> <<"SESSION_EXPIRY_INTERVAL", "RECEIVE_MAXIMUM", "MAXIMUM_PACKET_SIZE",
                 "TOPIC_ALIAS_MAXIMUM", "REQUEST_RESPONSE_INFORMATION",
                 "REQUEST_PROBLEM_INFORMATION", "AUTHENTICATION_METHOD",
                 "AUTHENTICATION_DATA", "USER_PROPERTY">>,
   will |-> <<"WILL_DELAY_INTERVAL", "PAYLOAD_FORMAT_INDICATOR", "MESSAGE_EXPIRY_INTERVAL",
              "CONTENT_TYPE", "RESPONSE_TOPIC", "CORRELATION_DATA", "USER_PROPERTY">>,
   connack |-> <<"SESSION_EXPIRY_INTERVAL", "RECEIVE_MAXIMUM", "MAXIMUM_QOS",
                 "RETAIN_AVAILABLE", "MAXIMUM_PACKET_SIZE", "ASSIGNED_CLIENT_IDENTIFIER",
                 "TOPIC_ALIAS_MAXIMUM", "REASON_STRING", "WILDCARD_SUBSCRIPTION_AVAILABLE",
                 "SUBSCRIPTION_IDENTIFIER_AVAILABLE", "SHARED_SUBSCRIPTION_AVAILABLE",
                 "SERVER_KEEP_ALIVE", "RESPONSE_INFORMATION", "SERVER_REFERENCE",
                 "AUTHENTICATION_METHOD", "AUTHENTICATION_DATA", "USER_PROPERTY">>,
   publish |-> <<"PAYLOAD_FORMAT_INDICATOR", "MESSAGE_EXPIRY_INTERVAL", "TOPIC_ALIAS",
                 "RESPONSE_TOPIC", "CORRELATION_DATA", "SUBSCRIPTION_IDENTIFIER",
                 "CONTENT_TYPE", "USER_PROPERTY">>,
   puback |-> reason,
   subscribe |-> <<"SUBSCRIPTION_IDENTIFIER", "USER_PROPERTY">>,
   suback |-> reason,
   unsubscribe |-> <<"USER_PROPERTY">>,
   unsuback |-> reason,
   disconnect |-> <<"SESSION_EXPIRY_INTERVAL", "REASON_STRING", "SERVER_REFERENCE",
                    "USER_PROPERTY">>,
   auth |-> <<"AUTHENTICATION_METHOD", "AUTHENTICATION_DATA", "REASON_STRING",
              "USER_PROPERTY">>]

\* encode_<kind>_properties() and encode_props_block().
EncodeProperties(kind, props) ==
  LET present == SelectSeq(EncodedNames[kind], LAMBDA n : n \in DOMAIN props[1])
      raw == EncodeProps(present, props[1])
  IN  IF props = None THEN EncodeVarint(0) ELSE EncodeVarint(Len(raw)) \o raw

NamedBy(id) == {n \in DOMAIN PropertyID : PropertyID[n] = id}

\* The value of a property, for USER_PROPERTY the sequence of its one pair.
ReadProperty(name, buf, pos) ==
  IF name # "USER_PROPERTY" THEN DecodeValue(WireType(name), buf, pos)
  ELSE IfRead(DecodeValue("str", buf, pos),
              LAMBDA k : IfRead(DecodeValue("str", buf, k.next),
                                LAMBDA v : Value(<< <<k.value, v.value>> >>, v.next)))

\* The loop of decode_props_block(): of a repeated property the last value counts, the
\* pairs of USER_PROPERTY add up.  The block ends where its length says.
ReadProps(buf, start, end) ==
  LET Merged(name, v, d) ==
        IF name = "USER_PROPERTY" /\ name \in DOMAIN d THEN [d EXCEPT ![name] = v \o @]
        ELSE d @@ name :> v
      from[p \in Nat] ==
        IF p >= end THEN Value(<<>>, end)
        ELSE IF p > Len(buf) \/ NamedBy(buf[p]) = {} THEN Malformed
        ELSE LET name == CHOOSE n \in NamedBy(buf[p]) : TRUE IN
             IfRead(ReadProperty(name, buf, p + 1),
                    LAMBDA v : IfRead(from[v.next],
                                      LAMBDA rest : Value(Merged(name, v.value, rest.value), end)))
  IN from[start]

DecodePropsBlock(buf, pos) ==
  IfRead(DecodeValue("varint", buf, pos),
         LAMBDA length : ReadProps(buf, length.next, length.next + length.value))

\* What each decode_<kind>_properties() takes from the dict, and what it makes a bool of.
DecodedNames ==
  LET reason == {"REASON_STRING", "USER_PROPERTY"} IN
  [connect |-> {"SESSION_EXPIRY_INTERVAL", "RECEIVE_MAXIMUM", "MAXIMUM_PACKET_SIZE",
                "TOPIC_ALIAS_MAXIMUM", "REQUEST_RESPONSE_INFORMATION",
                "REQUEST_PROBLEM_INFORMATION", "AUTHENTICATION_METHOD",
                "AUTHENTICATION_DATA", "USER_PROPERTY"},
   will |-> {"WILL_DELAY_INTERVAL", "PAYLOAD_FORMAT_INDICATOR", "MESSAGE_EXPIRY_INTERVAL",
             "CONTENT_TYPE", "RESPONSE_TOPIC", "CORRELATION_DATA", "USER_PROPERTY"},
   connack |-> {"SESSION_EXPIRY_INTERVAL", "RECEIVE_MAXIMUM", "MAXIMUM_QOS",
                "RETAIN_AVAILABLE", "MAXIMUM_PACKET_SIZE", "ASSIGNED_CLIENT_IDENTIFIER",
                "TOPIC_ALIAS_MAXIMUM", "REASON_STRING", "WILDCARD_SUBSCRIPTION_AVAILABLE",
                "SUBSCRIPTION_IDENTIFIER_AVAILABLE", "SHARED_SUBSCRIPTION_AVAILABLE",
                "SERVER_KEEP_ALIVE", "RESPONSE_INFORMATION", "SERVER_REFERENCE",
                "AUTHENTICATION_METHOD", "AUTHENTICATION_DATA", "USER_PROPERTY"},
   publish |-> {"PAYLOAD_FORMAT_INDICATOR", "MESSAGE_EXPIRY_INTERVAL", "TOPIC_ALIAS",
                "RESPONSE_TOPIC", "CORRELATION_DATA", "SUBSCRIPTION_IDENTIFIER",
                "CONTENT_TYPE", "USER_PROPERTY"},
   puback |-> reason,
   subscribe |-> {"SUBSCRIPTION_IDENTIFIER", "USER_PROPERTY"},
   suback |-> reason,
   unsubscribe |-> {"USER_PROPERTY"},
   unsuback |-> reason,
   disconnect |-> {"SESSION_EXPIRY_INTERVAL", "REASON_STRING", "SERVER_REFERENCE",
                   "USER_PROPERTY"},
   auth |-> {"AUTHENTICATION_METHOD", "AUTHENTICATION_DATA", "REASON_STRING",
             "USER_PROPERTY"}]

Booleans ==
  {"REQUEST_RESPONSE_INFORMATION", "REQUEST_PROBLEM_INFORMATION", "RETAIN_AVAILABLE",
   "WILDCARD_SUBSCRIPTION_AVAILABLE", "SUBSCRIPTION_IDENTIFIER_AVAILABLE",
   "SHARED_SUBSCRIPTION_AVAILABLE"}

\* An empty block is None.
DecodeProperties(kind, buf, pos) ==
  LET Taken(n, v) == IF n \in Booleans /\ v # 0 THEN 1 ELSE v
      Object(d) == IF d = <<>> THEN None
                   ELSE Some([n \in DOMAIN d \cap DecodedNames[kind] |-> Taken(n, d[n])])
  IN IfRead(DecodePropsBlock(buf, pos), LAMBDA block : Value(Object(block.value), block.next))

=============================================================================
