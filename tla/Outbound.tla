------------------------------- MODULE Outbound -------------------------------
(***************************************************************************)
(* The outbound half of MQTTProtocol (protocol.py) on one connection:      *)
(* publish() at QoS 0, 1 and 2, the SUBSCRIBE and UNSUBSCRIBE exchanges,   *)
(* the handlers of their acknowledgements, and the end of run().           *)
(*                                                                         *)
(* Every op in Ops is one call made by one application task.  A call is    *)
(* cut at its await points: it registers and writes its packet in one      *)
(* step (Start...), waits in transport.write() ("sending"), then waits for *)
(* its future ("awaiting"), and is resumed by the event loop some time     *)
(* after the future is done (Wake).  The read loop, the tasks, a           *)
(* cancellation and the loss of the connection interleave freely at those  *)
(* points.                                                                 *)
(*                                                                         *)
(* The broker conforms to MQTT: it answers every packet once, in any       *)
(* order.  Packets carry the op they belong to, which neither side looks   *)
(* at; it is there to state that answers reach the right caller.           *)
(***************************************************************************)
EXTENDS PacketIds

CONSTANTS
  Ops,            \* the calls made on this connection
  NoOp,           \* an empty slot of a table (a key that is not in the dict)
  Kinds,          \* the kinds of call the application makes
  Interruptible,  \* the kinds of call whose task may be cancelled, or whose write()
                  \* may fail, while the read loop still runs
  Unencodable,    \* the calls whose packet encode() rejects with an exception
  Retained,       \* the publishes that set the retain flag
  MaxPublishQoS,  \* Maximum QoS of the CONNACK
  RetainAvailable \* Retain Available of the CONNACK

PublishKinds   == {"qos0", "qos1", "qos2"}
SubscribeKinds == {"subscribe", "unsubscribe"}

ASSUME OutboundAssumption ==
  /\ NoOp \notin Ops
  /\ Kinds \subseteq PublishKinds \cup SubscribeKinds
  /\ Interruptible \subseteq Kinds
  /\ Unencodable \subseteq Ops
  /\ Retained \subseteq Ops
  /\ MaxPublishQoS \in 0 .. 2
  /\ RetainAvailable \in BOOLEAN

VARIABLES
  conn,          \* "up"; "closing": run() awaits its tasks; "dead": _dead is set
  cause,         \* what ended run()
  reading,       \* FALSE while the read loop waits for its PUBREL to be written
  pool,          \* SessionState.packet_ids
  inflight1,     \* SessionState.inflight_qos1, the op that owns each entry
  inflight2,     \* SessionState.inflight_qos2_out, likewise
  q2state,       \* OutboundQoS2Flight.state of the entries of inflight2
  pendingSubs,   \* SessionState.pending_subs
  pendingUnsubs, \* SessionState.pending_unsubs
  kind, pc, pid, \* what each call is, where it is, the identifier it acquired
  fut,           \* the future each call waits for
  cancelled,     \* the application cancelled the call's task
  outcome,       \* how the call returned or what it raised
  net,           \* packets written and not yet handled by their receiver
  resolver       \* ghost: the op whose answer completed a future

tables == <<inflight1, inflight2, q2state, pendingSubs, pendingUnsubs>>
callVars == <<kind, pc, pid, fut, cancelled, outcome, resolver>>
connVars == <<conn, cause, reading>>
vars == <<connVars, pool, tables, callVars, net>>

ClientPackets == {"PUBLISH1", "PUBLISH2", "PUBREL", "SUBSCRIBE", "UNSUBSCRIBE"}
BrokerPackets == {"PUBACK", "PUBREC", "PUBCOMP", "SUBACK", "UNSUBACK"}

\* ok is FALSE for a reason code of 0x80 or above.
Packet == [type : ClientPackets \cup BrokerPackets, id : PacketId,
           op : Ops, ok : BOOLEAN]

Pkt(type, id, o, ok) == [type |-> type, id |-> id, op |-> o, ok |-> ok]

Table == [PacketId -> Ops \cup {NoOp}]
EmptyTable == [i \in PacketId |-> NoOp]

Outcomes == {"none", "ok", "rejected", "disconnected", "cancelled",
             "refused", "exhausted", "unencodable"}

TypeOK ==
  /\ conn \in {"up", "closing", "dead"}
  /\ cause \in {"none", "lost", "protocol", "internal"}
  /\ reading \in BOOLEAN
  /\ pool \in Pool
  /\ inflight1 \in Table /\ inflight2 \in Table
  /\ q2state \in [PacketId -> {"pending_pubrec", "pending_pubcomp"}]
  /\ pendingSubs \in Table /\ pendingUnsubs \in Table
  /\ kind \in [Ops -> Kinds \cup {"none"}]
  /\ pc \in [Ops -> {"idle", "sending", "awaiting", "finished"}]
  /\ pid \in [Ops -> PacketId \cup {0}]
  /\ fut \in [Ops -> {"none", "pending", "ok", "rejected", "lost", "cancelled"}]
  /\ cancelled \in [Ops -> BOOLEAN]
  /\ outcome \in [Ops -> Outcomes]
  /\ resolver \in [Ops -> Ops \cup {NoOp}]
  /\ net \in SUBSET Packet

Init ==
  /\ conn = "up" /\ cause = "none" /\ reading = TRUE
  /\ pool = EmptyPool
  /\ inflight1 = EmptyTable /\ inflight2 = EmptyTable
  /\ q2state = [i \in PacketId |-> "pending_pubrec"]
  /\ pendingSubs = EmptyTable /\ pendingUnsubs = EmptyTable
  /\ kind = [o \in Ops |-> "none"]
  /\ pc = [o \in Ops |-> "idle"]
  /\ pid = [o \in Ops |-> 0]
  /\ fut = [o \in Ops |-> "none"]
  /\ cancelled = [o \in Ops |-> FALSE]
  /\ outcome = [o \in Ops |-> "none"]
  /\ resolver = [o \in Ops |-> NoOp]
  /\ net = {}

-----------------------------------------------------------------------------
(* Calls.                                                                  *)

\* The call ends: it returns or raises result.
Finish(o, result) ==
  /\ pc' = [pc EXCEPT ![o] = "finished"]
  /\ outcome' = [outcome EXCEPT ![o] = result]

QoSOf(k) == CASE k = "qos0" -> 0 [] k = "qos1" -> 1 [] OTHER -> 2

\* The local refusals of publish(), before anything is registered.
RefusedLocally(o, k) ==
  /\ k \in PublishKinds
  /\ \/ QoSOf(k) > MaxPublishQoS
     \/ o \in Retained /\ ~RetainAvailable

\* _ensure_alive() raises MQTTDisconnectedError once run() has exited.
StartOnDead(o, k) ==
  /\ pc[o] = "idle" /\ conn = "dead"
  /\ Finish(o, "disconnected")
  /\ kind' = [kind EXCEPT ![o] = k]
  /\ UNCHANGED <<connVars, pool, tables, pid, fut, cancelled, resolver, net>>

StartRefused(o, k) ==
  /\ pc[o] = "idle" /\ conn # "dead"
  /\ RefusedLocally(o, k)
  /\ Finish(o, "refused")
  /\ kind' = [kind EXCEPT ![o] = k]
  /\ UNCHANGED <<connVars, pool, tables, pid, fut, cancelled, resolver, net>>

\* packet_ids.acquire() raises RuntimeError.
StartExhausted(o, k) ==
  /\ pc[o] = "idle" /\ conn # "dead"
  /\ k # "qos0" /\ ~RefusedLocally(o, k)
  /\ Exhausted(pool)
  /\ Finish(o, "exhausted")
  /\ kind' = [kind EXCEPT ![o] = k]
  /\ UNCHANGED <<connVars, pool, tables, pid, fut, cancelled, resolver, net>>

\* The body of publish() at QoS 0: encode, then write.
StartQoS0(o) ==
  /\ pc[o] = "idle" /\ conn # "dead"
  /\ ~RefusedLocally(o, "qos0")
  /\ kind' = [kind EXCEPT ![o] = "qos0"]
  /\ IF o \in Unencodable
       THEN Finish(o, "unencodable")
       ELSE pc' = [pc EXCEPT ![o] = "sending"] /\ UNCHANGED outcome
  /\ UNCHANGED <<connVars, pool, tables, pid, fut, cancelled, resolver, net>>

\* What a call that needs an identifier does first: acquire it, create the
\* future and write the packet.  The flight of a publish is registered before
\* encode() and nothing removes it if encode() raises; _send_subscribe and
\* _send_unsubscribe give table entry and identifier back in their finally.
Begin(o, k, type, id) ==
  /\ kind' = [kind EXCEPT ![o] = k]
  /\ pid' = [pid EXCEPT ![o] = id]
  /\ fut' = [fut EXCEPT ![o] = "pending"]
  /\ IF o \in Unencodable
       THEN Finish(o, "unencodable") /\ UNCHANGED net
       ELSE /\ pc' = [pc EXCEPT ![o] = "sending"]
            /\ net' = net \cup {Pkt(type, id, o, TRUE)}
            /\ UNCHANGED outcome

MayAcquire(o, k) ==
  /\ pc[o] = "idle" /\ conn # "dead"
  /\ ~RefusedLocally(o, k) /\ ~Exhausted(pool)

StartQoS1(o) ==
  LET id == NextFree(pool) IN
  /\ MayAcquire(o, "qos1")
  /\ Begin(o, "qos1", "PUBLISH1", id)
  /\ pool' = Acquire(pool)
  /\ inflight1' = [inflight1 EXCEPT ![id] = o]
  /\ UNCHANGED <<connVars, inflight2, q2state, pendingSubs, pendingUnsubs,
                 cancelled, resolver>>

StartQoS2(o) ==
  LET id == NextFree(pool) IN
  /\ MayAcquire(o, "qos2")
  /\ Begin(o, "qos2", "PUBLISH2", id)
  /\ pool' = Acquire(pool)
  /\ inflight2' = [inflight2 EXCEPT ![id] = o]
  /\ q2state' = [q2state EXCEPT ![id] = "pending_pubrec"]
  /\ UNCHANGED <<connVars, inflight1, pendingSubs, pendingUnsubs,
                 cancelled, resolver>>

StartSubscribe(o) ==
  LET id == NextFree(pool) IN
  /\ MayAcquire(o, "subscribe")
  /\ Begin(o, "subscribe", "SUBSCRIBE", id)
  /\ IF o \in Unencodable
       THEN pool' = Release(Acquire(pool), id) /\ UNCHANGED pendingSubs
       ELSE /\ pool' = Acquire(pool)
            /\ pendingSubs' = [pendingSubs EXCEPT ![id] = o]
  /\ UNCHANGED <<connVars, inflight1, inflight2, q2state, pendingUnsubs,
                 cancelled, resolver>>

StartUnsubscribe(o) ==
  LET id == NextFree(pool) IN
  /\ MayAcquire(o, "unsubscribe")
  /\ Begin(o, "unsubscribe", "UNSUBSCRIBE", id)
  /\ IF o \in Unencodable
       THEN pool' = Release(Acquire(pool), id) /\ UNCHANGED pendingUnsubs
       ELSE /\ pool' = Acquire(pool)
            /\ pendingUnsubs' = [pendingUnsubs EXCEPT ![id] = o]
  /\ UNCHANGED <<connVars, inflight1, inflight2, q2state, pendingSubs,
                 cancelled, resolver>>

\* Mutant: _send_subscribe forgets packet_ids.release() in its finally.
LeaveExchangeKeepsId(o) ==
  /\ pendingSubs' = IF kind[o] = "subscribe"
                      THEN [pendingSubs EXCEPT ![pid[o]] = NoOp] ELSE pendingSubs
  /\ UNCHANGED <<pool, pendingUnsubs, inflight1, inflight2, q2state>>

\* Mutant: publish() gets a finally like that of _send_subscribe.
LeaveExchangeOfPublish(o) ==
  /\ pendingSubs' = [pendingSubs EXCEPT ![pid[o]] = NoOp]
  /\ inflight1' = [inflight1 EXCEPT ![pid[o]] = IF kind[o] = "qos1" THEN NoOp ELSE @]
  /\ inflight2' = [inflight2 EXCEPT ![pid[o]] = IF kind[o] = "qos2" THEN NoOp ELSE @]
  /\ pool' = Release(pool, pid[o])
  /\ UNCHANGED <<pendingUnsubs, q2state>>

\* The finally blocks of _send_subscribe and _send_unsubscribe run when the
\* call leaves them, however it leaves; publish() has none.
LeaveExchange(o) ==
  /\ pendingSubs' = IF kind[o] = "subscribe"
                      THEN [pendingSubs EXCEPT ![pid[o]] = NoOp] ELSE pendingSubs
  /\ pendingUnsubs' = IF kind[o] = "unsubscribe"
                        THEN [pendingUnsubs EXCEPT ![pid[o]] = NoOp] ELSE pendingUnsubs
  /\ pool' = IF kind[o] \in SubscribeKinds THEN Release(pool, pid[o]) ELSE pool
  /\ UNCHANGED <<inflight1, inflight2, q2state>>

\* transport.write() returns: QoS 0 is done, the others await their future.
SendDone(o) ==
  /\ pc[o] = "sending"
  /\ IF kind[o] = "qos0"
       THEN Finish(o, "ok")
       ELSE pc' = [pc EXCEPT ![o] = "awaiting"] /\ UNCHANGED outcome
  /\ UNCHANGED <<connVars, pool, tables, kind, pid, fut, cancelled, resolver, net>>

\* transport.write() raises MQTTDisconnectedError: the socket failed or drain()
\* timed out.  The read loop need not have noticed, and the broker may still
\* answer what it received.
SendFails(o) ==
  /\ pc[o] = "sending"
  /\ conn # "up" \/ kind[o] \in Interruptible
  /\ Finish(o, "disconnected")
  /\ LeaveExchange(o)
  /\ UNCHANGED <<connVars, kind, pid, fut, cancelled, resolver, net>>

\* The application cancels the task of a call that waits in write().
CancelSend(o) ==
  /\ pc[o] = "sending" /\ kind[o] \in Interruptible
  /\ Finish(o, "cancelled")
  /\ LeaveExchange(o)
  /\ cancelled' = [cancelled EXCEPT ![o] = TRUE]
  /\ UNCHANGED <<connVars, kind, pid, fut, resolver, net>>

\* The application cancels the task of a call that waits for its future.  The
\* future is cancelled at once if it is still pending; the task itself runs
\* later (Wake).
CancelAwait(o) ==
  /\ pc[o] = "awaiting" /\ kind[o] \in Interruptible /\ ~cancelled[o]
  /\ cancelled' = [cancelled EXCEPT ![o] = TRUE]
  /\ fut' = [fut EXCEPT ![o] = IF @ = "pending" THEN "cancelled" ELSE @]
  /\ UNCHANGED <<connVars, pool, tables, kind, pc, pid, outcome, resolver, net>>

\* The event loop resumes a call whose future is done.  A cancellation wins
\* over a result that has not been read yet.
Wake(o) ==
  /\ pc[o] = "awaiting" /\ fut[o] # "pending"
  /\ Finish(o, IF cancelled[o] THEN "cancelled"
               ELSE IF fut[o] = "lost" THEN "disconnected" ELSE fut[o])
  /\ LeaveExchange(o)
  /\ UNCHANGED <<connVars, kind, pid, fut, cancelled, resolver, net>>

-----------------------------------------------------------------------------
(* The read loop: _dispatch and the handlers of acknowledgements.          *)

\* A handler raised: gather() fails and run() starts to shut down.
Die(why) == conn' = "closing" /\ cause' = why

Receives(p, type) ==
  /\ conn = "up" /\ reading
  /\ p \in net /\ p.type = type

\* future.set_result() or set_exception() by the answer p, skipped when the
\* future is done.
Resolve(o, p) ==
  IF fut[o] = "pending"
    THEN /\ fut' = [fut EXCEPT ![o] = IF p.ok THEN "ok" ELSE "rejected"]
         /\ resolver' = [resolver EXCEPT ![o] = p.op]
    ELSE UNCHANGED <<fut, resolver>>

UnknownId(p) ==
  /\ Die("protocol")
  /\ net' = net \ {p}
  /\ UNCHANGED <<reading, pool, tables, callVars>>

HandlePuback(p) ==
  /\ Receives(p, "PUBACK")
  /\ IF inflight1[p.id] = NoOp
       THEN UnknownId(p)
       ELSE /\ Resolve(inflight1[p.id], p)
            /\ inflight1' = [inflight1 EXCEPT ![p.id] = NoOp]
            /\ pool' = Release(pool, p.id)
            /\ net' = net \ {p}
            /\ UNCHANGED <<connVars, inflight2, q2state, pendingSubs, pendingUnsubs,
                           kind, pc, pid, cancelled, outcome>>

AwaitsPubrec(id) == inflight2[id] # NoOp /\ q2state[id] = "pending_pubrec"

PubrecUnexpected(p) == ~AwaitsPubrec(p.id) /\ UnknownId(p)

\* Mutant: a negative PUBREC fails the future and leaves the flight registered.
PubrecRejectedKeepsFlight(p) ==
  /\ AwaitsPubrec(p.id) /\ ~p.ok
  /\ Resolve(inflight2[p.id], p)
  /\ net' = net \ {p}
  /\ UNCHANGED <<connVars, pool, tables, kind, pc, pid, cancelled, outcome>>

\* A negative PUBREC ends the flow.
PubrecRejected(p) ==
  /\ AwaitsPubrec(p.id) /\ ~p.ok
  /\ Resolve(inflight2[p.id], p)
  /\ inflight2' = [inflight2 EXCEPT ![p.id] = NoOp]
  /\ pool' = Release(pool, p.id)
  /\ net' = net \ {p}
  /\ UNCHANGED <<connVars, inflight1, q2state, pendingSubs, pendingUnsubs,
                 kind, pc, pid, cancelled, outcome>>

\* Mutant: the identifier is given back at PUBREC instead of at PUBCOMP.
PubrecAcceptedReleases(p) ==
  /\ AwaitsPubrec(p.id) /\ p.ok
  /\ q2state' = [q2state EXCEPT ![p.id] = "pending_pubcomp"]
  /\ pool' = Release(pool, p.id)
  /\ net' = (net \ {p}) \cup {Pkt("PUBREL", p.id, p.op, TRUE)}
  /\ reading' = FALSE
  /\ UNCHANGED <<conn, cause, inflight1, inflight2, pendingSubs, pendingUnsubs, callVars>>

\* A positive PUBREC is answered with PUBREL, which the read loop waits to write.
PubrecAccepted(p) ==
  /\ AwaitsPubrec(p.id) /\ p.ok
  /\ q2state' = [q2state EXCEPT ![p.id] = "pending_pubcomp"]
  /\ net' = (net \ {p}) \cup {Pkt("PUBREL", p.id, p.op, TRUE)}
  /\ reading' = FALSE
  /\ UNCHANGED <<conn, cause, pool, inflight1, inflight2, pendingSubs,
                 pendingUnsubs, callVars>>

HandlePubrec(p) ==
  /\ Receives(p, "PUBREC")
  /\ PubrecUnexpected(p) \/ PubrecRejected(p) \/ PubrecAccepted(p)

\* The read loop's own write() of the PUBREL returns, or raises.
PubrelSent ==
  /\ conn = "up" /\ ~reading
  /\ reading' = TRUE
  /\ UNCHANGED <<conn, cause, pool, tables, callVars, net>>

HandlePubcomp(p) ==
  /\ Receives(p, "PUBCOMP")
  /\ IF inflight2[p.id] = NoOp
       THEN UnknownId(p)
       ELSE /\ Resolve(inflight2[p.id], p)
            /\ inflight2' = [inflight2 EXCEPT ![p.id] = NoOp]
            /\ pool' = Release(pool, p.id)
            /\ net' = net \ {p}
            /\ UNCHANGED <<connVars, inflight1, q2state, pendingSubs, pendingUnsubs,
                           kind, pc, pid, cancelled, outcome>>

\* set_result() of _handle_suback and _handle_unsuback is not guarded: on a
\* future that is already done it raises InvalidStateError, which ends run().
ResolveOrFail(o, p) ==
  /\ net' = net \ {p}
  /\ Resolve(o, p)
  /\ IF fut[o] = "pending" THEN UNCHANGED <<conn, cause>> ELSE Die("internal")
  /\ UNCHANGED <<reading, pool, tables, kind, pc, pid, cancelled, outcome>>

HandleSuback(p) ==
  /\ Receives(p, "SUBACK")
  /\ IF pendingSubs[p.id] = NoOp THEN UnknownId(p)
                                 ELSE ResolveOrFail(pendingSubs[p.id], p)

HandleUnsuback(p) ==
  /\ Receives(p, "UNSUBACK")
  /\ IF pendingUnsubs[p.id] = NoOp THEN UnknownId(p)
                                   ELSE ResolveOrFail(pendingUnsubs[p.id], p)

-----------------------------------------------------------------------------
(* The end of the connection and the broker.                               *)

\* The transport fails, the keepalive ping times out, the broker sends
\* DISCONNECT, or the client cancels run(): its tasks are cancelled and awaited.
ConnectionLost ==
  /\ conn = "up"
  /\ Die("lost")
  /\ UNCHANGED <<reading, pool, tables, callVars, net>>

Registered(o) ==
  \E i \in PacketId : o \in {inflight1[i], inflight2[i], pendingSubs[i], pendingUnsubs[i]}

\* Mutant: _cancel_pending() forgets the QoS 2 flights.
RunExitsSkipsQoS2 ==
  /\ conn = "closing"
  /\ conn' = "dead"
  /\ fut' = [o \in Ops |-> IF Registered(o) /\ fut[o] = "pending" /\ kind[o] # "qos2"
                           THEN "lost" ELSE fut[o]]
  /\ UNCHANGED <<cause, reading, pool, tables, kind, pc, pid, cancelled, outcome,
                 resolver, net>>

\* The end of run(): _dead is set and _cancel_pending() fails every future of
\* the four tables that is not done.  The tables keep their entries.
RunExits ==
  /\ conn = "closing"
  /\ conn' = "dead"
  /\ fut' = [o \in Ops |-> IF Registered(o) /\ fut[o] = "pending" THEN "lost" ELSE fut[o]]
  /\ UNCHANGED <<cause, reading, pool, tables, kind, pc, pid, cancelled, outcome,
                 resolver, net>>

Answer(type) ==
  CASE type = "PUBLISH1"    -> "PUBACK"
    [] type = "PUBLISH2"    -> "PUBREC"
    [] type = "PUBREL"      -> "PUBCOMP"
    [] type = "SUBSCRIBE"   -> "SUBACK"
    [] type = "UNSUBSCRIBE" -> "UNSUBACK"

\* The broker answers one packet; only PUBLISH and SUBSCRIBE can be rejected in a
\* way the client looks at.
BrokerAnswers(p) ==
  /\ conn = "up"
  /\ p \in net /\ p.type \in ClientPackets
  /\ \E ok \in BOOLEAN :
       /\ p.type \in {"PUBREL", "UNSUBSCRIBE"} => ok
       /\ net' = (net \ {p}) \cup {Pkt(Answer(p.type), p.id, p.op, ok)}
  /\ UNCHANGED <<connVars, pool, tables, callVars>>

-----------------------------------------------------------------------------

Start(o) ==
  \/ \E k \in Kinds : StartOnDead(o, k) \/ StartRefused(o, k) \/ StartExhausted(o, k)
  \/ "qos0" \in Kinds /\ StartQoS0(o)
  \/ "qos1" \in Kinds /\ StartQoS1(o)
  \/ "qos2" \in Kinds /\ StartQoS2(o)
  \/ "subscribe" \in Kinds /\ StartSubscribe(o)
  \/ "unsubscribe" \in Kinds /\ StartUnsubscribe(o)

CallStep(o) == SendDone(o) \/ SendFails(o) \/ Wake(o)

Cancel(o) == CancelSend(o) \/ CancelAwait(o)

ReadLoop ==
  \/ PubrelSent
  \/ \E p \in net : \/ HandlePuback(p) \/ HandlePubrec(p) \/ HandlePubcomp(p)
                    \/ HandleSuback(p) \/ HandleUnsuback(p)

Next ==
  \/ \E o \in Ops : Start(o) \/ CallStep(o) \/ Cancel(o)
  \/ ReadLoop
  \/ ConnectionLost
  \/ RunExits
  \/ \E p \in net : BrokerAnswers(p)

\* The event loop resumes every task that can run, write() is bounded by the
\* drain timeout, and run() always reaches its finally block.
Fairness ==
  /\ \A o \in Ops : WF_vars(CallStep(o))
  /\ WF_vars(RunExits)

Spec == Init /\ [][Next]_vars /\ Fairness

\* Besides, the read loop keeps running and the broker keeps answering.
ResponsiveSpec ==
  /\ Spec
  /\ WF_vars(ReadLoop)
  /\ WF_vars(\E p \in net : BrokerAnswers(p))

-----------------------------------------------------------------------------
(* Properties.                                                             *)

TableNames == {"inflight1", "inflight2", "pendingSubs", "pendingUnsubs"}

\* The op registered under identifier i in table t, or NoOp.
Owner(t, i) ==
  CASE t = "inflight1"     -> inflight1[i]
    [] t = "inflight2"     -> inflight2[i]
    [] t = "pendingSubs"   -> pendingSubs[i]
    [] t = "pendingUnsubs" -> pendingUnsubs[i]

\* An identifier is allocated exactly while one exchange, and only one, is
\* registered under it: acquire() and release() are called in nine places of
\* protocol.py and no path, cancelled or failed ones included, may leave an
\* allocated identifier without an owner or two owners of one identifier.
IdOwnership ==
  \A i \in PacketId :
    /\ i \in pool.inUse <=> \E t \in TableNames : Owner(t, i) # NoOp
    /\ \A t, u \in TableNames : Owner(t, i) # NoOp /\ Owner(u, i) # NoOp => t = u

\* The search of acquire() never starts above a free identifier, for all that
\* identifiers are released in any order: the lowest free one is handed out next,
\* so an identifier is reused at once after its release.
LowestFree ==
  \A i \in FreeIds(pool) : i >= pool.next

\* The exchange a packet belongs to is still registered, in the state in which
\* the client expects that packet or the answer to it.
Expected(p) ==
  CASE p.type \in {"PUBLISH1", "PUBACK"} -> inflight1[p.id] = p.op
    [] p.type \in {"PUBLISH2", "PUBREC"} ->
         inflight2[p.id] = p.op /\ q2state[p.id] = "pending_pubrec"
    [] p.type \in {"PUBREL", "PUBCOMP"} ->
         inflight2[p.id] = p.op /\ q2state[p.id] = "pending_pubcomp"
    [] p.type \in {"SUBSCRIBE", "SUBACK"} ->
         pendingSubs[p.id] = p.op /\ fut[p.op] = "pending"
    [] p.type \in {"UNSUBSCRIBE", "UNSUBACK"} ->
         pendingUnsubs[p.id] = p.op /\ fut[p.op] = "pending"

\* While the connection is up, whatever was written or is about to arrive belongs
\* to a registered exchange, and no two packets on the wire share an identifier:
\* a cancelled or failed publish() keeps its flight until the broker's answer.
ExchangeOnWire ==
  conn = "up" => /\ \A p \in net : Expected(p)
                 /\ \A p, q \in net : p.id = q.id => p = q

\* The answer a caller gets is the answer to its own packet, however identifiers
\* are reused in between.
OwnAnswer ==
  \A o \in Ops :
    fut[o] \in {"ok", "rejected"} \/ (outcome[o] \in {"ok", "rejected"} /\ kind[o] # "qos0")
      => resolver[o] = o

\* With a conforming broker run() never ends because of an acknowledgement: no
\* MQTTProtocolError for an unknown identifier or a wrong state, and no
\* InvalidStateError from completing a future twice.
NoLocalDeath == cause \notin {"protocol", "internal"}

\* docs/error-handling.md of MQTTProtocolError: it is raised when the broker
\* sends a packet that violates the MQTT specification.  This broker never does.
OnlyBrokerViolations == cause # "protocol"

Active(o) == pc[o] \in {"sending", "awaiting"}

\* When nothing is on the wire and no call is running, the only identifiers still
\* allocated are those of publishes whose packet encode() rejected: publish()
\* registers the flight first and nothing takes it back.
NoLeak ==
  conn = "up" /\ net = {} /\ (\A o \in Ops : ~Active(o))
    => \A i \in pool.inUse :
         \E o \in Unencodable : pid[o] = i /\ kind[o] \in {"qos1", "qos2"}

\* An identifier is never handed out while a packet that carries it is still on
\* the wire (MQTT requires a currently unused identifier for a new exchange).
NoReuseInFlight ==
  [][conn = "up" =>
       \A i \in pool'.inUse \ pool.inUse : \A p \in net : p.id # i]_vars

\* No caller hangs: with a broker that answers and a read loop that runs every
\* call ends, and so does a call that was under way when run() exited, or that was
\* started while run() was still awaiting its tasks.
EveryCallReturns == \A o \in Ops : Active(o) ~> pc[o] = "finished"

=============================================================================
