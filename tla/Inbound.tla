-------------------------------- MODULE Inbound --------------------------------
(***************************************************************************)
(* InboundPublishFlow (inbound.py) on a persistent session, across the     *)
(* connections that resume it: the receive side of QoS 0, 1 and 2, the     *)
(* replay buffer of messages without a local subscription, Receive         *)
(* Maximum, the bounded queues of Subscription and get_message().          *)
(*                                                                         *)
(* The tasks are the read loop, one consumer and one subscribing task per  *)
(* subscription, and the expiration task of the replay buffer.  All but    *)
(* the first run drain() or expire(), which hold a lock, suspend while an  *)
(* acknowledgement is written and go on with the next message.  A task     *)
(* runs without interruption from one suspension to the next, and so does  *)
(* an action.                                                              *)
(*                                                                         *)
(* The broker keeps its session when a connection is lost and resends what *)
(* is unacknowledged, with the same identifiers, when it is resumed.  The  *)
(* client starts every connection with a new SessionState.                 *)
(***************************************************************************)
EXTENDS Integers, FiniteSets, SequencesExt

CONSTANTS
  Messages,       \* numbered in the order in which they are published
  QoSOf, TopicOf, \* functions on Messages
  Subscribed,     \* the topics with a Subscription, each with its own queue
  AutoAck,        \* the topics whose subscription has auto_ack
  QueueSize,      \* receive_buffer_size
  ReplaySize,     \* session_replay_buffer_size, 0 for no limit
  ReceiveMaximum, \* receive_maximum of CONNECT, 0 for none
  MaxId,          \* the broker's packet identifiers are 1 .. MaxId
  Retransmitted,  \* the messages the broker may send again, once, on the same connection
  MaxLapses       \* bound on the reconnections and the cancelled calls of a behaviour

Topics == {TopicOf[m] : m \in Messages}

ASSUME InboundAssumption ==
  /\ Messages \subseteq Nat \ {0}
  /\ QoSOf \in [Messages -> 0 .. 2]
  /\ Subscribed \subseteq Topics
  /\ AutoAck \subseteq Topics
  /\ QueueSize \in Nat \ {0} /\ MaxId \in Nat \ {0} /\ MaxLapses \in Nat
  /\ ReplaySize \in Nat /\ ReceiveMaximum \in Nat
  /\ Retransmitted \subseteq {m \in Messages : QoSOf[m] = 2}

VARIABLES
  conn,        \* "up", "down" (reconnecting) or "failed" (the client's run loop ended)
  failure,     \* why it failed
  connections, \* how many connections there have been
  bstate, bid, \* the broker's session: progress and identifier of each message
  resends,     \* the messages it may still send again unasked
  toClient, toBroker, \* packets under way, in order
  rl,          \* the publish whose put() the read loop waits for, or NoEntry
  entries,     \* SessionState.subscriptions: the topics that have an entry
  inflight2,   \* SessionState.inflight_qos2_in
  pendingAck2, \* SessionState.pending_ack_qos2_in
  unack,       \* InboundPublishFlow._unacknowledged
  replay,      \* the class of InboundPublishFlow._replay
  publishes,   \* _publishes, behind the rest of the pass that holds the lock
  unmatched,   \* what that pass has put back so far
  held,        \* what _packet_ids, _topics and _message_count account for
  current,     \* the publish whose acknowledgement that pass is writing
  drain,       \* where each task that drains is
  queue,       \* Subscription._queue: messages with the identifier ack() sends
  hand,        \* what a consumer in get_message() has taken from its queue
  appHeld,     \* messages the application has and may ack()
  puts,        \* ghost: how often each message was queued on this connection
  fate,        \* ghost: what has happened to each message
  cut,         \* ghost: QoS 2 messages whose delivery a lost connection cut short
  cancels,     \* how many calls of get_message() and subscribe() were cancelled
  requeued,    \* ghost: a pass was cancelled while it wrote an acknowledgement
  missed       \* ghost: the last call of drain() that was due was cancelled

broker == <<bstate, bid, resends>>
wire == <<toClient, toBroker>>
flow == <<entries, inflight2, pendingAck2, unack>>
buffer == <<replay, publishes, unmatched, held, current>>
app == <<hand, appHeld>>
lapses == <<cancels, requeued, missed>>
vars == <<conn, failure, connections, broker, wire, rl, flow, buffer, drain, queue,
          app, puts, fate, cut, lapses>>

\* There is room for one more; the first connection is none.
MayLapse == connections + cancels <= MaxLapses

PacketId == 1 .. MaxId
NoEntry == [m |-> 0, id |-> 0]
NoFlight == [m |-> 0, put |-> FALSE]
Nothing == [m |-> 0, ack |-> 0]

Expiry == <<"expire", "replay">>
Drainers == ({"get", "sub"} \X Subscribed) \cup {Expiry}

Init ==
  /\ conn = "up" /\ failure = "none" /\ connections = 1
  /\ bstate = [m \in Messages |-> "queued"] /\ bid = [m \in Messages |-> 0]
  /\ resends = Retransmitted
  /\ toClient = <<>> /\ toBroker = <<>>
  /\ rl = NoEntry
  /\ entries = {}
  /\ inflight2 = [i \in PacketId |-> NoFlight]
  /\ pendingAck2 = {} /\ unack = {}
  /\ replay = "idle" /\ publishes = <<>> /\ unmatched = <<>>
  /\ held = {} /\ current = NoEntry
  /\ drain = [d \in Drainers |-> "idle"]
  /\ queue = [t \in Subscribed |-> <<>>]
  /\ hand = [t \in Subscribed |-> Nothing] /\ appHeld = {}
  /\ puts = [m \in Messages |-> 0]
  /\ fate = [m \in Messages |-> {}]
  /\ cut = {} /\ cancels = 0 /\ requeued = FALSE /\ missed = FALSE

-----------------------------------------------------------------------------
(* Delivery.                                                               *)

Publish(m, id) == [type |-> "PUBLISH", id |-> id, m |-> m]
Pubrel(m, id) == [type |-> "PUBREL", id |-> id, m |-> m]
Ack(type, id) == [type |-> type, id |-> id]

HasRecipient(m) == TopicOf[m] \in entries
AutoAcked(m) == TopicOf[m] \in AutoAck
Full(q, m) == Len(q[TopicOf[m]]) >= QueueSize

\* queue.put(): the message carries its ack callback when the consumer must call it.
Put(q, e) ==
  [q EXCEPT ![TopicOf[e.m]] =
     Append(@, [m |-> e.m, ack |-> IF AutoAcked(e.m) THEN 0 ELSE e.id])]

Note(ms, what) == fate' = [m \in Messages |-> IF m \in ms THEN fate[m] \cup {what} ELSE fate[m]]
CountPuts(ms) ==
  puts' = [m \in Messages |-> IF m \in ms /\ puts[m] < 2 THEN puts[m] + 1 ELSE puts[m]]

\* Mutant: the unit of the Receive Maximum is not given back.
CompleteKeepsQuota(quota, id) == quota

\* _complete(): what is unacknowledged once the last acknowledgement is written.
Complete(quota, id) == quota \ {id}

\* Mutant: auto_ack is not looked at.
AckedAtOnceAlways(m) == QoSOf[m] > 0

\* The PUBACK or PUBREC does not wait for the application.
AckedAtOnce(m) == QoSOf[m] > 0 /\ AutoAcked(m)

\* _deliver() to a queue with room and, for a QoS 1 message of an automatic
\* subscription, its PUBACK.
Deliver(e, quota) ==
  /\ queue' = Put(queue, e)
  /\ CountPuts({e.m}) /\ Note({e.m}, "queued")
  /\ IF AckedAtOnce(e.m) /\ QoSOf[e.m] = 1
       THEN unack' = Complete(quota, e.id) /\ toBroker' = Append(toBroker, Ack("PUBACK", e.id))
       ELSE unack' = quota /\ UNCHANGED toBroker

\* The PUBREC of an inbound QoS 2 message; put says whether handle_pubrel() will
\* have to deliver it.
Accept2(e, put) ==
  /\ inflight2' = [inflight2 EXCEPT ![e.id] = [m |-> e.m, put |-> put]]
  /\ toBroker' = Append(toBroker, Ack("PUBREC", e.id))

\* What the end of run() does to this flow, whatever ended it: the read loop and
\* the tasks that write are cut off, a consumer that only waits for the lock
\* goes on with its message, the replay buffer is cleared, and every ack() of
\* this connection becomes a call on a dead transport.
Reset ==
  /\ toClient' = <<>> /\ toBroker' = <<>>
  /\ rl' = NoEntry
  /\ entries' = {}
  /\ inflight2' = [i \in PacketId |-> NoFlight]
  /\ pendingAck2' = {} /\ unack' = {}
  /\ replay' = "none" /\ publishes' = <<>> /\ unmatched' = <<>>
  /\ held' = {} /\ current' = NoEntry
  /\ drain' = [d \in Drainers |-> "idle"]
  /\ queue' = [t \in Subscribed |-> [i \in DOMAIN queue[t] |-> [queue[t][i] EXCEPT !.ack = 0]]]
  /\ hand' = [t \in Subscribed |-> Nothing] /\ appHeld' = {}
  /\ puts' = [m \in Messages |-> 0] /\ UNCHANGED fate
  /\ cut' = cut \cup {inflight2[i].m : i \in {j \in PacketId : inflight2[j].put}}
                \cup {m \in Messages : m = rl.m /\ AutoAcked(m) /\ QoSOf[m] = 2}
  /\ missed' = FALSE /\ UNCHANGED <<cancels, requeued>>

-----------------------------------------------------------------------------
(* The read loop: handle_publish() and handle_pubrel().                    *)

HeldIds == {e.id : e \in held} \ {0}
HeldTopics == {TopicOf[e.m] : e \in held}

\* An MQTTProtocolError: the transport is aborted and the client's run loop ends.
Fail(why) ==
  /\ conn' = "failed" /\ failure' = why
  /\ Reset
  /\ UNCHANGED <<connections, broker>>

\* The PUBLISH at the head of the wire, taken by a read loop that is not waiting.
Reads(e, type) ==
  /\ conn = "up" /\ rl = NoEntry /\ toClient # <<>>
  /\ Head(toClient) = [type |-> type, id |-> e.id, m |-> e.m]

\* _hold_receive_quota(): what is unacknowledged once e has arrived.
Quota(e) == IF QoSOf[e.m] = 0 THEN unack ELSE unack \cup {e.id}
OverQuota(e) == ReceiveMaximum # 0 /\ Cardinality(Quota(e)) > ReceiveMaximum

PublishOverQuota(e) == Reads(e, "PUBLISH") /\ OverQuota(e) /\ Fail("quota")

\* PUBREC was sent before: it is sent again.
Accepted(e) == QoSOf[e.m] = 2 /\ inflight2[e.id] # NoFlight

PublishAccepted(e) ==
  /\ Reads(e, "PUBLISH") /\ ~OverQuota(e)
  /\ Accepted(e)
  /\ toClient' = Tail(toClient)
  /\ toBroker' = Append(toBroker, Ack("PUBREC", e.id))
  /\ unack' = Quota(e)
  /\ UNCHANGED <<conn, failure, connections, broker, rl, entries, inflight2, pendingAck2,
                 buffer, drain, queue, app, puts, fate, cut, lapses>>

\* Mutant: a duplicate of a message the application has not acknowledged is new.
KnownIgnoresPending(e) == QoSOf[e.m] > 0 /\ e.id \in HeldIds

\* The application or the replay buffer has a publish with this identifier.
Known(e) ==
  \/ QoSOf[e.m] = 2 /\ e.id \in pendingAck2
  \/ QoSOf[e.m] > 0 /\ e.id \in HeldIds

PublishKnown(e) ==
  /\ Reads(e, "PUBLISH") /\ ~OverQuota(e)
  /\ ~Accepted(e) /\ Known(e)
  /\ toClient' = Tail(toClient)
  /\ unack' = Quota(e)
  /\ UNCHANGED <<conn, failure, connections, broker, toBroker, rl, entries, inflight2,
                 pendingAck2, buffer, drain, queue, app, puts, fate, cut, lapses>>

Fresh(e) == Reads(e, "PUBLISH") /\ ~OverQuota(e) /\ ~Accepted(e) /\ ~Known(e)

\* Mutant: a message with a subscription does not wait behind a buffered one.
DirectPastHeld(m) == replay = "none" \/ HasRecipient(m)

\* accept() of the three replay states returns the recipient: the message is routed
\* now.  Behind a buffered message of its topic it has to wait its turn.
Direct(m) ==
  \/ replay = "none"
  \/ HasRecipient(m) /\ (replay = "idle" \/ TopicOf[m] \notin HeldTopics)

BufferFull == replay = "buffered" /\ ReplaySize # 0 /\ Cardinality(held) >= ReplaySize

PublishOverflows(e) == Fresh(e) /\ ~Direct(e.m) /\ BufferFull /\ Fail("overflow")

PublishBuffered(e) ==
  /\ Fresh(e) /\ ~Direct(e.m) /\ ~BufferFull
  /\ toClient' = Tail(toClient)
  /\ unack' = Quota(e)
  /\ replay' = "buffered"
  /\ publishes' = Append(publishes, e)
  /\ held' = held \cup {e}
  /\ UNCHANGED <<conn, failure, connections, broker, toBroker, rl, entries, inflight2,
                 pendingAck2, unmatched, current, drain, queue, app, puts, fate, cut, lapses>>

\* Nobody is subscribed and the session holds nothing back: acknowledged, dropped.
PublishDropped(e) ==
  /\ Fresh(e) /\ Direct(e.m) /\ ~HasRecipient(e.m)
  /\ toClient' = Tail(toClient)
  /\ Note({e.m}, "dropped")
  /\ unack' = IF QoSOf[e.m] = 1 THEN Complete(unack, e.id) ELSE Quota(e)
  /\ \/ QoSOf[e.m] = 0 /\ UNCHANGED <<toBroker, inflight2>>
     \/ /\ QoSOf[e.m] = 1
        /\ toBroker' = Append(toBroker, Ack("PUBACK", e.id)) /\ UNCHANGED inflight2
     \/ QoSOf[e.m] = 2 /\ Accept2(e, FALSE)
  /\ UNCHANGED <<conn, failure, connections, broker, rl, entries, pendingAck2, buffer,
                 drain, queue, app, puts, cut, lapses>>

\* A QoS 2 message of an automatic subscription is delivered at its PUBREL.
PublishAccept2(e) ==
  /\ Fresh(e) /\ Direct(e.m) /\ HasRecipient(e.m)
  /\ AckedAtOnce(e.m) /\ QoSOf[e.m] = 2
  /\ toClient' = Tail(toClient)
  /\ unack' = Quota(e)
  /\ Accept2(e, TRUE)
  /\ UNCHANGED <<conn, failure, connections, broker, rl, entries, pendingAck2, buffer,
                 drain, queue, app, puts, fate, cut, lapses>>

\* The others are queued now; when the queue is full the read loop waits.
PublishRouted(e) ==
  /\ Fresh(e) /\ Direct(e.m) /\ HasRecipient(e.m)
  /\ ~(AckedAtOnce(e.m) /\ QoSOf[e.m] = 2)
  /\ toClient' = Tail(toClient)
  /\ pendingAck2' = IF QoSOf[e.m] = 2 THEN pendingAck2 \cup {e.id} ELSE pendingAck2
  /\ IF Full(queue, e.m)
       THEN rl' = e /\ unack' = Quota(e) /\ UNCHANGED <<queue, puts, fate, toBroker>>
       ELSE Deliver(e, Quota(e)) /\ UNCHANGED rl
  /\ UNCHANGED <<conn, failure, connections, broker, entries, inflight2, buffer, drain,
                 app, cut, lapses>>

\* put() of the read loop finds room.
ReadLoopPuts ==
  /\ conn = "up" /\ rl # NoEntry
  /\ ~Full(queue, rl.m)
  /\ Deliver(rl, unack)
  /\ rl' = NoEntry
  /\ UNCHANGED <<conn, failure, connections, broker, toClient, entries, inflight2,
                 pendingAck2, buffer, drain, app, cut, lapses>>

\* The flight is removed and PUBCOMP written; only then is the message delivered.
\* A PUBREL without a flight is answered too.
HandlePubrel(e) ==
  /\ Reads(e, "PUBREL")
  /\ toClient' = Tail(toClient)
  /\ toBroker' = Append(toBroker, Ack("PUBCOMP", e.id))
  /\ inflight2' = [inflight2 EXCEPT ![e.id] = NoFlight]
  /\ unack' = IF inflight2[e.id] = NoFlight THEN unack ELSE Complete(unack, e.id)
  /\ rl' = IF inflight2[e.id].put THEN [m |-> inflight2[e.id].m, id |-> e.id] ELSE NoEntry
  /\ UNCHANGED <<conn, failure, connections, broker, entries, pendingAck2, buffer, drain,
                 queue, app, puts, fate, cut, lapses>>

-----------------------------------------------------------------------------
(* Subscribing, consuming and draining.                                    *)

\* subscribe() registers the entry and writes SUBSCRIBE, on the first connection
\* for the application and later for _reconnect().
Subscribe(t) ==
  /\ conn = "up" /\ t \notin entries
  /\ entries' = entries \cup {t}
  /\ drain' = [drain EXCEPT ![<<"sub", t>>] = "suback"]
  /\ UNCHANGED <<conn, failure, connections, broker, wire, rl, inflight2, pendingAck2,
                 unack, buffer, queue, app, puts, fate, cut, lapses>>

\* Mutant: nobody tells the replay buffer about a subscription or about room.
NeverDrains == "idle"

\* drain() is a null operation unless something is buffered.
BeginDrain == IF replay = "buffered" THEN "wants" ELSE "idle"

\* The read loop, when it is not waiting, handles the SUBACK; subscribe() drains.
Subscribes(t) ==
  /\ conn = "up" /\ rl = NoEntry /\ drain[<<"sub", t>>] = "suback"
  /\ drain' = [drain EXCEPT ![<<"sub", t>>] = BeginDrain]
  /\ UNCHANGED <<conn, failure, connections, broker, wire, rl, flow, buffer, queue, app,
                 puts, fate, cut, lapses>>

\* get_message() returns these; those that carry a callback can be acknowledged.
Hand(xs) == appHeld' = appHeld \cup {x \in xs : x.ack # 0}

\* get_message() takes the next message and drains before it returns it.
GetMessage(t) ==
  /\ conn # "failed" /\ hand[t] = Nothing /\ queue[t] # <<>>
  /\ queue' = [queue EXCEPT ![t] = Tail(@)]
  /\ drain' = [drain EXCEPT ![<<"get", t>>] = BeginDrain]
  /\ IF replay = "buffered"
       THEN hand' = [hand EXCEPT ![t] = Head(queue[t])] /\ UNCHANGED appHeld
       ELSE Hand({Head(queue[t])}) /\ UNCHANGED hand
  /\ UNCHANGED <<conn, failure, connections, broker, wire, rl, flow, buffer, puts, fate,
                 cut, lapses>>

\* get_message() is cancelled after queue.get() returned and before it goes on: the
\* message is lost, and nobody drains.
TakeCancelled(t) ==
  /\ conn # "failed" /\ hand[t] = Nothing /\ queue[t] # <<>>
  /\ queue' = [queue EXCEPT ![t] = Tail(@)]
  /\ MayLapse /\ cancels' = cancels + 1
  /\ missed' = (missed \/ replay = "buffered")
  /\ UNCHANGED <<conn, failure, connections, broker, wire, rl, flow, buffer, drain, app, puts,
                 fate, cut, requeued>>

\* The replay timeout has passed.
ReplayTimesOut ==
  /\ replay = "buffered" /\ drain[Expiry] = "idle"
  /\ drain' = [drain EXCEPT ![Expiry] = "wants"]
  /\ UNCHANGED <<conn, failure, connections, broker, wire, rl, flow, buffer, queue, app,
                 puts, fate, cut, lapses>>

\* One turn of the loop of _deliver_pending(), as far as the next suspension: writing an
\* acknowledgement.
Consider(pass, e) ==
  IF pass.stop # NoEntry THEN [pass EXCEPT !.rest = Append(@, e)]
  ELSE IF ~HasRecipient(e.m) \/ Full(pass.queue, e.m)
    THEN [pass EXCEPT !.back = Append(@, e)]
  ELSE IF AckedAtOnce(e.m) THEN [pass EXCEPT !.stop = e]
  ELSE [pass EXCEPT !.queue = Put(@, e), !.sent = @ \cup {e}]

Pass ==
  LET pass[n \in 0 .. Len(publishes)] ==
        IF n = 0
        THEN [queue |-> queue, sent |-> {}, back |-> unmatched, stop |-> NoEntry, rest |-> <<>>]
        ELSE Consider(pass[n - 1], publishes[n])
  IN  pass[Len(publishes)]

\* A task gets the lock, or goes on after its write() returned.
Runs(d) ==
  \/ drain[d] = "writing"
  \/ drain[d] = "wants" /\ \A e \in Drainers : drain[e] # "writing"

\* What is still accounted for when the pass stops: the publish whose write() has
\* returned is discarded only now.
Remaining(pass) == held \ (pass.sent \cup {current})

DeliveredBySend(pass) == {e.m : e \in pass.sent}

\* The QoS 2 messages among them, which wait for the application's ack().
AwaitingAck(pass) == {e.id : e \in {x \in pass.sent : QoSOf[x.m] = 2}}

\* A pass that begins now looks at everything again.
MakesUp(d) == d # Expiry /\ drain[d] = "wants"

\* The pass goes on to the next publish that suspends it.
DrainDelivers(d) ==
  LET pass == Pass
      e == pass.stop
  IN
  /\ conn = "up" /\ Runs(d) /\ e # NoEntry
  /\ publishes' = pass.rest /\ unmatched' = pass.back
  /\ held' = Remaining(pass) /\ current' = e
  /\ drain' = [drain EXCEPT ![d] = "writing"]
  /\ IF QoSOf[e.m] = 1
       THEN /\ queue' = Put(pass.queue, e)
            /\ CountPuts(DeliveredBySend(pass) \cup {e.m})
            /\ Note(DeliveredBySend(pass) \cup {e.m}, "queued")
            /\ unack' = Complete(unack, e.id)
            /\ toBroker' = Append(toBroker, Ack("PUBACK", e.id))
            /\ UNCHANGED inflight2
       ELSE /\ queue' = pass.queue
            /\ CountPuts(DeliveredBySend(pass)) /\ Note(DeliveredBySend(pass), "queued")
            /\ Accept2(e, TRUE)
            /\ UNCHANGED unack
  /\ pendingAck2' = pendingAck2 \cup AwaitingAck(pass)
  /\ missed' = (missed /\ ~MakesUp(d))
  /\ UNCHANGED <<conn, failure, connections, broker, toClient, rl, entries, replay, app,
                 cut, cancels, requeued>>

\* The replay state a finished pass leaves: expire() drops what is left and stops
\* holding messages back for the rest of the connection.
AfterPass(d, pass) ==
  IF Remaining(pass) = {} THEN "idle" ELSE IF d = Expiry THEN "none" ELSE "buffered"

\* The pass ends.  When it leaves nothing behind, those that wait for the lock have
\* nothing to do, and the expiration task is cancelled.
DrainEnds(d) ==
  LET pass == Pass
      next == AfterPass(d, pass)
      over == {x \in Drainers : x = d \/ (drain[x] = "wants" /\ next # "buffered")}
      back == {t \in Subscribed : <<"get", t>> \in over}
  IN
  /\ conn = "up" /\ Runs(d) /\ pass.stop = NoEntry
  /\ replay' = next
  /\ publishes' = IF next = "buffered" THEN pass.back ELSE <<>>
  /\ held' = IF next = "buffered" THEN Remaining(pass) ELSE {}
  /\ unmatched' = <<>> /\ current' = NoEntry
  /\ queue' = pass.queue
  /\ pendingAck2' = pendingAck2 \cup AwaitingAck(pass)
  /\ CountPuts(DeliveredBySend(pass)) /\ Note(DeliveredBySend(pass), "queued")
  /\ Hand({hand[t] : t \in back})
  /\ hand' = [t \in Subscribed |-> IF t \in back THEN Nothing ELSE hand[t]]
  /\ drain' = [x \in Drainers |-> IF x \in over THEN "idle" ELSE drain[x]]
  /\ missed' = (missed /\ ~MakesUp(d) /\ next = "buffered")
  /\ UNCHANGED <<conn, failure, connections, broker, wire, rl, entries, inflight2, unack,
                 cut, cancels, requeued>>

\* The task of get_message() or subscribe() is cancelled: its drain is over, and the
\* message that get_message() had taken is nobody's.
Gone(d) ==
  /\ drain' = [drain EXCEPT ![d] = "idle"]
  /\ hand' = [t \in Subscribed |-> IF d = <<"get", t>> THEN Nothing ELSE hand[t]]
  /\ MayLapse /\ cancels' = cancels + 1
  /\ missed' = TRUE

\* While it waits for the lock.
CancelWait(d) ==
  /\ d # Expiry /\ drain[d] = "wants"
  /\ Gone(d)
  /\ UNCHANGED <<conn, failure, connections, broker, wire, rl, flow, buffer, queue, appHeld,
                 puts, fate, cut, requeued>>

\* Mutant: the publish that was being acknowledged is not put back.
CancelLoses(d) ==
  /\ d # Expiry /\ drain[d] = "writing"
  /\ publishes' = unmatched \o publishes
  /\ unmatched' = <<>> /\ current' = NoEntry
  /\ Gone(d) /\ requeued' = TRUE
  /\ UNCHANGED <<conn, failure, connections, broker, wire, rl, flow, replay, held, queue,
                 appHeld, puts, fate, cut>>

\* While it writes an acknowledgement, which is on its way: the publish is put back
\* between what the pass has put back so far and the rest, and stays accounted for.
CancelWrite(d) ==
  /\ d # Expiry /\ drain[d] = "writing"
  /\ publishes' = Append(unmatched, current) \o publishes
  /\ unmatched' = <<>> /\ current' = NoEntry
  /\ Gone(d) /\ requeued' = TRUE
  /\ UNCHANGED <<conn, failure, connections, broker, wire, rl, flow, replay, held, queue,
                 appHeld, puts, fate, cut>>

\* Message.ack() of a message of this connection: PUBACK, or PUBREC and a flight
\* that is already delivered.
AppAck(x) ==
  /\ x \in appHeld
  /\ appHeld' = appHeld \ {x}
  /\ Note({x.m}, "acked")
  /\ IF QoSOf[x.m] = 1
       THEN /\ unack' = Complete(unack, x.ack)
            /\ toBroker' = Append(toBroker, Ack("PUBACK", x.ack))
            /\ UNCHANGED <<inflight2, pendingAck2>>
       ELSE /\ pendingAck2' = pendingAck2 \ {x.ack}
            /\ Accept2([m |-> x.m, id |-> x.ack], FALSE)
            /\ UNCHANGED unack
  /\ UNCHANGED <<conn, failure, connections, broker, toClient, rl, entries, buffer, drain,
                 queue, hand, puts, cut, lapses>>

-----------------------------------------------------------------------------
(* The broker and the connection.                                          *)

InFlight == {m \in Messages : bstate[m] \in {"sent", "rel"}}
FreeIds == PacketId \ {bid[m] : m \in InFlight}

MaySend(m) ==
  /\ conn = "up" /\ bstate[m] = "queued"
  /\ \A n \in Messages : n < m => bstate[n] # "queued"

BrokerSends0(m) ==
  /\ MaySend(m) /\ QoSOf[m] = 0
  /\ bstate' = [bstate EXCEPT ![m] = "done"]
  /\ toClient' = Append(toClient, Publish(m, 0))
  /\ UNCHANGED <<conn, failure, connections, bid, resends, toBroker, rl, flow, buffer, drain, queue,
                 app, puts, fate, cut, lapses>>

\* Within the Receive Maximum, and under the lowest free identifier: the policy that
\* reuses identifiers soonest.
BrokerSends(m) ==
  /\ MaySend(m) /\ QoSOf[m] > 0
  /\ ReceiveMaximum = 0 \/ Cardinality(InFlight) < ReceiveMaximum
  /\ FreeIds # {}
  /\ bstate' = [bstate EXCEPT ![m] = "sent"]
  /\ bid' = [bid EXCEPT ![m] = Min(FreeIds)]
  /\ toClient' = Append(toClient, Publish(m, Min(FreeIds)))
  /\ UNCHANGED <<conn, failure, connections, resends, toBroker, rl, flow, buffer, drain,
                 queue, app, puts, fate, cut, lapses>>

\* A broker that does not wait for a new connection to send a PUBLISH again.
BrokerRetransmits(m) ==
  /\ conn = "up" /\ m \in resends /\ bstate[m] = "sent"
  /\ resends' = resends \ {m}
  /\ toClient' = Append(toClient, Publish(m, bid[m]))
  /\ UNCHANGED <<conn, failure, connections, bstate, bid, toBroker, rl, flow, buffer, drain,
                 queue, app, puts, fate, cut, lapses>>

\* The acknowledgement p is the next one of m's exchange.
Completes(p, m) ==
  /\ m \in InFlight /\ bid[m] = p.id
  /\ \/ p.type = "PUBACK" /\ QoSOf[m] = 1
     \/ p.type = "PUBCOMP" /\ bstate[m] = "rel"

\* PUBREC is answered with PUBREL, a repeated one too; anything else is ignored.
BrokerReceives ==
  LET p == Head(toBroker)
      ends == {m \in Messages : Completes(p, m)}
      rels == {m \in InFlight : p.type = "PUBREC" /\ bid[m] = p.id /\ QoSOf[m] = 2}
  IN
  /\ conn = "up" /\ toBroker # <<>>
  /\ toBroker' = Tail(toBroker)
  /\ bstate' = [m \in Messages |-> IF m \in ends THEN "done"
                                   ELSE IF m \in rels THEN "rel" ELSE bstate[m]]
  /\ bid' = [m \in Messages |-> IF m \in ends THEN 0 ELSE bid[m]]
  /\ toClient' = toClient \o [i \in 1 .. Cardinality(rels) |->
                                Pubrel(CHOOSE m \in rels : TRUE, p.id)]
  /\ resends' = resends \ rels
  /\ UNCHANGED <<conn, failure, connections, rl, flow, buffer, drain, queue, app, puts, fate,
                 cut, lapses>>

ConnectionLost ==
  /\ conn = "up"
  /\ conn' = "down"
  /\ Reset
  /\ UNCHANGED <<failure, connections, broker>>

\* The members of S from the lowest to the highest.
InOrder(S) ==
  CHOOSE s \in [1 .. Cardinality(S) -> S] : \A i, j \in DOMAIN s : i < j => s[i] < s[j]

Resend(m) == IF bstate[m] = "sent" THEN Publish(m, bid[m]) ELSE Pubrel(m, bid[m])

\* A new protocol object with a new SessionState; begin_session() finds Session
\* Present and the broker resends what it has in flight, in order.
Reconnect ==
  /\ conn = "down" /\ MayLapse
  /\ conn' = "up" /\ connections' = connections + 1
  /\ replay' = "idle"
  /\ toClient' = [i \in 1 .. Cardinality(InFlight) |-> Resend(InOrder(InFlight)[i])]
  /\ UNCHANGED <<failure, broker, toBroker, rl, flow, publishes, unmatched, held, current,
                 drain, queue, app, puts, fate, cut, lapses>>

-----------------------------------------------------------------------------

HandlePublish(e) ==
  \/ PublishOverQuota(e) \/ PublishAccepted(e) \/ PublishKnown(e)
  \/ PublishOverflows(e) \/ PublishBuffered(e)
  \/ PublishDropped(e) \/ PublishAccept2(e) \/ PublishRouted(e)

ReadLoop ==
  \/ ReadLoopPuts
  \/ \E p \in ToSet(toClient) :
       LET e == [m |-> p.m, id |-> p.id] IN HandlePublish(e) \/ HandlePubrel(e)

Drain(d) == DrainDelivers(d) \/ DrainEnds(d)

Broker ==
  \/ \E m \in Messages : BrokerSends0(m) \/ BrokerSends(m)
  \/ BrokerReceives

Next ==
  \/ ReadLoop
  \/ \E t \in Subscribed : Subscribe(t) \/ Subscribes(t) \/ GetMessage(t)
  \/ \E d \in Drainers : Drain(d)
  \/ \E d \in Drainers \ {Expiry} : CancelWait(d) \/ CancelWrite(d)
  \/ \E t \in Subscribed : TakeCancelled(t)
  \/ ReplayTimesOut
  \/ \E x \in appHeld : AppAck(x)
  \/ Broker
  \/ \E m \in Messages : BrokerRetransmits(m)
  \/ ConnectionLost \/ Reconnect

Spec == Init /\ [][Next]_vars

-----------------------------------------------------------------------------
(* Properties.                                                             *)

\* The counters of the replay buffer agree with its contents at every suspension:
\* what _packet_ids, _topics and _message_count account for is what the
\* deques hold plus the one publish whose acknowledgement is being written, each
\* once, so the buffer neither loses a publish nor keeps an identifier, a topic
\* or a unit of its limit for one that is gone.
ReplayAccounting ==
  LET contents == unmatched \o publishes IN
  /\ held = ToSet(contents) \cup ({current} \ {NoEntry})
  /\ IsInjective(contents) /\ current \notin ToSet(contents)
  /\ replay # "buffered" => held = {}

\* Whatever the broker regards as delivered was handed over: an automatically
\* acknowledged message is in the subscription's queue or past it, a manually
\* acknowledged one was acknowledged by the application, and the only others are
\* messages for which there was no subscription when they were not held back.
\* For QoS 2 there are two exceptions: PUBCOMP is written just before the message is
\* queued, and a connection lost between PUBREC and the queue cuts it short.  It ends
\* with a drain that is cancelled while it writes an acknowledgement: the message that
\* it puts back is acknowledged again, under an identifier that may be another's.
AcknowledgedWasHandled ==
  ~requeued =>
    \A m \in Messages :
      bstate[m] = "done" /\ QoSOf[m] > 0 =>
        \/ "dropped" \in fate[m]
        \/ IF AutoAcked(m) THEN "queued" \in fate[m] \/ (QoSOf[m] = 2 /\ (m \in cut \/ rl.m = m))
                      ELSE "acked" \in fate[m]

\* On one connection a QoS 2 message enters the queue at most once, also when the
\* broker sends it again, or it went through the replay buffer, as long as no drain
\* was cancelled while it wrote an acknowledgement.
ExactlyOncePerConnection ==
  ~requeued => \A m \in Messages : QoSOf[m] = 2 => puts[m] <= 1

\* A message that is held back is not overtaken by a later one of its topic: new
\* arrivals queue up behind it, during a pass that is suspended too.  This is so for a
\* subscription whose own acknowledgements are the only ones that suspend a pass; where
\* those of another subscription do, room may appear between two of its messages.
HeldKeepsItsPlace ==
  \A e \in held \ {current} : \A m \in Messages :
    /\ m > e.m /\ TopicOf[m] = TopicOf[e.m] /\ AutoAck = {TopicOf[e.m]}
    /\ QoSOf[m] < 2 /\ QoSOf[e.m] < 2
    => puts[m] = 0

\* A broker that respects the Receive Maximum is never accused of exceeding it,
\* because the client's count never runs ahead of the broker's: every unit it holds
\* is that of a message whose last acknowledgement the broker does not have yet.  This
\* too ends with a drain cancelled in the middle of an acknowledgement.
QuotaNeverExceeded ==
  ~requeued =>
    /\ failure # "quota"
    /\ conn = "up" => unack \subseteq {bid[m] : m \in InFlight}

\* docs/advanced/scaling.md: use QoS 1 or QoS 2 when losing a message is unacceptable.
\* Once the broker regards a QoS 2 message as delivered, it is in the queue, on its
\* way from the read loop to it, or nobody was subscribed.
QoS2NotLost ==
  \A m \in Messages :
    bstate[m] = "done" /\ QoSOf[m] = 2 =>
      fate[m] \cap {"queued", "dropped"} # {} \/ rl.m = m

\* No message is stuck in the replay buffer: while its subscription is there, either
\* a pass is under way or asked for, or its consumer has something to read, and
\* reading it starts a pass once get_message() has made room.  Where a drain, or a
\* get_message() that owed one, is cancelled, this is so again from the next pass on.
HeldIsOnItsWay ==
  ~missed =>
    \A e \in held :
      LET t == TopicOf[e.m] IN
        t \in entries =>
          \/ queue[t] # <<>>
          \/ \E d \in Drainers \ {Expiry} : drain[d] \in {"suback", "wants", "writing"}

=============================================================================
