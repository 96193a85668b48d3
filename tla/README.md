# A TLA+ model of zMQTT

zMQTT is an asyncio MQTT 3.1.1/5.0 client. Everything happens in one event loop,
so nothing is preempted; what is hard is what may happen at an `await`: another
task, a cancellation, a packet, a timer or the end of the connection. The modules
here cut the code at its awaits and let those happen in every order.

## The system

| Part | State | Operations | Interacts with |
|---|---|---|---|
| `PacketIdPool` (`state.py`) | next identifier to try, identifiers in use | `acquire`, `release` | every outbound exchange |
| Outbound half of `MQTTProtocol` (`protocol.py`) | flights of QoS 1 and 2, pending SUBSCRIBE and UNSUBSCRIBE, one future each | `publish`, `_send_subscribe`, `_send_unsubscribe`, handlers of PUBACK, PUBREC, PUBCOMP, SUBACK, UNSUBACK | application tasks wait for futures the read loop completes; the end of `run()` fails the rest |
| Keepalive (`protocol.py`) | list of ping waiters | `ping`, `_ping_loop`, `_handle_pingresp` | its timeout ends `run()` |
| `InboundPublishFlow` (`inbound.py`) | inbound QoS 2 flights, identifiers awaiting `ack()`, Receive Maximum count, replay state | `handle_publish`, `handle_pubrel`, `drain`, `expire_replay`, `begin_session`, `clear` | puts into the queues of `Subscription`; the lock of the replay buffer is shared by consumers, subscribing tasks and the expiration task |
| `Subscription` (`client.py`) | bounded queue, registered filters, detached flag | start, stop, detach, `get_message`, `_reconnect` | makes room for the replay buffer; restored by the run loop |
| `MQTTClient` (`client.py`) | protocol object, list of subscriptions, failure signal, detached filters | connect with retry, `_run_loop`, disconnect | creates a new `SessionState` per connection |
| `_RequestDispatcher` (`request_response.py`) | pending requests, interest in response topics, generation | `register`, `claim`, `complete`, `unregister`, `restore`, `cancel_pending` | claims inbound messages before subscriptions |
| `_SubscriptionGuards`, response observers (`protocol.py`) | a counted lock per filter | `hold`, `add_response_observer`, `remove_response_observer` | serialise SUBSCRIBE and UNSUBSCRIBE of one filter |
| `SubscriptionIndex`, topic matching | trie of filters, entries by identifier | add, remove, match, select | routing of every inbound PUBLISH |
| Codec, `PacketBuffer` (`packets/`) | bytes not yet decoded | `feed`, iteration, encode, decode | read loop |
| Transports | socket streams | read, write, close | everything that sends |

The hard behaviours, with the properties that cover them, are the `hazards` of
`PROJECT.json`. In short: identifiers reused while an old answer is under way,
calls cancelled half way, calls that begin while `run()` is ending, timers racing
answers, a replay pass suspended in the middle of its buffer, a connection lost
between two steps of a QoS 2 handshake, a full queue that stops the read loop, a
subscription stopped or detached while the client reconnects, requests that end while
others join the topic they share, calls that hold several filters at once, and packets
that TCP cuts anywhere.

## Modules

| Module | Models |
|---|---|
| `PacketIds` | the identifier pool, as operators |
| `Outbound` | calls, acknowledgement handlers and the end of `run()` on one connection |
| `MCOutbound` | its instances |
| `Keepalive`, `MCKeepalive` | pings and the keepalive loop on one connection, with the bounded queue and the publishing consumer that share its read loop |
| `Inbound`, `MCInbound` | the receive side of a persistent session, across connections |
| `RequestResponse`, `MCRequestResponse` | `request()` over the dispatcher, its guards and observers, and the run loop that restores them |
| `ClientSession`, `MCClientSession` | the life of a client and of its subscriptions, across connections |
| `TopicMatching`, `SubscriptionIndex` | matching of topics and the trie of filters, as operators |
| `Subscriptions`, `MCSubscriptions` | the calls that subscribe, unsubscribe and observe, under the guards of their filters, on that trie |
| `Wire`, `Properties`, `Codec` | the byte layout of integers, properties and packets, as operators |
| `PacketChannel` | what reading promises: an abstract channel of packets |
| `Reading`, `MCReading` | `PacketBuffer` and its two users, which implement that channel |
| `OutboundProofs`, `KeepaliveProofs`, `InboundProofs`, `RequestResponseProofs`, `SubscriptionsProofs`, `ClientSessionProofs`, `ReadingProofs` | theorems about the modules they are named after, with their inductive invariants |
| `QueueLemmas` | facts about queues that these proofs share |

`Outbound` is built on `PacketIds`, `Subscriptions` on `SubscriptionIndex` and
`TopicMatching`, `Reading` on `Codec`, `Properties` and `Wire`; `Keepalive` composes the
ping list with the delivery of messages and one outbound exchange, `RequestResponse` the
dispatcher with guards, observers and the run loop.

### Outbound

An element of `Ops` is one call of one application task. `Start...` is the part of
the call up to its first suspension: the guards (`_ensure_alive`, Maximum QoS, Retain
Available), `acquire`, the table entry, `encode` and `write`. `SendDone`, `SendFails`
and `CancelSend` are the three ways `transport.write()` ends, `CancelAwait` cancels the
task while it waits for its future, and `Wake` resumes it. `LeaveExchange` is the
`finally` block of `_send_subscribe` and `_send_unsubscribe`; `publish()` has none. The
tables map an identifier to the call that owns the entry. `Handle...` are the handlers of
`_dispatch`; `reading` is FALSE while the read loop itself waits for `write()`.
`ConnectionLost` and `RunExits` are the beginning and the end of the `finally` block of
`run()`: in between, calls can still start.

The broker conforms: it answers each packet once, in any order, positively or not.
Packets carry the call they belong to; neither side reads it, it is there to state
`OwnAnswer`. `Interruptible` says which kinds of call may be cancelled, or have their
write fail, while the read loop is alive.

### Keepalive

`waiters` is `_ping_waiters`. `reqs` and `resps` are the PINGREQs and PINGRESPs under
way, in order, with the messages and the PUBACKs between them. `TimerFires` and `Timeout` are separate because the task runs only some
time after its timer. Timers may fire at any moment: durations are not modelled. The
loop stops with `run()`; application pings also run on a dead protocol, as in the code.
`queue` counts the messages in the queue of a subscription; `stalled` is the read loop
suspended in `put()`, during which it handles no answer at all. The consumer takes a
message, awaits a QoS 1 `publish()` and takes the next.

### Inbound

The broker's session (`bstate`, `bid`) survives a connection and resends what is
unacknowledged; the client starts each connection with an empty `SessionState`.
`HandlePublish` has one disjunct per outcome of the code: over quota, PUBREC sent again,
duplicate ignored, buffered, buffer overflow, acknowledged and dropped, QoS 2 accepted,
routed. `rl` is the publish whose `queue.put()` the read loop waits for. `held` stands
for `_packet_ids`, `_topics` and `_message_count` together; `publishes` is the deque,
behind what the pass in progress has still to look at, and `unmatched` what it has put
back. `Pass` is the loop of `_deliver_pending` up to the next suspension (a recursive function along the
deque): deliveries that write no acknowledgement do not suspend it. `drain` says where
each task that drains is: waiting for SUBACK, wanting the lock, writing. `Reset` is the
end of a connection for this flow.

The tasks of `get_message()` and `subscribe()` can be cancelled. `TakeCancelled` falls
between `queue.get()` and the call going on, `CancelWait` on the wait for the lock, and
`CancelWrite` on the write of an acknowledgement, which is in the transport by then: the
`except` and `finally` of `_deliver_pending()` put the publish back, between what the pass
has put back and the rest, and it stays accounted for. `requeued` is the history of the
last, `missed` says that the last drain that was due was cancelled.

Abstractions: one subscription per topic and no overlapping filters (routing itself is
`Subscriptions`'); no pending requests; a write that fails is the loss of
the connection, as it is in the expiration task, which aborts; a `subscribe()` cancelled
before its SUBACK is `Outbound`'s; a task that waits for the lock when the connection is lost returns
normally, leaving out that it may first queue messages of the dead connection again
(duplicates that carry no acknowledgement); `detach()` and `stop()` are actions of
`ClientSession`. The session is always resumed: a session
that was not behaves like replay state `none`, which `expire()` also leads to.

### RequestResponse

An element of `Requests` is one call of `request()`; it also names the `_TopicInterest` it
may create, and an interest names its readiness task. `pc` is the `await` a call is
suspended in: the semaphore (`acquire`), the body of `register()` after it (`granted`), the
shielded readiness task (`subscribing`), `publish()`, the future (`reply`), and inside
`unregister()` the readiness task (`unready`), the guard of the topic (`removing`) and the
UNSUBACK (`unsubscribing`). `Release` hands a unit to the first waiter, as
`asyncio.Semaphore` does. `guard` is, per topic, the holder of the lock and the waiters
behind it, an entry being dropped when its operation leaves. `claims` holds the
`_ClaimedResponse` objects between PUBLISH and delivery, which for QoS 2 lie a handshake
apart. `app` is an application subscription to the same topic. `CancelPending` and
`Disconnect` are the two halves of `disconnect()`, with an `await` between them.

Abstractions: what a call returns or raises is left out, only that it ends; packets are
the sets the broker has subscribed once it has read everything sent; the request's own
publish is one step. `Settled` says that the tasks failing on a dead protocol do so before
a new one is connected: they need a few turns of the event loop, a reconnection at least
its initial delay and two round trips. A reconnection finds no subscription at the broker
(clean session), which is the case `restore()` exists for. The broker accepts every
UNSUBSCRIBE: one that it refuses leaves more subscribed, and no property here is about
what must not be (`Subscriptions` and `ClientSession` have refusals).

### ClientSession

`rl` is where `connect()` and then `_run_loop()` are: `initial` and `backoff` are
`_connect_with_retry()`, `start` the wait for `started_event`, `restore` the loop over
`subs_to_restore`, `run` the wait for `protocol.run()`, `callback` the recovery callback.
An attempt to connect ends as `Attempt` (CONNACK), `AttemptFails` (`OSError`,
`MQTTTimeoutError`), `AttemptRefused` (`MQTTConnectError`) or `AttemptDropped`
(`MQTTDisconnectedError`, `MQTTProtocolError`). `entry` is the owner of each filter's
entry in the current `SessionState`, `silenced` the detached ones and `kept` the client's
`_detached_filters`. An operation on a filter is `queued` for the guard, `sent` when it
made the entry, or `resent` when it found one: only then does it leave
`_registered_filters` empty. `enabled` is `ReconnectConfig.enabled`, chosen at the start.

`broker` is the broker's session. `Attempt` resumes it, with the filters it has, or gets a
new one; `Inherited` are filters an earlier client with the same identifier left in it. An
answer changes it: SUBACK adds the filter, unless it refuses, and UNSUBACK removes it,
unless it refuses, which the client only logs. Of requests that a lost connection leaves
unanswered (`Unanswered`) the broker may have handled any (`Die`). `leftover` is a history
variable: the filters given up without the broker agreeing.

Abstractions: one filter per subscription, and in the runs one subscription per filter;
messages and queues are `Inbound`'s; response topics are `RequestResponse`'s, and with them
the filters that `unsubscribe()` keeps for an observer; what the
application does after `disconnect()` is left out; `Settled` as above.

### TopicMatching and SubscriptionIndex

Topics and filters are sequences of levels. `MatchParts`, `SegmentRank` and
`SharedFilterToActual` follow `topic_matching.py`; `Matches` is the rule of the MQTT
standard, for comparison only. An index is a record of the three dictionaries. `root` maps
the path of every `_Node` to its entries; the dictionary a child is stored in follows from
its level. `RemoveEntry` prunes on the way back as the code does, `Collect` is the recursive
walk, and `Select...` follow the two stages of `select_by_identifier()`. Of equal
candidates the first receives, in the order of the trie.

### Subscriptions

An element of `Calls` is one call of `subscribe()`, `unsubscribe()`,
`add_response_observer()` or `remove_response_observer()`. `Begin` is everything up to its
first suspension: joining the guards of all its filters, taking the locks that are free,
in the order of `sorted()`, and, when it got all of them, the body up to the packet it
sends. `Acquired` goes on from a lock that was waited for. `Answer` is the broker handling
the oldest request and the read loop completing the future registered under the packet
identifier; `Resume` is the call going on, some time later; in between it can still be
cancelled. `AnswerNobody` is an answer whose identifier nobody waits for, or whose future
is done: the handler raises and `run()` ends. `Leave` is the `finally` block of `hold()`.
A guard is named by filter and creator, so that a guard that was dropped and created again
is another one: two calls on different guards of one filter would not exclude each other.

`Rejected` are the filters whose SUBSCRIBE the broker refuses, `Kept` those whose
UNSUBSCRIBE it refuses: it goes on delivering on them, and the client, which has removed
its entries, only warns (`Warned`). `orphans` is a history variable: the filters of a
SUBSCRIBE whose call failed, which the broker may still hold, and those of a refused
UNSUBSCRIBE. Abstractions: a packet is written in the step that sends it (what a
failing write does is in `Outbound`); the drain of the replay buffer after SUBACK is
`Inbound`'s; the detached flag of an entry, which changes delivery and not the index, is
`ClientSession`'s.

### Wire, Properties, Codec and Reading

Packets are records with the attributes of the dataclasses, buffers are sequences of
bytes. `Encode...` and `Decode...` are the functions of `codec.py`, with `ReadFields` for
the running offset they have in common and `IfRead` for the exceptions they let through;
`EncodedNames` and `DecodedNames` are the
properties each pair of functions in `properties.py` writes and reads, and are two
definitions since they are two pieces of code. `Malformed` is the `ValueError`,
`IndexError` or `struct.error` of a bad packet.

`Reading` starts with a stream of packets encoded by `Encode` and lets `transport.read()`
return any prefix of what is on the way. `AwaitConnack` feeds and takes one packet, after
which the handshake returns and leaves the iterator; `Dispatch` is one round of the loop in
`_read_loop()`, `Read` the wait for more bytes.

`PacketChannel` knows no bytes: packets are handed over one at a time and in order, and the
channel closes at an oversized packet or behind one that is not accepted. `Reading`
implements it (`ImplementsChannel`) under the mapping that forgets the bytes: `sent`
becomes the packets with their size and acceptance, `open` is `phase # "closed"`, and the
steps that only move bytes are stutters. So decoding is the inverse of encoding for every
packet sent, wherever the stream is cut.

## Runs

| Run | Expectation | What it shows |
|---|---|---|
| `outbound` | pass | `TypeOK`, `IdOwnership`, `LowestFree`, `ExchangeOnWire`, `OwnAnswer`, `NoLocalDeath`, `NoReuseInFlight`, `NoLeak`, and `EveryCallReturns` under fairness, with two identifiers for three calls of every kind |
| `outbound_cancelled_subscribe` | violation | a cancelled `subscribe()` turns the SUBACK into an `MQTTProtocolError` |
| `keepalive` | pass | `PendingIsListed`, `PongsInOrder`; under fairness `SilentBrokerDetected`, `PublishReturns` |
| `inbound` | pass | `ReplayAccounting`, `AcknowledgedWasHandled`, `ExactlyOncePerConnection`, `HeldKeepsItsPlace`, `QuotaNeverExceeded`, `HeldIsOnItsWay`, with an automatic and a manual subscription, a reconnection, and calls cancelled in their drains |
| `inbound_lost_qos2` | violation | a QoS 2 message lost with its connection |
| `request_shared` | pass | `CapacityAccounting`, `InterestAccounting`, `ResponseTopicHeld`, `ObserverReleased`, `ClaimIsDeliverable` with cancellations, a shared topic, a reconnection and `disconnect()` |
| `request_shutdown` | pass | `RequestsEnd` with `disconnect()` at any point |
| `session` | pass | `ActiveIsSubscribed`, `NoOrphanFilter`, `DetachedStaysSilent`, `RecoveryReported`, on resumed and new sessions; `OutageEnds`, `ConsumersWoken` under fairness |
| `session_stopped` | violation | a subscription stopped during a reconnection is subscribed again |
| `session_unreported` | violation | a handshake cut short ends the client without the recovery callback |
| `subscriptions` | pass | `Exclusion`, `GuardsCounted`, `NoWaitCycle` of the guards; `BrokerAgrees`, `IndexExact`, `RecipientIsBest` of the filters |
| `reading` | pass | `ImplementsChannel`, `WaitsOnlyWhenDrained`, `BufferBounded` |

### The findings

*Cancelled subscribe.* `subscribe()` is cancelled (or its write times out), the `finally`
block releases the identifier, SUBACK arrives, `_handle_suback` does not know it and
raises. The run loop treats `MQTTProtocolError` as terminal. If the identifier was
reused by another SUBSCRIBE, that caller gets the wrong answer and the second SUBACK is
the one that kills the connection. Publishes do not have this problem: they keep their
flight, and `OutboundProofs` shows that this is enough.

*Lost QoS 2 message.* Two ways. PUBCOMP is written, the queue is full or the write is
slow, the connection is lost and the cancelled read loop never queues the message. Or the
connection is lost between PUBREC and PUBREL: the resumed session repeats PUBREL, the new
`SessionState` has no flight, PUBCOMP 0x92 ends the exchange. `AcknowledgedWasHandled`
shows that, as long as no drain is cancelled in a write, these are the only ways (`cut` is
the set of messages they happened to).

*Stopped and restored.* The connection is lost, `subs_to_restore` is copied, the
application calls `stop()` during the back-off, the handshake or the restoring of another
subscription; the copy still holds it and `_reconnect()` looks only at `_detached`. The
filter is subscribed again with a queue nobody reads; a second `stop()` returns at once.

*Unreported loss.* During a reconnection the broker, or a proxy in front of it, accepts the
socket and closes it before CONNACK. `MQTTDisconnectedError` is caught neither by
`_connect_with_retry()` nor by `_run_loop()`: no further attempt, no callback. Consumers do
get the exception (`ConsumersWoken`).

### Observations without a run

The models also contain these behaviours, which no property of a run is about.

*Ping timeout.* The timer of `wait_for()` fires, the read loop handles the PINGRESP and
pops the waiter, the task resumes and `list.remove()` raises `ValueError`. In the
keepalive loop the exception ends the client, since the run loop reconnects only after
`MQTTDisconnectedError`, `MQTTTimeoutError` and `OSError`.

*Identifier reused during a replay pass.* The pass writes PUBACK and suspends; the
broker reuses the identifier; `contains_packet_id()` is still true and the new message is
ignored. It stays unacknowledged until the next connection.

*A drain cancelled in a write.* `get_message()` with a timeout, or a `subscribe()`, is
cancelled while its drain writes the acknowledgement of a held message. The message is
queued (QoS 1) or in flight (QoS 2) and the acknowledgement is on its way, yet
`_deliver_pending()` puts the message back with its identifier. Once the
exchange is over the broker uses the identifier for its next message, which is ignored as
a duplicate of the one put back, and the next drain takes the old one up again. For QoS 1,
it is queued a second time, and its PUBACK ends the exchange of the new message, which was
never queued. For QoS 2, PUBREC is sent again; the PUBREL that answers it, for the new
message or with 0x92 for an unknown one, queues the old message a second time. So a message
can be lost on a live connection (`docs/publishing.md:25`, of QoS 1: "Delivered at least
once") and a QoS 2 message delivered twice on one (`docs/advanced/scaling.md:71`: "QoS 2
prevents duplicate protocol delivery within the MQTT session"). `AcknowledgedWasHandled`,
`ExactlyOncePerConnection` and `QuotaNeverExceeded` hold up to the first such cancellation
(`~requeued`); `ReplayAccounting` and `HeldKeepsItsPlace` hold beyond it. Without `~requeued`
TLC refutes the first two on the instance of `inbound`, and the third when it may retransmit
the first message instead of the second. The model's broker ignores a PUBREC it does not
expect where one that speaks MQTT 5.0 answers with 0x92; there is none before such a
cancellation.

*A cancelled get_message().* The call has its message when it drains: cancelled there, or
between `queue.get()` and its own resumption, it drops the message, which may have been
acknowledged. If it only waited for the lock, the room it made is announced to nobody: a
held message of its topic then moves with the next drain, or not at all before the replay
timeout (`docs/advanced/persistent-sessions.md` says that reading resumes the transfer).
`HeldIsOnItsWay` excepts the time up to that drain (`missed`).

*A failed start.* `start()` lists the subscription before SUBSCRIBE is sent and does not
take it back. It is restored on the next connection although `start()` raised; started
again, it is listed twice, the second restoring finds its entry and empties
`_registered_filters`, and `stop()` and `detach()` do nothing at the broker. The same
happens when `stop()` and `start()` meet the run loop restoring the subscription. Hence
`starts[s] = 1` in `ActiveIsSubscribed` and `DetachedStaysSilent`.

*Filters of a resumed session.* Where the session outlives the connection, the broker goes
on delivering on a filter that was given up without its agreement (`leftover`): `stop()`
during an outage, or of a subscription without `_registered_filters`, sends nothing; the
body of `async with` was cancelled; the UNSUBSCRIBE was refused (as `docs/subscribing.md`
says); the answer was lost with the connection; `detach()` while the subscription is being
restored finds no entry to silence and keeps none; an earlier client left it. Of everything
else `NoOrphanFilter` shows that an entry, or a `stop()` at work, accounts for it.

*Replay overtaken.* With two automatically acknowledged subscriptions, a pass puts back a
message of topic a because its queue is full, suspends in the PUBACK of topic b, a consumer
of a makes room, and the pass delivers the next message of a: it overtakes the one put
back. `HeldKeepsItsPlace` therefore speaks of a session with one automatic subscription,
whose own writes are the only suspensions of a pass.

*Filters left at the broker.* When SUBACK refuses one filter of several, `subscribe()`
raises and removes all its entries; the accepted filters stay subscribed at the broker and
their messages find no recipient. A call cancelled after its answer arrived, before it
resumed, leaves its filters behind in the same way, and so does an UNSUBACK that refuses.
`BrokerAgrees` counts all three as `orphans`.

*Backpressure.* A full queue stops the read loop, PINGRESPs included: a consumer that is
slower than keepalive and ping timeout together looks like a silent broker and loses its
connection. It is also what ends the wait of a consumer that publishes
(`PublishReturns`); with keepalive 0 that consumer, its queue and the read loop wait for
each other for ever.

*Malformed packets.* The decoder reports them with plain `ValueError`, `IndexError` or
`struct.error`, which end the client, while `docs/error-handling.md` names
`MQTTProtocolError`. A block of properties may overrun its length by part of its last
property; of several subscription identifiers the last one counts.

*What request() raises.* A connection lost while `close()` awaits the UNSUBACK replaces a
reply that had arrived by `MQTTDisconnectedError`; `disconnect()` during `register()` makes
it raise `CancelledError` although nobody cancelled the caller, because the readiness task
it shields is cancelled. The model has the steps, not the results.

### Bounds

`outbound`: three calls and two identifiers are the least with which identifiers run
out, are reused while another exchange is open, and a third call can get the identifier
of a first one whose answer is late. `keepalive`: two application pings and the loop give
every order of three waiters with timeouts and cancellations; a queue of one and `MaxLoad`
pings and messages together let the read loop stall with a PUBACK and a PINGRESP behind
the message. `inbound`: four messages over two identifiers, two subscriptions with a queue
of one, a replay buffer of two and two connections, so that a pass skips, delivers,
overflows and expires; one QoS 2 message may be retransmitted once. `MaxLapses` bounds
the reconnections and the cancelled calls of a behaviour together: one reconnection, or one
call cancelled in its drain. One of either is enough: a second connection already meets
everything that is lost with a `SessionState`, and one message put back already meets a new
one under its own identifier, with the consequences described above. Without a bound, a message that is put back would be
acknowledged and put back without end; the theorems cover any number of both.
`subscriptions`: three calls are the least
for a circle of two with one more waiter, and for a guard that is shared, dropped and
created again; seven filters cover both wildcards, `$`, `$share` and a stripped prefix,
with requests that overlap in different orders, repeat a filter and are refused in part,
among them an UNSUBSCRIBE;
calls are interchangeable (symmetry). `reading`: every packet type in both versions, with
all the properties of its kind at once and values at the ends of their ranges, remaining
lengths on both sides of 127/128, streams of up to five packets cut at every byte, with and
without a limit. `request_shared`: two requests on one topic are the least that join, leave and inherit an interest, and a second connection is what `bind()` and `restore()` act on; they may be
cancelled at every `await`. `request_shutdown`: three requests with room for two, so that
one waits for a unit while another is being forgotten. `session`: two subscriptions, so
that a loss can fall between two restorings; three connections, so that a restoring that
failed is repeated; two attempts per outage; the first subscription may be started twice,
and the filter of the second may be inherited. `MaxConnections` counts
a subscription that is started again with the connections: three connections, or two and
a restart.
The models may stop (no call left to
make, or the client ended), hence CHECK_DEADLOCK FALSE.

### Fairness

The event loop resumes every task that can run: weak fairness of `CallStep`, `PingStep`
and the read loop. `write()` ends because the transport bounds
`drain()` with a timeout. `run()` reaches its end: `RunExits`. Timers fire
(`Keepalive`, and `Timeout` of a request: `request()` always has one). `EveryCallReturns` also assumes that the broker answers
(`ResponsiveSpec`), as MQTT requires of it; `SilentBrokerDetected` assumes nothing of the
broker. `PublishReturns` needs the keepalive loop and a broker that may be silent.
`Inbound`, `Subscriptions` and `Reading` are checked for safety only: that held messages
are not forgotten is the invariant `HeldIsOnItsWay` (but for cancelled drains), and that calls cannot block each other
is `NoWaitCycle`. `RequestsEnd` and `OutageEnds` assume that on a live
connection the broker answers SUBSCRIBE and UNSUBSCRIBE; `request()` sets no timeout on
either. An attempt to connect ends because of `mqtt_connect_timeout`. `OutageEnds` says
nothing of a client that loses every connection at once for ever: it stops at
`MaxConnections`, and `max_attempts` counts the attempts of one outage only.

## Proofs

The theorems hold for every value of the constants that the `ASSUME`s allow: any number
of calls, requests, subscriptions, filters, connections, any size of the identifier space.
Each rests on an inductive invariant that TLC checked on the run's instance before it was
proved; the proof of its step has one part per action. `QueueLemmas` has the facts about
sequences with distinct members that the models of asyncio's queues share: what `Head`,
`Tail`, `Append`, `RemoveFirst` and concatenation do to the members and their order.

`OutboundProofs`, about `Outbound` and `PacketIds`:

- For every `MaxId`, the search of `acquire()` ends on a free identifier whenever it does
  not raise, acquire and release keep the pool well formed, and no free identifier lies
  below `next` (`Compact`).
- `TypeCorrect`, `IdOwnershipHolds`, `LowestFreeHolds`, without further assumptions. The
  inductive invariant is `Core`: types, `Registration` (which calls stand in the tables: a
  flight may outlive its call, a pending SUBSCRIBE is there exactly while its call runs),
  `IdOwnership` and `LowestFree`. `Registration` is needed because the `finally` block
  releases `pid[o]`, and only it says that this identifier is still the call's own.
- `ExchangeOnWireHolds`, `OwnAnswerHolds`, `NoLocalDeathHolds` and `NoReuseInFlightHolds`,
  assuming `Interruptible \cap SubscribeKinds = {}`, which is the condition the first
  finding violates. The inductive invariant is `Wire`, on top of `Core`: every packet on
  the wire is expected by the exchange registered under its identifier, and no two share
  one; so an identifier on the wire is allocated, and a fresh one is on no packet.
- `NoLeakHolds`, without that assumption: cancelled subscribes end connections but leak no
  identifier. The invariant is `FlightCarried`: on a live connection a packet that will
  complete or end it travels for every flight of `publish()`, unless `encode()` rejected
  its packet.

`KeepaliveProofs`, about `Keepalive`, for any number of concurrent pings:

- `PendingIsListedHolds`. The invariant `ListInv` adds that the listed futures are pending
  and their calls under way, each listed once: without the latter `list.remove()` of a
  call that gives up could leave it in the list.
- `PongsInOrderHolds`. `Aligned` carries an increasing placement `f` of the list among the
  PINGREQs and PINGRESPs that are due through every step; the lemmas `Fits...` give the new
  placement when a ping begins, is answered, times out or is cancelled.

`InboundProofs`, about `Inbound`, for any messages, topics, queue and buffer sizes,
identifiers, Receive Maximum and number of connections. Two inductive invariants, the
second on top of the first:

- `BufferInv` is about the replay buffer and the tasks that drain it, and gives
  `TypeCorrect`, `ReplayAccountingHolds`, `HeldIsOnItsWayHolds` and
  `HeldKeepsItsPlaceHolds`, through cancellations of every kind. Its parts: the broker's identifiers (`BrokerInv`), what is left
  of a lost connection (`DownInv`), who has the lock (`LockInv`), the accounts with the
  two deques apart (`HeldInv`), a buffered message that has a subscription is on its way
  unless a drain was missed (`missed \/ OnWay`), and the order of the topics (`OrderInv`, which needs `WireInv`: the broker
  publishes in order, and what is under way comes after what the client has seen; and
  `CurrentFirst`: of its topic, the publish whose acknowledgement is being written comes
  first, so that it may be put back in front of the rest). A pass
  is a recursive function; `PassIsLast` turns it into a sequence of states, one per publish
  it considers, and `PassResult` proves by the least counterexample what every prefix of a
  pass has done: each publish was sent, put back, stopped at or left for later
  (`PassSets`), by the rules of the recipient and its queue (`PassRoute`), the queues have
  grown by the items sent (`PassQueue`), each of them once (`PassItems`), and the order is
  kept (`PassOrder`).
- `SessionInv(stage)` gives `QuotaNeverExceededHolds`, `ExactlyOncePerConnectionHolds` and
  `AcknowledgedWasHandledHolds`, and is kept by every step up to the first drain that is
  cancelled in a write: what is proved is that `requeued` or the invariant always holds.
  The difficulty is that after an acknowledgement the
  broker reuses the identifier while the client, the wire and the application may still
  have something to do with the old message; the identifiers alone do not say whose they
  are. The invariant therefore says that there is a function `stage` that puts every
  message of QoS 1 or 2 in one place of the client (nowhere, held back, with the read loop,
  in a queue, in a consumer's hand, with the application, in flight, or over) such that the
  broker's session, every packet under way in either direction, every pair of packets that
  could be confused, the queues, the flights, the pending identifiers, the quota and the
  history fit it. `stage` is quantified, as a history variable would be, and every action
  has a lemma that gives the new one (`...Step`). `QuotaIsEnough` shows that
  `PublishOverQuota` is then never enabled.

The broker's part of these theorems is an assumption on the environment: it resumes the
session, resends in order, and respects the Receive Maximum. The two gaps that
`AcknowledgedWasHandled` excepts are those of the finding `QoS2NotLost`; what `requeued`
excepts is the drain cancelled in a write, described above.

`RequestResponseProofs`, about `RequestResponse`, for any requests, topics, correlation
data and capacity:

- `CapacityAccountingHolds`, from `CallsInv`: the queue of the semaphore, `_pending` and
  the places of the calls agree, the units add up to `max_pending_requests`, and nobody
  waits while a unit is free.
- `InterestAccountingHolds`, from `InterestInv`: an interest belongs to its topic, a
  registered call knows the interest of its topic, and a reference count of zero occurs
  only while a call that lets go waits for the readiness task.
- `ClaimIsDeliverableHolds`, from `ClaimInv`: the claim of a call that still waits has
  the current generation.
- `ResponseTopicHeldHolds` and `ObserverReleasedHolds`, from `ObserverInv`, which
  describes each topic on its own (`TopicInv`). The part that makes it inductive is
  `Ordered`: operations of earlier interests are in front of the current one's in the
  queue of the guard and gone once it has had its turn, so a removal that was queued first
  cannot take away the subscription of an interest that came later.

`SubscriptionsProofs`, about `Subscriptions` and its index, for any calls, requests, order
of filters, stripped prefixes and refusals of the broker:

- `ExclusionHolds`, `GuardsCountedHolds`, `NoWaitCycleHolds`, about the guards. The
  invariant `HoldInv` says that a call stands in the queues of its guards up to its
  position and is first in all but the last (`Lined`), that a guard counts the calls that
  list it (`Counted`), that the table has exactly the guards some call lists (`Listed`),
  and that the guards of a call ascend (`CallFits`). The circle is excluded by the greatest
  filter anybody in it waits for: its holder would wait for a greater one. That every set of
  filters has its sorted sequence is proved too (`SortedGrows`), since `SortedSet` is a CHOOSE.
- `IndexExactHolds`, from `IndexInv`. `RemoveEntryTrie` follows the pruning of
  `_remove_entry()` up the path: after each turn the trie has the nodes that the remaining
  entries need and the part of the path above (`Leftover`), and a node is popped exactly
  when no entry needs it. `AddTrie`, `AddTable` and `ForgetTable` do the same for `add()`
  and the identifiers, `AddManyExact` and `RemoveManyExact` for the loops over filters.
  `FiltersAssumption` says what a filter is (at least one level) and what the broker strips
  of it; `ActualFacts` shows from it that the client strips the same.
- `BrokerAgreesHolds`, from `WireInv` and `BrokerInv`. `WireInv` says that calls past their
  locks have distinct packet identifiers, that each has its request on the wire until the
  answer arrives, and which filters the request names. `BrokerInv` says, as long as no
  call has given up a request on the wire, what the broker has of a filter no call is
  working on (`Settled`), and what of one that a call is (`Busy`), phase by phase. Three
  arguments carry it: calls past their locks share no filter, so no step disturbs another
  call's filters (`BrokerOthers`); the request that answers a call is its own
  (`HeadIsOwn`); and a given-up request never leaves the wire except with the connection
  (`CleanBefore`): where its answer reaches a later call that reuses the identifier, the
  request of that call is left over instead.

`ClientSessionProofs`, about `ClientSession`, for any subscriptions, attempts and
connections:

- `RecoveryReportedHolds` (invariant `ReportInv`), without further assumptions.
- `ActiveIsSubscribedHolds`, `DetachedStaysSilentHolds` and `NoOrphanFilterHolds`, assuming
  `DistinctFilters`: no two subscriptions share a filter. The assumption is needed: with two on one filter,
  `DetachedStaysSilent` is false in the model, since the entry is then another one's, and
  that case is not modelled in full (see the plan). The invariant `SessionInv` says where
  the run loop can be (`LoopFits`), who is listed (`SubFits`), who is in a guard
  (`GuardFits`), that an active subscription is subscribed or still to be restored
  (`EntryFits`), and that one that was started once is restored once (`SingleFits`).
  `NoOrphanFilter` rests on `Owned` besides: a filter that the broker has and nobody gave up
  belongs to a subscription that is listed, stopping or detached with its entry kept
  (`Owners`), and is restored where the connection has no entry that will stay; who waits
  for an answer has the guard of the filter (`Heads`), so that the answer is about the
  entry that is there.

`ReadingProofs`, about `Reading`, for any streams, limits and ways of cutting:
`WaitsOnlyWhenDrainedHolds` and `BufferBoundedHolds`. `ReadingAssumption` says that the
broker sends what `encode()` can write: a first byte, and a body of bytes that the
remaining length can express. Both properties depend on the fixed header only, so that
the proof needs nothing about bodies. `VarintRead` and `VarintCut` say that
`decode_varint()` is the inverse of `encode_varint()` up to 268,435,455 and that a varint
cut short is incomplete; `DecodeFrame`, that `decode()` at the start of a frame waits only
while the frame is incomplete and otherwise takes exactly the frame, or raises;
`Flattened`, where each frame lies in the stream. The invariant `ReaderInv` then says that
the bytes in the buffer behind the offset, and those still on the way behind them, are the
stream from the start of the next packet on (`Placed`).

The prover has no induction rule it could instantiate; where a proof needs induction over
naturals, as for a pass, the sorted sequences, the greatest filter and the stream above, it
takes the least counterexample (`LeastNatural`). Loops over a list are recursive functions
of the number of turns; `LoopExists` and `CountUp` of `QueueLemmas` give the existence of
such a function and what holds after its last turn.

Only model-checked, and why:

- Liveness: `EveryCallReturns`, `SilentBrokerDetected`, `PublishReturns`, `RequestsEnd`,
  `OutageEnds`, `ConsumersWoken`. Fairness is outside the prover's reach.
- `RecipientIsBest`: "matches strictly more" is said of the topics of the instance. With few
  topics two filters that rank differently can match the same ones or one set contain the
  other by accident (`a/+` and `+/b` on the topics `a/b` and `a/c`), so that it is no
  theorem for every set of topics; and the walk of `_collect()` is a recursion over a tree.
- `ImplementsChannel`: that the packet yielded is the packet sent needs the body, which is
  encoded and decoded by folds over its layout and recursion over its bytes.

## Plan

Modelled so far, most important first: the exchanges and their identifiers, the keepalive
and the backpressure, the receive side, requests, the client's life, the subscriptions and
their index, the codec and the reader. Proved: every invariant of `Outbound`, `Keepalive`,
`Inbound`, `RequestResponse`, `ClientSession` and `Reading`, and of `Subscriptions` every
one but `RecipientIsBest`.
Next:

1. An abstract specification of request and answer that `Outbound` implements.
2. `ClientSession` with two subscriptions on one filter and with a cancelled `start()`.

## Not modelled

TLS and socket set-up, logging, and durations: a timer may fire at any time. `auth()` only
writes a packet and changes no state. Errors, enumerations and the public facade have no
state. The DISCONNECT written for an oversized packet changes nothing that is modelled.
Invalid UTF-8 in a received string is not told apart from valid.
