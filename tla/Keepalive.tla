------------------------------ MODULE Keepalive ------------------------------
(***************************************************************************)
(* PINGREQ and PINGRESP of MQTTProtocol: ping(), the list of its waiters,  *)
(* _handle_pingresp() and the keepalive loop _ping_loop(), on one          *)
(* connection, together with what competes with them for the read loop: a  *)
(* subscription whose queue is bounded, and a consumer that answers every  *)
(* message with a publish() of QoS 1.                                      *)
(*                                                                         *)
(* A PINGRESP names no request: the list _ping_waiters alone decides whose *)
(* answer it is.  A call of ping() is cut at its await points; between the *)
(* moment its timer fires and the moment the event loop resumes it         *)
(* ("timing") the read loop may still handle a PINGRESP.  PINGREQ and      *)
(* PINGRESP carry the call they belong to, which neither side looks at.    *)
(*                                                                         *)
(* A full queue suspends the read loop in put(), and with it every answer  *)
(* that is behind the message on the wire.                                 *)
(***************************************************************************)
EXTENDS Integers, Sequences, SequencesExt

CONSTANTS
  AppPings,   \* the calls of client.ping() made by application tasks
  Loop,       \* the calls of ping() made by _ping_loop(), one after the other
  KeepaliveOn, \* the effective keepalive is not zero
  QueueSize,   \* receive_buffer_size of the subscription
  MaxLoad      \* bound on the application's pings and the broker's messages together

Pings == AppPings \cup {Loop}

Message == "PUBLISH" \* of the broker
Own == "PUBACK"      \* the consumer's PUBLISH, and the PUBACK for it

ASSUME KeepaliveAssumption ==
  /\ Loop \notin AppPings /\ Message \notin Pings /\ Own \notin Pings
  /\ KeepaliveOn \in BOOLEAN /\ QueueSize \in Nat \ {0} /\ MaxLoad \in Nat

VARIABLES
  conn,    \* "up"; "closing": run() awaits its tasks; "dead": _dead is set
  waiters, \* _ping_waiters, the calls whose future is in the list
  pc,      \* where each call is
  fut,     \* the future of each call
  outcome, \* how each call of an application task returned
  reqs,    \* requests that the broker has not answered, in order
  resps,   \* packets that the read loop has not handled, in order
  silent,  \* the broker has stopped answering
  queue,   \* how many messages the subscription's queue holds
  stalled, \* the read loop waits in put()
  consumer, \* "taking" from the queue, "publishing", or "failed"
  published \* how many messages the broker has published

pings == <<conn, waiters, pc, fut, outcome, silent>>
flow == <<queue, stalled, consumer, published>>
vars == <<pings, reqs, resps, flow>>

Init ==
  /\ conn = "up"
  /\ waiters = <<>> /\ reqs = <<>> /\ resps = <<>>
  /\ pc = [p \in Pings |-> "idle"]
  /\ fut = [p \in Pings |-> "none"]
  /\ outcome = [p \in Pings |-> "none"]
  /\ silent = FALSE
  /\ queue = 0 /\ stalled = FALSE /\ consumer = "taking" /\ published = 0

Load == published + Cardinality({p \in AppPings : pc[p] # "idle"})
Active(p) == pc[p] \in {"sending", "waiting", "timing"}

-----------------------------------------------------------------------------
(* ping().                                                                 *)

\* What is written reaches the broker while the connection is up.
Write(packet) == reqs' = IF conn = "up" THEN Append(reqs, packet) ELSE reqs

\* Registers the waiter and writes PINGREQ.  Nothing asks whether run() still
\* lives, so this also happens on a dead connection.
BeginPing(p) ==
  /\ waiters' = Append(waiters, p)
  /\ Write(p)
  /\ pc' = [pc EXCEPT ![p] = "sending"]
  /\ fut' = [fut EXCEPT ![p] = "pending"]
  /\ UNCHANGED <<conn, outcome, resps, silent, flow>>

StartApp(p) == p \in AppPings /\ pc[p] = "idle" /\ Load < MaxLoad /\ BeginPing(p)

\* _ping_loop() has slept for the effective keepalive.
StartLoop == KeepaliveOn /\ conn = "up" /\ pc[Loop] = "idle" /\ BeginPing(Loop)

\* The task of the keepalive loop is cancelled when run() shuts down.
Runs(p) == p = Loop => conn = "up"

\* The call raises: an application task sees the exception, the keepalive loop
\* passes it on to gather() and ends run().
Raise(p, result) ==
  /\ pc' = [pc EXCEPT ![p] = "finished"]
  /\ IF p = Loop
       THEN conn' = "closing" /\ UNCHANGED outcome
       ELSE outcome' = [outcome EXCEPT ![p] = result] /\ UNCHANGED conn

SendDone(p) ==
  /\ pc[p] = "sending" /\ Runs(p)
  /\ pc' = [pc EXCEPT ![p] = "waiting"]
  /\ UNCHANGED <<conn, waiters, fut, outcome, reqs, resps, silent, flow>>

\* transport.write() raises outside the try block: the waiter stays in the list.
SendFails(p) ==
  /\ pc[p] = "sending" /\ Runs(p)
  /\ Raise(p, "disconnected")
  /\ UNCHANGED <<waiters, fut, reqs, resps, silent, flow>>

\* Mutant: a cancelled ping() takes its waiter out of the list.
CancelRemovesWaiter(p) ==
  /\ p \in AppPings /\ Active(p)
  /\ pc' = [pc EXCEPT ![p] = "finished"]
  /\ outcome' = [outcome EXCEPT ![p] = "cancelled"]
  /\ waiters' = RemoveFirst(waiters, p)
  /\ UNCHANGED <<conn, fut, reqs, resps, silent, flow>>

\* The application cancels the task.  The future is shielded and stays listed.
Cancel(p) ==
  /\ p \in AppPings /\ Active(p)
  /\ pc' = [pc EXCEPT ![p] = "finished"]
  /\ outcome' = [outcome EXCEPT ![p] = "cancelled"]
  /\ UNCHANGED <<conn, waiters, fut, reqs, resps, silent, flow>>

\* The future is done: an application task gets its round-trip time or the reason
\* the connection was lost; the loop goes back to sleep.
Resume(p) ==
  /\ pc[p] = "waiting" /\ fut[p] # "pending" /\ Runs(p)
  /\ IF p = Loop
       THEN pc' = [pc EXCEPT ![p] = "idle"] /\ UNCHANGED outcome
       ELSE /\ pc' = [pc EXCEPT ![p] = "finished"]
            /\ outcome' = [outcome EXCEPT ![p] = IF fut[p] = "ok" THEN "rtt"
                                                 ELSE "disconnected"]
  /\ UNCHANGED <<conn, waiters, fut, reqs, resps, silent, flow>>

\* The timer of wait_for() fires and cancels the wait; the task runs later.
TimerFires(p) ==
  /\ pc[p] = "waiting" /\ Runs(p)
  /\ pc' = [pc EXCEPT ![p] = "timing"]
  /\ UNCHANGED <<conn, waiters, fut, outcome, reqs, resps, silent, flow>>

\* Mutant: the handler of the timeout drops the oldest waiter instead of its own.
TimeoutDropsOldest(p) ==
  /\ pc[p] = "timing" /\ Runs(p)
  /\ waiters # <<>>
  /\ waiters' = Tail(waiters)
  /\ Raise(p, "timeout")
  /\ UNCHANGED <<fut, reqs, resps, silent, flow>>

\* Mutant: the timeout ends the keepalive loop but not run().
TimeoutSwallowed(p) ==
  /\ pc[p] = "timing" /\ Runs(p)
  /\ waiters' = RemoveFirst(waiters, p)
  /\ pc' = [pc EXCEPT ![p] = "finished"]
  /\ outcome' = [outcome EXCEPT ![p] = "timeout"]
  /\ UNCHANGED <<conn, fut, reqs, resps, silent, flow>>

\* `except TimeoutError': the waiter is removed and MQTTTimeoutError raised, but
\* list.remove() raises ValueError when the waiter is no longer listed.
Timeout(p) ==
  /\ pc[p] = "timing" /\ Runs(p)
  /\ IF p \in ToSet(waiters)
       THEN waiters' = RemoveFirst(waiters, p) /\ Raise(p, "timeout")
       ELSE Raise(p, "ValueError") /\ UNCHANGED waiters
  /\ UNCHANGED <<fut, reqs, resps, silent, flow>>

-----------------------------------------------------------------------------
(* The read loop, the broker and the end of run().                         *)

Reads(packet) == conn = "up" /\ ~stalled /\ resps # <<>> /\ Head(resps) \in packet

\* The oldest waiter is taken off the list and completed.
HandlePingresp ==
  /\ Reads(Pings)
  /\ resps' = Tail(resps)
  /\ IF waiters = <<>>
       THEN UNCHANGED <<waiters, fut>>
       ELSE /\ waiters' = Tail(waiters)
            /\ fut' = [fut EXCEPT ![Head(waiters)] = IF @ = "pending" THEN "ok" ELSE @]
  /\ UNCHANGED <<conn, pc, outcome, reqs, silent, flow>>

\* _deliver(): put() suspends the read loop when the queue is full, ...
HandlePublish ==
  /\ Reads({Message})
  /\ resps' = Tail(resps)
  /\ stalled' = (queue = QueueSize)
  /\ queue' = IF queue = QueueSize THEN queue ELSE queue + 1
  /\ UNCHANGED <<pings, reqs, consumer, published>>

\* ... and goes on when the consumer has made room.
PutDone ==
  /\ conn = "up" /\ stalled /\ queue < QueueSize
  /\ stalled' = FALSE /\ queue' = queue + 1
  /\ UNCHANGED <<pings, reqs, resps, consumer, published>>

HandlePuback ==
  /\ Reads({Own})
  /\ resps' = Tail(resps)
  /\ consumer' = "taking"
  /\ UNCHANGED <<pings, reqs, queue, stalled, published>>

\* get_message() and publish() of the consumer.  On a dead connection publish() raises.
Consume ==
  /\ consumer = "taking" /\ queue > 0
  /\ queue' = queue - 1
  /\ IF conn = "dead"
       THEN consumer' = "failed" /\ UNCHANGED reqs
       ELSE consumer' = "publishing" /\ Write(Own)
  /\ UNCHANGED <<pings, resps, stalled, published>>

\* The broker answers PINGREQs and PUBLISHes in order, until it goes silent.
BrokerAnswers ==
  /\ conn = "up" /\ ~silent /\ reqs # <<>>
  /\ reqs' = Tail(reqs)
  /\ resps' = Append(resps, Head(reqs))
  /\ UNCHANGED <<pings, flow>>

BrokerPublishes ==
  /\ conn = "up" /\ ~silent /\ Load < MaxLoad
  /\ published' = published + 1
  /\ resps' = Append(resps, Message)
  /\ UNCHANGED <<pings, reqs, queue, stalled, consumer>>

BrokerGoesSilent ==
  /\ ~silent /\ silent' = TRUE
  /\ UNCHANGED <<conn, waiters, pc, fut, outcome, reqs, resps, flow>>

ConnectionLost ==
  /\ conn = "up"
  /\ conn' = "closing"
  /\ UNCHANGED <<waiters, pc, fut, outcome, reqs, resps, silent, flow>>

\* Mutant: only the waiters of ping() are failed.
RunExitsForgetsPublish ==
  /\ conn = "closing" /\ conn' = "dead"
  /\ pc' = [pc EXCEPT ![Loop] = "finished"]
  /\ fut' = [p \in Pings |-> IF p \in ToSet(waiters) /\ fut[p] = "pending"
                               THEN "lost" ELSE fut[p]]
  /\ waiters' = <<>>
  /\ stalled' = FALSE
  /\ reqs' = <<>> /\ resps' = <<>>
  /\ UNCHANGED <<outcome, silent, queue, consumer, published>>

\* The end of run(): read loop and ping loop have been cancelled, _cancel_pending()
\* fails the futures in the list and empties it, and fails the pending publish.
RunExits ==
  /\ conn = "closing" /\ conn' = "dead"
  /\ pc' = [pc EXCEPT ![Loop] = "finished"]
  /\ fut' = [p \in Pings |-> IF p \in ToSet(waiters) /\ fut[p] = "pending"
                               THEN "lost" ELSE fut[p]]
  /\ waiters' = <<>>
  /\ stalled' = FALSE
  /\ consumer' = IF consumer = "publishing" THEN "failed" ELSE consumer
  /\ reqs' = <<>> /\ resps' = <<>>
  /\ UNCHANGED <<outcome, silent, queue, published>>

PingStep(p) == SendDone(p) \/ SendFails(p) \/ Resume(p) \/ Timeout(p)

ReadLoop == HandlePingresp \/ HandlePublish \/ PutDone \/ HandlePuback

Next ==
  \/ StartLoop
  \/ \E p \in Pings : StartApp(p) \/ PingStep(p) \/ Cancel(p) \/ TimerFires(p)
  \/ ReadLoop \/ Consume
  \/ BrokerAnswers \/ BrokerPublishes \/ BrokerGoesSilent
  \/ ConnectionLost \/ RunExits

\* Timers fire, the event loop resumes the tasks that can run, write() is bounded
\* by the drain timeout.  A broker that has not gone silent answers.
Fairness ==
  /\ WF_vars(ReadLoop) /\ WF_vars(BrokerAnswers)
  /\ WF_vars(StartLoop)
  /\ \A p \in Pings : WF_vars(PingStep(p)) /\ WF_vars(TimerFires(p))
  /\ WF_vars(RunExits)

Spec == Init /\ [][Next]_vars /\ Fairness

-----------------------------------------------------------------------------
(* Properties.                                                             *)

\* A call that waits for an open future has it in the list, so that a PINGRESP or
\* the end of run() reaches it, also when other calls time out or are cancelled.
PendingIsListed ==
  \A p \in Pings : Active(p) /\ fut[p] = "pending" => p \in ToSet(waiters)

\* What the read loop has still to handle, from the packet it reads next to the answer
\* to the last request.
Due == resps \o reqs

\* f places every listed waiter at a packet of its own that is due, in order.
InPlace(f) ==
  /\ \A i, j \in DOMAIN waiters : i < j => f[i] < f[j]
  /\ \A i \in DOMAIN waiters : Due[f[i]] = waiters[i]

\* The list stays aligned with what is on the wire: the PINGRESP of every listed
\* waiter is still due, in the order of the list, so no caller waits for longer than
\* its own round trip; and as long as no application ping has timed out no other
\* PINGRESP is due, cancelled and concurrent calls included, so that every caller is
\* completed by the answer to its own PINGREQ.
PongsInOrder ==
  conn = "up" =>
    \E f \in [DOMAIN waiters -> DOMAIN Due] :
      /\ InPlace(f)
      /\ (\A p \in Pings : outcome[p] # "timeout") =>
           \A k \in DOMAIN Due : Due[k] \in Pings => \E i \in DOMAIN waiters : f[i] = k

\* With keepalive on, a broker that stops answering is noticed and ends run(),
\* although late answers to earlier pings may satisfy a few more rounds.
SilentBrokerDetected == KeepaliveOn => (silent ~> conn # "up")

\* A consumer that publishes from its loop always gets an answer, although a full queue
\* may have put its PUBACK out of the read loop's reach: the keepalive, whose PINGRESP is
\* as unreachable, ends the connection.
PublishReturns == KeepaliveOn => (consumer = "publishing" ~> consumer # "publishing")

=============================================================================
