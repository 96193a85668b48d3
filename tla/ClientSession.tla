----------------------------- MODULE ClientSession -----------------------------
(***************************************************************************)
(* The life of an MQTTClient (client.py): the first connection, the run    *)
(* loop with its back-off and its recovery callback, the restoring of      *)
(* subscriptions on a new connection, disconnect(), and what start(),      *)
(* stop() and detach() of a Subscription and a consumer in get_message()   *)
(* do at any point of it.  Every subscription has one filter; operations   *)
(* on the same filter are serialised by _SubscriptionGuards.               *)
(*                                                                         *)
(* An action is what one task does between two suspensions.  Delays,       *)
(* transports and messages are left out: an attempt to connect ends in one *)
(* of the ways _connect_with_retry() tells apart, and finds at the broker  *)
(* the session of the last connection or a new one.                        *)
(***************************************************************************)
EXTENDS Integers, SequencesExt

CONSTANTS
  Subs,           \* the Subscription objects of the application
  FilterOf,       \* the filter of each
  Inherited,      \* the filters that an earlier client left in the broker's session
  Consumers,      \* those the application reads with get_message()
  MaxAttempts,    \* ReconnectConfig.max_attempts
  MaxConnections, \* bound on the connections of a behaviour and the restarts of subscriptions
  MaxStarts,      \* bound on the calls of start() of each
  None            \* no subscription

Filters == {FilterOf[s] : s \in Subs}

ASSUME SessionAssumption ==
  /\ None \notin Subs /\ Consumers \subseteq Subs /\ Inherited \subseteq Filters
  /\ MaxAttempts \in Nat \ {0} /\ MaxConnections \in Nat \ {0} 
  /\ MaxStarts \in [Subs -> Nat]

VARIABLES
  enabled,   \* ReconnectConfig.enabled
  rl,        \* where connect() and then _run_loop() are
  cause,     \* what ended the run loop
  attempts,  \* failed attempts of the current _connect_with_retry()
  callbacks, \* how often on_connection_recovery_failed was awaited
  todo,      \* subs_to_restore
  restore,   \* how far the restoring of its head is: "none", "queued", "sent" or "resent"
  conns,     \* how many connections there have been
  alive,     \* the current protocol's run() has not ended
  died,      \* what its run() raised
  subs,      \* MQTTClient._subscriptions
  starts,    \* how often the start() of each was called
  sub,       \* what the application has done with each subscription
  phase,     \* how far its start() or stop() is, likewise
  registered,\* the subscriptions with _registered_filters
  entry,     \* SessionState.subscriptions: the owner of each filter's entry
  silenced,  \* the filters whose entry is detached
  kept,      \* _detached_filters: the owner of each entry kept
  guard,     \* _SubscriptionGuards: per filter the holder and the waiters behind it
  broker,    \* the filters of the broker's session
  leftover,  \* history: those given up without the broker agreeing
  signal,    \* _subscription_failure has a result
  consumer   \* a get_message() on each subscription

link == <<conns, alive, died>>
table == <<entry, silenced, kept, guard, broker, leftover>>
holders == <<subs, starts, sub, phase, registered>>
loop == <<rl, cause, attempts, callbacks, todo, restore>>
vars == <<enabled, loop, link, holders, table, signal, consumer>>

\* There is room for one more connection, or for a subscription that is started again.
MayGoOn == conns + Cardinality({s \in Subs : starts[s] > 1}) < MaxConnections

HasProtocol == conns > 0 /\ rl # "off"
Free(f) == guard[f] = << >>
Answerable == {"sent", "resent"}
Holds(f, op) == ~Free(f) /\ Head(guard[f]) = op
Joined(f, op) == [guard EXCEPT ![f] = Append(@, op)]
Left(f, op) == [guard EXCEPT ![f] = RemoveFirst(@, op)]
\* _subscriptions.remove(): the first of them, start() may have listed it twice.
Without(s) == RemoveFirst(subs, s)

Init ==
  /\ enabled \in BOOLEAN
  /\ rl = "initial" /\ cause = "none" /\ attempts = 0 /\ callbacks = 0
  /\ todo = << >> /\ restore = "none"
  /\ conns = 0 /\ alive = FALSE /\ died = "none"
  /\ subs = << >> /\ starts = [s \in Subs |-> 0]
  /\ sub = [s \in Subs |-> "new"]
  /\ phase = [s \in Subs |-> "none"]
  /\ registered = {}
  /\ entry = [f \in Filters |-> None]
  /\ silenced = {}
  /\ kept = [f \in Filters |-> None]
  /\ guard = [f \in Filters |-> << >>]
  /\ broker = Inherited /\ leftover = Inherited
  /\ signal = FALSE
  /\ consumer = [s \in Subs |-> "idle"]

-----------------------------------------------------------------------------
(* What subscribe() and unsubscribe() do once they hold the guard.         *)

\* _subscribe(): an entry that exists is left alone, SUBSCRIBE is sent anyway.
SendSubscribe(s) ==
  entry' = [entry EXCEPT ![FilterOf[s]] = IF @ = None THEN s ELSE @]

SentAs(s) == IF entry[FilterOf[s]] = None THEN "sent" ELSE "resent"

\* A SUBSCRIBE that is rejected, or fails with the connection, takes its entry back.
DropEntry(s, step) ==
  entry' = [entry EXCEPT ![FilterOf[s]] = IF step = "sent" THEN None ELSE @]

\* _do_subscribe(): _registered_filters is what the SUBSCRIBE made entries for.
RegisteredBy(s, step) ==
  IF step = "sent" THEN registered \union {s} ELSE registered \ {s}

\* _unsubscribe(): the entry goes, whoever owns it by now.
SendUnsubscribe(s) ==
  LET f == FilterOf[s] IN
  /\ entry' = [entry EXCEPT ![f] = None]
  /\ silenced' = silenced \ {f}

\* The filters of a SUBSCRIBE or UNSUBSCRIBE that waits for its answer.
Unanswered ==
  {FilterOf[s] : s \in {t \in Subs : phase[t] \in Answerable}}
    \union (IF restore \in Answerable THEN {FilterOf[Head(todo)]} ELSE {})

-----------------------------------------------------------------------------
(* connect() and the run loop                                              *)

Connecting == rl \in {"initial", "backoff"}

\* The operations on the dead protocol have failed before a new one is connected.
Settled == \A s \in Subs : phase[s] = "none"

\* Mutant: the done callback does not set the failure signal.
FailSilently(why) ==
  /\ rl' = "ended" /\ cause' = why
  /\ alive' = FALSE
  /\ signal' = signal
  /\ todo' = << >> /\ restore' = "none" /\ attempts' = 0
  /\ UNCHANGED callbacks

\* The run loop ends with an exception: run() of the protocol is cancelled, and
\* _notify_subscription_failure() wakes the consumers.
Fail(why) ==
  /\ rl' = "ended" /\ cause' = why
  /\ alive' = FALSE
  /\ signal' = TRUE
  /\ todo' = << >> /\ restore' = "none" /\ attempts' = 0
  /\ UNCHANGED callbacks

\* _notify_connection_recovery_failed() is awaited before the exception is raised.
Report(why) ==
  /\ rl' = "callback" /\ cause' = why
  /\ callbacks' = callbacks + 1
  /\ todo' = << >> /\ restore' = "none" /\ attempts' = 0
  /\ UNCHANGED <<alive, signal>>

CallbackReturns ==
  /\ rl = "callback"
  /\ Fail(cause)
  /\ UNCHANGED <<conns, died, holders, table, consumer, enabled>>

\* connect() raises: there never was a run loop.
ConnectFails(why) ==
  /\ rl' = "ended" /\ cause' = why /\ attempts' = 0
  /\ UNCHANGED <<callbacks, todo, restore, alive, signal>>

\* Mutant: the detached entries are not restored.
AttemptForgets ==
  /\ Connecting /\ MayGoOn /\ Settled
  /\ conns' = conns + 1 /\ alive' = TRUE /\ died' = "none"
  /\ rl' = "start" /\ attempts' = 0
  /\ entry' = [f \in Filters |-> None]
  /\ silenced' = {}
  /\ \/ UNCHANGED <<broker, leftover>>
     \/ broker' = {} /\ leftover' = {}
  /\ guard' = [f \in Filters |-> << >>]
  /\ UNCHANGED <<cause, callbacks, todo, restore, holders, kept, signal, consumer, enabled>>

\* _connect(): a new protocol, with the entries that were detached.  The broker resumes
\* the session, or has none: a clean start, or one that has expired.
Attempt ==
  /\ Connecting /\ MayGoOn /\ Settled
  /\ conns' = conns + 1 /\ alive' = TRUE /\ died' = "none"
  /\ rl' = "start" /\ attempts' = 0
  /\ entry' = kept
  /\ silenced' = {f \in Filters : kept[f] # None}
  /\ \/ UNCHANGED <<broker, leftover>>
     \/ broker' = {} /\ leftover' = {}
  /\ guard' = [f \in Filters |-> << >>]
  /\ UNCHANGED <<cause, callbacks, todo, restore, holders, kept, signal, consumer, enabled>>

\* OSError or MQTTTimeoutError is retried up to max_attempts.
AttemptFails ==
  /\ Connecting
  /\ IF enabled /\ attempts + 1 < MaxAttempts
     THEN /\ attempts' = attempts + 1
          /\ UNCHANGED <<rl, cause, callbacks, todo, restore, alive, signal>>
     ELSE IF rl = "initial" THEN ConnectFails("exhausted") ELSE Report("exhausted")
  /\ UNCHANGED <<conns, died, holders, table, consumer, enabled>>

\* Mutant: MQTTConnectError of a reconnection skips the callback.
RefusedUnreported ==
  /\ Connecting
  /\ IF rl = "initial" THEN ConnectFails("refused") ELSE Fail("refused")
  /\ UNCHANGED <<conns, died, holders, table, consumer, enabled>>

\* MQTTConnectError is not.
AttemptRefused ==
  /\ Connecting
  /\ IF rl = "initial" THEN ConnectFails("refused") ELSE Report("refused")
  /\ UNCHANGED <<conns, died, holders, table, consumer, enabled>>

\* The connection closes, or a wrong packet comes, before CONNACK: neither
\* MQTTDisconnectedError nor MQTTProtocolError is among what is caught.
AttemptDropped ==
  /\ Connecting
  /\ IF rl = "initial" THEN ConnectFails("dropped") ELSE Fail("dropped")
  /\ UNCHANGED <<conns, died, holders, table, consumer, enabled>>

\* run() of the protocol ends: the connection is lost, a ping times out, or the
\* broker violates the protocol.  It may or may not have handled what it did not answer.
Die ==
  /\ alive /\ rl # "start"
  /\ alive' = FALSE
  /\ died' \in {"lost", "protocol"}
  /\ broker' \in {B \in SUBSET Filters : B \ Unanswered = broker \ Unanswered}
  /\ leftover' = leftover \union Unanswered
  /\ UNCHANGED <<loop, conns, holders, entry, silenced, kept, guard, signal, consumer, enabled>>

\* started_event is set.
Started ==
  /\ rl = "start"
  /\ rl' = "restore"
  /\ UNCHANGED <<cause, attempts, callbacks, todo, restore, link, holders, table, signal,
                 consumer, enabled>>

\* Mutant: _reconnect() does not look at _detached.
RestoreDetached ==
  LET s == Head(todo)
      f == FilterOf[s] IN
  /\ rl = "restore" /\ todo # << >> /\ restore = "none"
  /\ IF FALSE
     THEN todo' = Tail(todo) /\ UNCHANGED <<restore, entry, guard>>
     ELSE /\ alive
          /\ guard' = Joined(f, <<"loop", s>>)
          /\ IF Free(f)
             THEN restore' = SentAs(s) /\ SendSubscribe(s)
             ELSE restore' = "queued" /\ UNCHANGED entry
          /\ UNCHANGED todo
  /\ UNCHANGED <<rl, cause, attempts, callbacks, link, holders, silenced, kept, broker, leftover,
                 signal, consumer, enabled>>

\* sub._reconnect() of the next subscription; a detached one is passed over.
RestoreNext ==
  LET s == Head(todo)
      f == FilterOf[s] IN
  /\ rl = "restore" /\ todo # << >> /\ restore = "none"
  /\ IF sub[s] = "detached"
     THEN todo' = Tail(todo) /\ UNCHANGED <<restore, entry, guard>>
     ELSE /\ alive
          /\ guard' = Joined(f, <<"loop", s>>)
          /\ IF Free(f)
             THEN restore' = SentAs(s) /\ SendSubscribe(s)
             ELSE restore' = "queued" /\ UNCHANGED entry
          /\ UNCHANGED todo
  /\ UNCHANGED <<rl, cause, attempts, callbacks, link, holders, silenced, kept, broker, leftover,
                 signal, consumer, enabled>>

RestoreSends ==
  LET s == Head(todo) IN
  /\ alive /\ restore = "queued" /\ Holds(FilterOf[s], <<"loop", s>>)
  /\ restore' = SentAs(s) /\ SendSubscribe(s)
  /\ UNCHANGED <<rl, cause, attempts, callbacks, todo, link, holders, silenced, kept, guard,
                 broker, leftover, signal, consumer, enabled>>

\* SUBACK; the subscription may have been given up since the loop looked.
RestoreAcked ==
  LET s == Head(todo)
      f == FilterOf[s] IN
  /\ alive /\ restore \in Answerable
  /\ registered' = RegisteredBy(s, restore)
  /\ todo' = Tail(todo) /\ restore' = "none"
  /\ guard' = Left(f, <<"loop", s>>)
  /\ broker' = broker \union {f}
  /\ leftover' = IF Contains(subs, s) /\ sub[s] # "detached" THEN leftover \ {f}
                 ELSE leftover \union {f}
  /\ UNCHANGED <<rl, cause, attempts, callbacks, link, subs, starts, sub, phase, entry, silenced,
                 kept, signal, consumer, enabled>>

\* A rejected filter raises MQTTSubscribeError, which nothing catches.
RestoreRejected ==
  LET s == Head(todo) IN
  /\ alive /\ restore \in Answerable
  /\ DropEntry(s, restore)
  /\ Fail("rejected")
  /\ UNCHANGED <<conns, died, holders, silenced, kept, guard, broker, leftover, consumer, enabled>>

RestoreEnds ==
  /\ rl = "restore" /\ todo = << >>
  /\ rl' = "run"
  /\ UNCHANGED <<cause, attempts, callbacks, todo, restore, link, holders, table, signal,
                 consumer, enabled>>

\* Mutant: a loss in the middle of restoring leaves only the rest to restore.
LoopKeepsRest ==
  /\ ~alive
  /\ rl = "run" \/ (rl = "restore" /\ todo # << >>
                   /\ (restore # "none" \/ sub[Head(todo)] # "detached"))
  /\ IF restore # "none" THEN DropEntry(Head(todo), restore) ELSE UNCHANGED entry
  /\ IF rl = "run" /\ died = "protocol" THEN Fail("protocol")
     ELSE IF ~enabled THEN Report("lost")
     ELSE /\ rl' = "backoff"
          /\ todo' = (IF rl = "restore" THEN todo ELSE subs) /\ restore' = "none"
          /\ UNCHANGED <<attempts, cause, callbacks, alive, signal>>
  /\ UNCHANGED <<conns, died, holders, silenced, kept, guard, broker, leftover, consumer, enabled>>

\* Mutant: a SUBACK that the dead connection owes is waited for.
LoopBlind ==
  /\ ~alive
  /\ rl = "run" \/ (rl = "restore" /\ todo # << >>
                   /\ (restore = "none" /\ sub[Head(todo)] # "detached"))
  /\ IF restore # "none" THEN DropEntry(Head(todo), restore) ELSE UNCHANGED entry
  /\ IF rl = "run" /\ died = "protocol" THEN Fail("protocol")
     ELSE IF ~enabled THEN Report("lost")
     ELSE /\ rl' = "backoff"
          /\ todo' = subs /\ restore' = "none"
          /\ UNCHANGED <<attempts, cause, callbacks, alive, signal>>
  /\ UNCHANGED <<conns, died, holders, silenced, kept, guard, broker, leftover, consumer, enabled>>

\* The run loop resumes with the exception of the dead protocol: what restoring
\* raises is always MQTTDisconnectedError, what run() raises is its own.  A
\* lost connection is reported or reconnected, after a look at who is subscribed.
LoopSeesDeath ==
  /\ ~alive
  /\ rl = "run" \/ (rl = "restore" /\ todo # << >>
                   /\ (restore # "none" \/ sub[Head(todo)] # "detached"))
  /\ IF restore # "none" THEN DropEntry(Head(todo), restore) ELSE UNCHANGED entry
  /\ IF rl = "run" /\ died = "protocol" THEN Fail("protocol")
     ELSE IF ~enabled THEN Report("lost")
     ELSE /\ rl' = "backoff"
          /\ todo' = subs /\ restore' = "none"
          /\ UNCHANGED <<attempts, cause, callbacks, alive, signal>>
  /\ UNCHANGED <<conns, died, holders, silenced, kept, guard, broker, leftover, consumer, enabled>>

\* disconnect(): the run loop is cancelled, which is no failure, and the protocol
\* closed and dropped; that is the end of the model's application.
Exit ==
  /\ HasProtocol
  /\ rl' = "off" /\ alive' = FALSE /\ died' = "none"
  /\ todo' = << >> /\ restore' = "none" /\ attempts' = 0
  /\ entry' = [f \in Filters |-> None] /\ kept' = entry' /\ silenced' = {}
  /\ broker' = {} /\ leftover' = {}
  /\ guard' = [f \in Filters |-> << >>]
  /\ UNCHANGED <<cause, callbacks, conns, holders, signal, consumer, enabled>>

-----------------------------------------------------------------------------
(* Subscription                                                            *)

App(s) == <<"app", s>>
Subscription == <<loop, link, kept, signal, consumer, enabled>>

\* start(), again too, if the subscription is not detached: it is listed with the
\* client before anything can fail.
Start(s) ==
  LET f == FilterOf[s] IN
  /\ sub[s] \in {"new", "failed", "stopped", "cancelled"} /\ HasProtocol
  /\ starts[s] < MaxStarts[s] /\ (starts[s] > 0 => MayGoOn)
  /\ starts' = [starts EXCEPT ![s] = @ + 1]
  /\ subs' = Append(subs, s)
  /\ IF ~alive
     THEN sub' = [sub EXCEPT ![s] = "failed"] /\ UNCHANGED <<phase, guard, entry>>
     ELSE /\ sub' = [sub EXCEPT ![s] = "starting"]
          /\ guard' = Joined(f, App(s))
          /\ IF Free(f)
             THEN phase' = [phase EXCEPT ![s] = SentAs(s)] /\ SendSubscribe(s)
             ELSE phase' = [phase EXCEPT ![s] = "queued"] /\ UNCHANGED entry
  /\ UNCHANGED <<Subscription, registered, silenced, broker, leftover>>

StartSends(s) ==
  /\ alive /\ sub[s] = "starting" /\ phase[s] = "queued" /\ Holds(FilterOf[s], App(s))
  /\ phase' = [phase EXCEPT ![s] = SentAs(s)] /\ SendSubscribe(s)
  /\ UNCHANGED <<Subscription, subs, starts, sub, registered, silenced, guard, broker, leftover>>

\* SUBACK, read by the protocol's read loop.
StartAcked(s) ==
  /\ alive /\ rl # "start" /\ sub[s] = "starting" /\ phase[s] \in Answerable
  /\ phase' = [phase EXCEPT ![s] = "none"]
  /\ guard' = Left(FilterOf[s], App(s))
  /\ \/ /\ sub' = [sub EXCEPT ![s] = "active"]
        /\ registered' = RegisteredBy(s, phase[s])
        /\ broker' = broker \union {FilterOf[s]} /\ leftover' = leftover \ {FilterOf[s]}
        /\ UNCHANGED entry
     \/ /\ sub' = [sub EXCEPT ![s] = "failed"]
        /\ DropEntry(s, phase[s])
        /\ UNCHANGED <<registered, broker, leftover>>
  /\ UNCHANGED <<Subscription, subs, starts, silenced>>

StartFails(s) ==
  /\ ~alive /\ sub[s] = "starting"
  /\ phase' = [phase EXCEPT ![s] = "none"]
  /\ sub' = [sub EXCEPT ![s] = "failed"]
  /\ DropEntry(s, phase[s])
  /\ UNCHANGED <<Subscription, subs, starts, registered, silenced, guard, broker, leftover>>

\* stop(): without a live connection there is nothing to send.
Stop(s) ==
  LET f == FilterOf[s] IN
  /\ sub[s] \in {"active", "failed"} /\ rl # "off" /\ Contains(subs, s)
  /\ subs' = Without(s)
  /\ IF ~alive \/ s \notin registered
     THEN /\ sub' = [sub EXCEPT ![s] = "stopped"]
          /\ leftover' = leftover \union {f}
          /\ UNCHANGED <<phase, guard, entry, silenced>>
     ELSE /\ sub' = [sub EXCEPT ![s] = "stopping"]
          /\ guard' = Joined(f, App(s))
          /\ IF Free(f)
             THEN phase' = [phase EXCEPT ![s] = "sent"] /\ SendUnsubscribe(s)
             ELSE phase' = [phase EXCEPT ![s] = "queued"] /\ UNCHANGED <<entry, silenced>>
          /\ UNCHANGED leftover
  /\ UNCHANGED <<Subscription, starts, registered, broker>>

StopSends(s) ==
  /\ alive /\ sub[s] = "stopping" /\ phase[s] = "queued" /\ Holds(FilterOf[s], App(s))
  /\ phase' = [phase EXCEPT ![s] = "sent"] /\ SendUnsubscribe(s)
  /\ UNCHANGED <<Subscription, subs, starts, sub, registered, guard, broker, leftover>>

\* UNSUBACK; its refusal of the filter, and the end of the connection, are only logged.
StopEnds(s) ==
  /\ sub[s] = "stopping"
  /\ alive => rl # "start" /\ phase[s] = "sent"
  /\ \/ /\ alive
        /\ broker' = broker \ {FilterOf[s]} /\ leftover' = leftover \ {FilterOf[s]}
     \/ leftover' = leftover \union {FilterOf[s]} /\ UNCHANGED broker
  /\ phase' = [phase EXCEPT ![s] = "none"]
  /\ sub' = [sub EXCEPT ![s] = "stopped"]
  /\ guard' = Left(FilterOf[s], App(s))
  /\ UNCHANGED <<Subscription, subs, starts, registered, entry, silenced>>

\* The body of `async with' was cancelled: no UNSUBSCRIBE.
StopCancelled(s) ==
  /\ sub[s] = "active" /\ rl # "off"
  /\ subs' = Without(s)
  /\ sub' = [sub EXCEPT ![s] = "cancelled"]
  /\ leftover' = leftover \union {FilterOf[s]}
  /\ UNCHANGED <<Subscription, starts, phase, registered, entry, silenced, guard, broker>>

\* detach(): the entry of the current protocol, dead or not, is silenced and kept.
Detach(s) ==
  LET f == FilterOf[s] IN
  /\ sub[s] = "active" /\ rl # "off"
  /\ subs' = Without(s)
  /\ sub' = [sub EXCEPT ![s] = "detached"]
  /\ IF s \in registered /\ entry[f] # None
     THEN /\ silenced' = silenced \union {f} /\ kept' = [kept EXCEPT ![f] = entry[f]]
          /\ UNCHANGED leftover
     ELSE leftover' = leftover \union {f} /\ UNCHANGED <<silenced, kept>>
  /\ UNCHANGED <<loop, link, starts, phase, registered, entry, guard, broker, signal, consumer,
                 enabled>>

\* get_message() on an empty queue waits for a message or the failure signal.
Wait(s) ==
  /\ s \in Consumers /\ sub[s] = "active" /\ rl # "off" /\ consumer[s] = "idle"
  /\ consumer' = [consumer EXCEPT ![s] = IF signal THEN "raised" ELSE "waiting"]
  /\ UNCHANGED <<loop, link, holders, table, signal, enabled>>

Wake(s) ==
  /\ consumer[s] = "waiting" /\ signal
  /\ consumer' = [consumer EXCEPT ![s] = "raised"]
  /\ UNCHANGED <<loop, link, holders, table, signal, enabled>>

-----------------------------------------------------------------------------
Connect == Attempt \/ AttemptFails \/ AttemptRefused \/ AttemptDropped

RunLoop ==
  \/ Started \/ RestoreNext \/ RestoreSends \/ RestoreAcked \/ RestoreRejected \/ RestoreEnds
  \/ LoopSeesDeath \/ CallbackReturns

Next ==
  \/ Attempt \/ AttemptFails \/ AttemptRefused \/ AttemptDropped
  \/ Die \/ Started
  \/ RestoreNext \/ RestoreSends \/ RestoreAcked \/ RestoreRejected \/ RestoreEnds
  \/ LoopSeesDeath \/ CallbackReturns
  \/ Exit
  \/ \E s \in Subs : Start(s)
  \/ \E s \in Subs : StartSends(s)
  \/ \E s \in Subs : StartAcked(s)
  \/ \E s \in Subs : StartFails(s)
  \/ \E s \in Subs : Stop(s)
  \/ \E s \in Subs : StopSends(s)
  \/ \E s \in Subs : StopEnds(s)
  \/ \E s \in Subs : StopCancelled(s)
  \/ \E s \in Subs : Detach(s)
  \/ \E s \in Subs : Wait(s)
  \/ \E s \in Subs : Wake(s)

Operation(s) == StartSends(s) \/ StartAcked(s) \/ StartFails(s) \/ StopSends(s) \/ StopEnds(s)

\* The tasks run, every attempt to connect ends in some way because of its
\* timeout, and the broker answers unless the connection is lost.
Fairness ==
  /\ WF_vars(Connect) /\ WF_vars(RunLoop)
  /\ \A s \in Subs : WF_vars(Operation(s))
  /\ \A s \in Consumers : WF_vars(Wake(s))

Spec == Init /\ [][Next]_vars /\ Fairness

-----------------------------------------------------------------------------
(* Properties                                                              *)

\* A subscription survives reconnections: whenever the run loop waits on a live
\* connection, each started subscription that was neither stopped nor detached
\* has its entry, and the broker its filter, however often the connection was
\* lost, also in the middle of restoring, and whatever was started meanwhile; if
\* it was started only once, its stop() also knows what to unsubscribe.
ActiveIsSubscribed ==
  (rl = "run" /\ alive) =>
    \A s \in Subs : sub[s] = "active" =>
      /\ entry[FilterOf[s]] = s /\ FilterOf[s] \in broker
      /\ starts[s] = 1 => s \in registered

\* The broker sends nothing that nobody owns: while the run loop waits on a live
\* connection, each filter of the broker's session, resumed or new, has an entry or a
\* stop() that is unsubscribing it.  The exceptions are what was given up without the
\* broker agreeing: a filter of an earlier client, a request that the connection cut off,
\* an UNSUBSCRIBE that was refused or, without a connection, not registered or cancelled,
\* not sent, a detach() that found no entry, and what stop() did not keep from being restored.
NoOrphanFilter ==
  (rl = "run" /\ alive) =>
    \A f \in broker \ leftover :
      entry[f] # None \/ \E s \in Subs : FilterOf[s] = f /\ sub[s] = "stopping"

\* A detached subscription gets no live entry back: not from the restoring of
\* subscriptions that is under way, not on a later connection.
DetachedStaysSilent ==
  \A s \in Subs :
    (alive /\ sub[s] = "detached" /\ starts[s] = 1 /\ entry[FilterOf[s]] = s)
      => FilterOf[s] \in silenced

\* on_connection_recovery_failed is awaited at most once, never for the first connection
\* or a client that only disconnects, before the consumers learn of the failure, and has
\* been when the loop ended with a lost connection it does not reconnect, with its
\* attempts exhausted, or with a reconnection that the broker refused.
RecoveryReported ==
  /\ callbacks <= 1
  /\ conns = 0 \/ cause = "none" => callbacks = 0
  /\ rl = "callback" => ~signal
  /\ rl = "ended" /\ conns > 0 /\ cause \in {"lost", "exhausted", "refused"} => callbacks = 1

\* An outage ends: the client is back with everything restored, has ended with an
\* error, or was disconnected; neither back-off nor restoring goes on for ever.
OutageEnds == (rl = "backoff") ~> (rl \in {"run", "ended", "off"} \/ ~MayGoOn)

\* A consumer in get_message() does not outlive the run loop: if that fails, for
\* whatever reason, the consumer gets the exception.
ConsumersWoken ==
  \A s \in Consumers : (consumer[s] = "waiting" /\ rl = "ended") ~> (consumer[s] = "raised")

\* client.py, stop(): "Unsubscribe from all filters and stop message delivery."
StoppedStaysStopped ==
  \A s \in Subs : (alive /\ sub[s] = "stopped" /\ s \in registered) => entry[FilterOf[s]] # s

\* docs/advanced/reconnection.md: the callback "is awaited exactly once after a
\* previously established connection cannot be restored".
LossIsReported == (rl = "ended" /\ conns > 0 /\ cause = "dropped") => callbacks = 1

=============================================================================
