---------------------------- MODULE RequestResponse ----------------------------
(***************************************************************************)
(* client.request() over _RequestDispatcher (request_response.py): bounded *)
(* registration of response waiters, the response-topic interests they     *)
(* share, claiming and delivering a response, and cleanup; with the        *)
(* response observers and subscription guards of MQTTProtocol, which share *)
(* a topic with an application subscription, and with the run loop that    *)
(* binds and restores the dispatcher on every connection.                  *)
(*                                                                         *)
(* An action is what one task does between two suspensions.  Each request  *)
(* is one call of request(): it registers once, so its name also names the *)
(* _TopicInterest it may create, and the interest names the one readiness  *)
(* task it has on a connection.                                            *)
(***************************************************************************)
EXTENDS Integers, FiniteSets, SequencesExt

CONSTANTS
  Requests,       \* the calls of request()
  TopicOf,        \* the response topic of each
  CorrOf,         \* and its correlation data
  MaxPending,     \* max_pending_requests
  Cancellable,    \* the calls whose task may be cancelled
  AppTopics,      \* the response topics the application subscribes to as well
  Disconnects,    \* whether the application calls disconnect()
  MaxConnections, \* bound on the connections of a behaviour
  None            \* no request, no interest

Topics == {TopicOf[r] : r \in Requests}
Key(r) == <<TopicOf[r], CorrOf[r]>>
Keys == {Key(r) : r \in Requests}

ASSUME RequestAssumption ==
  /\ None \notin Requests
  /\ Cancellable \subseteq Requests /\ AppTopics \subseteq Topics /\ Disconnects \in BOOLEAN
  /\ MaxPending \in Nat \ {0} /\ MaxConnections \in Nat \ {0}

VARIABLES
  pc,        \* where each call of request() is suspended
  joined,    \* the interest its registration or cleanup waits on
  capacity, waiters,   \* _capacity: the semaphore's value and its FIFO
  pending,   \* _pending
  future, claimed,     \* of each _PendingRequest
  claims,    \* _ClaimedResponse objects not delivered yet: request and generation
  topics,    \* _topics: the interest of each topic
  refcount,  \* of each _TopicInterest
  generation,          \* _generation
  bound,     \* _protocol is not None
  task,      \* _TopicInterest.ready: the add_response_observer() task, "none" for None
  conn, alive,         \* the number of the newest connection; its protocol is not dead
  guard,     \* _SubscriptionGuards: per topic the holder and the waiters behind it
  observers, \* SubscriptionIndex._response_observers
  app,       \* the application's Subscription on each topic
  broker,    \* the topics subscribed once the broker has read what was sent
  loop,      \* where _run_loop is
  toRestore, restoring,\* restore(): the rest of its snapshot, and the task it awaits
  exiting    \* disconnect() has run cancel_pending() and not closed the connection yet

caller == <<pc, joined>>
sem == <<capacity, waiters>>
waits == <<pending, future, claimed>>
interests == <<topics, refcount>>
proto == <<task, guard, observers, app, broker>>
life == <<generation, bound, conn, alive, loop, toRestore, restoring, exiting>>
vars == <<caller, sem, waits, claims, interests, proto, life>>

Running(i) == task[i] \in {"queued", "suback"}
HasEntry(t) == app[t] \in {"subscribing", "resubscribing", "owned", "leaving"}

Init ==
  /\ pc = [r \in Requests |-> "idle"]
  /\ joined = [r \in Requests |-> None]
  /\ capacity = MaxPending /\ waiters = << >>
  /\ pending = [k \in Keys |-> None]
  /\ future = [r \in Requests |-> "none"]
  /\ claimed = [r \in Requests |-> FALSE]
  /\ claims = {}
  /\ topics = [t \in Topics |-> None]
  /\ refcount = [r \in Requests |-> 0]
  /\ generation = 1 /\ bound = TRUE /\ conn = 1 /\ alive = TRUE
  /\ task = [i \in Requests |-> "none"]
  /\ guard = [t \in Topics |-> << >>]
  /\ observers = {}
  /\ app = [t \in Topics |-> "none"]
  /\ broker = {}
  /\ loop = "run" /\ toRestore = {} /\ restoring = None /\ exiting = FALSE

-----------------------------------------------------------------------------
(* The semaphore and the guards.                                           *)

\* _capacity.release() by request r, which goes on to `where': the unit is
\* handed to the first waiter, or returned.
Release(r, where) ==
  LET moved == [pc EXCEPT ![r] = where] IN
  IF waiters = << >>
  THEN pc' = moved /\ capacity' = capacity + 1 /\ UNCHANGED waiters
  ELSE /\ pc' = [moved EXCEPT ![Head(waiters)] = "granted"]
       /\ waiters' = Tail(waiters)
       /\ UNCHANGED capacity

\* The same at the end of unregister().
Leave(r, where) == Release(r, where) /\ joined' = [joined EXCEPT ![r] = None]

\* hold(): the lock is FIFO, and nothing waits long for one of a dead protocol.
Queued(t, op) == IF alive THEN [guard EXCEPT ![t] = Append(@, op)] ELSE guard
Holds(t, op) == guard[t] # << >> /\ Head(guard[t]) = op
LeftBy(t, op) == [guard EXCEPT ![t] = RemoveFirst(@, op)]

\* _ensure_topic_ready(): the readiness task of an interest is created once per
\* connection, and runs add_response_observer() under the topic's guard.
EnsureTopicReady(t, i) ==
  IF task[i] # "none"
  THEN UNCHANGED <<task, guard>>
  ELSE /\ task' = [task EXCEPT ![i] = "queued"]
       /\ guard' = Queued(t, <<"add", i>>)

-----------------------------------------------------------------------------
(* unregister(), which register() and close() both end with.               *)

\* The last waiter of a topic forgets the interest and has the observer removed
\* if it was ready on a protocol that is still bound.
LetGo(r, observerActive) ==
  /\ topics' = [topics EXCEPT ![TopicOf[r]] = None]
  /\ IF observerActive /\ bound
     THEN /\ pc' = [pc EXCEPT ![r] = "removing"]
          /\ guard' = Queued(TopicOf[r], <<"remove", r>>)
          /\ UNCHANGED <<joined, sem>>
     ELSE Leave(r, "done") /\ UNCHANGED guard

\* A no-op once cancel_pending() has forgotten the request.  Nobody reads the
\* future after it, and complete() ignores what was claimed for it.
Unregister(r) ==
  LET i == topics[TopicOf[r]] IN
  IF pending[Key(r)] # r
  THEN /\ pc' = [pc EXCEPT ![r] = "done"]
       /\ future' = [future EXCEPT ![r] = "none"]
       /\ joined' = [joined EXCEPT ![r] = None]
       /\ UNCHANGED <<sem, pending, claims, topics, refcount, guard>>
  ELSE /\ pending' = [pending EXCEPT ![Key(r)] = None]
       /\ future' = [future EXCEPT ![r] = "none"]
       /\ claims' = {c \in claims : c[1] # r}
       /\ refcount' = [refcount EXCEPT ![i] = @ - 1]
       /\ IF refcount[i] > 1
          THEN Leave(r, "done") /\ UNCHANGED <<topics, guard>>
          ELSE IF Running(i)
          THEN /\ pc' = [pc EXCEPT ![r] = "unready"]
               /\ UNCHANGED <<joined, sem, topics, guard>>
          ELSE LetGo(r, task[i] = "ok")

\* request() or register() leaves its try block: the finally clause unregisters.
Ends(r) ==
  /\ Unregister(r)
  /\ UNCHANGED <<claimed, task, observers, app, broker, life>>

-----------------------------------------------------------------------------
(* request()                                                               *)

\* register() waits for capacity before anything else.
Request(r) ==
  /\ pc[r] = "idle"
  /\ IF capacity = 0 \/ waiters # << >>
     THEN /\ pc' = [pc EXCEPT ![r] = "acquire"]
          /\ waiters' = Append(waiters, r)
          /\ UNCHANGED capacity
     ELSE /\ pc' = [pc EXCEPT ![r] = "granted"]
          /\ capacity' = capacity - 1
          /\ UNCHANGED waiters
  /\ UNCHANGED <<joined, waits, claims, interests, proto, life>>

\* Its body up to the wait for the topic: a key in use and a missing protocol
\* give the unit back.
RegisterFails(r) ==
  /\ pc[r] = "granted"
  /\ pending[Key(r)] # None \/ ~bound
  /\ Release(r, "done")
  /\ UNCHANGED <<joined, waits, claims, interests, proto, life>>

Register(r) ==
  LET t == TopicOf[r]
      i == IF topics[t] = None THEN r ELSE topics[t] IN
  /\ pc[r] = "granted"
  /\ pending[Key(r)] = None /\ bound
  /\ pending' = [pending EXCEPT ![Key(r)] = r]
  /\ future' = [future EXCEPT ![r] = "waiting"]
  /\ topics' = [topics EXCEPT ![t] = i]
  /\ refcount' = [refcount EXCEPT ![i] = @ + 1]
  /\ EnsureTopicReady(t, i)
  /\ joined' = [joined EXCEPT ![r] = i]
  /\ pc' = [pc EXCEPT ![r] = "subscribing"]
  /\ UNCHANGED <<sem, claimed, claims, observers, app, broker, life>>

\* await shield(ready) returns, or raises what ended the task.
TopicReady(r) ==
  /\ pc[r] = "subscribing" /\ task[joined[r]] = "ok"
  /\ pc' = [pc EXCEPT ![r] = "publishing"]
  /\ UNCHANGED <<joined, sem, waits, claims, interests, proto, life>>

TopicNotReady(r) ==
  /\ pc[r] = "subscribing"
  /\ task[joined[r]] \in {"failed", "rejected", "cancelled"}
  /\ Ends(r)

Publish(r) ==
  /\ pc[r] = "publishing"
  /\ \/ /\ alive
        /\ pc' = [pc EXCEPT ![r] = "reply"]
        /\ UNCHANGED <<joined, sem, waits, claims, interests, proto, life>>
     \/ ~alive /\ Ends(r)

\* wait_for(pending.future): the reply, the failure of cancel_pending(), or the
\* timeout.  All three go on to close().
Reply(r) ==
  /\ pc[r] = "reply"
  /\ future[r] \in {"result", "failed"}
  /\ Ends(r)

Timeout(r) ==
  /\ pc[r] = "reply" /\ future[r] = "waiting"
  /\ Ends(r)

\* Mutant: a waiter that joined during the wait is not noticed.
UnregisterResumesBlindly(r) ==
  LET i == joined[r] IN
  /\ pc[r] = "unready" /\ ~Running(i)
  /\ LetGo(r, task[i] = "ok")
  /\ UNCHANGED <<waits, claims, refcount, task, observers, app, broker, life>>

\* Mutant: observer_active is not set after the wait.
UnregisterResumesInactive(r) ==
  LET i == joined[r] IN
  /\ pc[r] = "unready" /\ ~Running(i)
  /\ IF refcount[i] = 0 /\ topics[TopicOf[r]] = i
     THEN LetGo(r, FALSE)
     ELSE Leave(r, "done") /\ UNCHANGED <<topics, guard>>
  /\ UNCHANGED <<waits, claims, refcount, task, observers, app, broker, life>>

\* unregister() resumes when the readiness task has ended: what the topic's
\* state is by then decides.
UnregisterResumes(r) ==
  LET i == joined[r] IN
  /\ pc[r] = "unready" /\ ~Running(i)
  /\ IF refcount[i] = 0 /\ topics[TopicOf[r]] = i
     THEN LetGo(r, task[i] = "ok")
     ELSE Leave(r, "done") /\ UNCHANGED <<topics, guard>>
  /\ UNCHANGED <<waits, claims, refcount, task, observers, app, broker, life>>

\* remove_response_observer(): the broker keeps the subscription for an
\* application that owns the topic; a dead protocol has nothing to send.
RemoveObserver(r) ==
  LET t == TopicOf[r]
      op == <<"remove", r>> IN
  /\ pc[r] = "removing"
  /\ \/ /\ ~alive
        /\ Leave(r, "done")
        /\ UNCHANGED <<guard, observers, broker>>
     \/ /\ alive /\ Holds(t, op)
        /\ observers' = observers \ {t}
        /\ IF t \notin observers \/ HasEntry(t)
           THEN Leave(r, "done") /\ guard' = LeftBy(t, op) /\ UNCHANGED broker
           ELSE /\ pc' = [pc EXCEPT ![r] = "unsubscribing"]
                /\ broker' = broker \ {t}
                /\ UNCHANGED <<joined, sem, guard>>
  /\ UNCHANGED <<waits, claims, interests, task, app, life>>

\* The UNSUBACK, or the end of the connection.
ObserverRemoved(r) ==
  /\ pc[r] = "unsubscribing"
  /\ Leave(r, "done")
  /\ guard' = LeftBy(TopicOf[r], <<"remove", r>>)
  /\ UNCHANGED <<waits, claims, interests, task, observers, app, broker, life>>

-----------------------------------------------------------------------------
(* The caller's task is cancelled.                                         *)

CancelBeforeRegistering(r) ==
  /\ r \in Cancellable /\ pc[r] \in {"acquire", "granted"}
  /\ IF pc[r] = "acquire"
     THEN /\ pc' = [pc EXCEPT ![r] = "done"]
          /\ waiters' = RemoveFirst(waiters, r)
          /\ UNCHANGED capacity
     ELSE Release(r, "done")
  /\ UNCHANGED <<joined, waits, claims, interests, proto, life>>

Cancel(r) ==
  /\ r \in Cancellable /\ pc[r] \in {"subscribing", "publishing", "reply"}
  /\ Ends(r)

\* Mutant: the unit is released only at the end of a cleanup that succeeds.
CancelCleanupKeepsUnit(r) ==
  LET t == TopicOf[r]
      i == joined[r] IN
  /\ r \in Cancellable /\ pc[r] \in {"unready", "removing", "unsubscribing"}
  /\ pc' = [pc EXCEPT ![r] = "interrupted"]
  /\ joined' = [joined EXCEPT ![r] = None]
  /\ UNCHANGED sem
  /\ IF pc[r] = "unready"
     THEN /\ topics' = [topics EXCEPT ![t] = IF refcount[i] = 0 /\ @ = i THEN None ELSE @]
          /\ UNCHANGED guard
     ELSE guard' = LeftBy(t, <<"remove", r>>) /\ UNCHANGED topics
  /\ UNCHANGED <<waits, claims, refcount, task, observers, app, broker, life>>

\* Cancelled inside unregister(): the finally clauses run, nothing else does.
CancelCleanup(r) ==
  LET t == TopicOf[r]
      i == joined[r] IN
  /\ r \in Cancellable /\ pc[r] \in {"unready", "removing", "unsubscribing"}
  /\ Leave(r, "interrupted")
  /\ IF pc[r] = "unready"
     THEN /\ topics' = [topics EXCEPT ![t] = IF refcount[i] = 0 /\ @ = i THEN None ELSE @]
          /\ UNCHANGED guard
     ELSE guard' = LeftBy(t, <<"remove", r>>) /\ UNCHANGED topics
  /\ UNCHANGED <<waits, claims, refcount, task, observers, app, broker, life>>

-----------------------------------------------------------------------------
(* Responses                                                               *)

\* A PUBLISH with the key of request r reaches select_recipient().
Claim(r) ==
  /\ alive
  /\ pending[Key(r)] = r /\ ~claimed[r] /\ future[r] = "waiting"
  /\ claimed' = [claimed EXCEPT ![r] = TRUE]
  /\ claims' = claims \union {<<r, generation>>}
  /\ UNCHANGED <<caller, sem, pending, future, interests, proto, life>>

\* complete(), at once or, for QoS 2, when PUBREL comes: the request may have
\* ended, and the connection may have been replaced, by then.
Complete(r, g) ==
  /\ <<r, g>> \in claims
  /\ claims' = claims \ {<<r, g>>}
  /\ future' = IF generation = g /\ pending[Key(r)] = r /\ future[r] = "waiting"
               THEN [future EXCEPT ![r] = "result"] ELSE future
  /\ UNCHANGED <<caller, sem, pending, claimed, interests, proto, life>>

-----------------------------------------------------------------------------
(* add_response_observer()                                                 *)

AddObserver(i) ==
  LET t == TopicOf[i]
      op == <<"add", i>> IN
  /\ alive /\ task[i] = "queued" /\ Holds(t, op)
  /\ observers' = observers \union {t}
  /\ IF t \in observers \/ HasEntry(t)
     THEN task' = [task EXCEPT ![i] = "ok"] /\ guard' = LeftBy(t, op) /\ UNCHANGED broker
     ELSE task' = [task EXCEPT ![i] = "suback"] /\ broker' = broker \union {t} /\ UNCHANGED guard
  /\ UNCHANGED <<caller, sem, waits, claims, interests, app, life>>

ObserverAnswered(i) ==
  LET t == TopicOf[i] IN
  /\ alive /\ task[i] = "suback"
  /\ guard' = LeftBy(t, <<"add", i>>)
  /\ \/ task' = [task EXCEPT ![i] = "ok"] /\ UNCHANGED <<observers, broker>>
     \/ /\ task' = [task EXCEPT ![i] = "rejected"]
        /\ observers' = observers \ {t} /\ broker' = broker \ {t}
  /\ UNCHANGED <<caller, sem, waits, claims, interests, app, life>>

\* Mutant: the end of the connection does not fail the futures of SUBACKs.
ObserverWaitsOn(i) ==
  /\ task[i] = "queued" /\ ~alive
  /\ task' = [task EXCEPT ![i] = "failed"]
  /\ UNCHANGED <<caller, sem, waits, claims, interests, guard, observers, app, broker, life>>

\* _ensure_alive(), or the failed future of the SUBACK, on a dead protocol.
ObserverFails(i) ==
  /\ Running(i) /\ ~alive
  /\ task' = [task EXCEPT ![i] = "failed"]
  /\ UNCHANGED <<caller, sem, waits, claims, interests, guard, observers, app, broker, life>>

-----------------------------------------------------------------------------
(* An application subscription to a response topic, under the same guard.  *)

AppSubscribe(t) ==
  /\ alive /\ t \in AppTopics /\ app[t] = "none"
  /\ app' = [app EXCEPT ![t] = "queued"]
  /\ guard' = Queued(t, <<"app", None>>)
  /\ UNCHANGED <<caller, sem, waits, claims, interests, task, observers, broker, life>>

AppUnsubscribe(t) ==
  /\ alive /\ app[t] = "owned"
  /\ app' = [app EXCEPT ![t] = "leaving"]
  /\ guard' = Queued(t, <<"app", None>>)
  /\ UNCHANGED <<caller, sem, waits, claims, interests, task, observers, broker, life>>

\* _subscribe(): the entry is added before SUBSCRIBE is sent.
AppSends(t) ==
  /\ alive /\ Holds(t, <<"app", None>>)
  /\ app[t] \in {"queued", "requeued"}
  /\ app' = [app EXCEPT ![t] = IF @ = "queued" THEN "subscribing" ELSE "resubscribing"]
  /\ broker' = broker \union {t}
  /\ UNCHANGED <<caller, sem, waits, claims, interests, task, guard, observers, life>>

\* Mutant: every filter of the subscription is unsubscribed.
AppLeavesAll(t) ==
  /\ alive /\ Holds(t, <<"app", None>>)
  /\ app[t] = "leaving"
  /\ app' = [app EXCEPT ![t] = "unsubscribing"]
  /\ broker' = broker \ {t}
  /\ UNCHANGED <<caller, sem, waits, claims, interests, task, guard, observers, life>>

\* _unsubscribe(): a topic with an observer is subscribed again, not given up.
AppLeaves(t) ==
  /\ alive /\ Holds(t, <<"app", None>>)
  /\ app[t] = "leaving"
  /\ app' = [app EXCEPT ![t] = "unsubscribing"]
  /\ broker' = IF t \in observers THEN broker ELSE broker \ {t}
  /\ UNCHANGED <<caller, sem, waits, claims, interests, task, guard, observers, life>>

\* SUBACK or UNSUBACK.  A rejected SUBSCRIBE removes the entry.
AppAnswered(t) ==
  /\ alive /\ app[t] \in {"subscribing", "resubscribing", "unsubscribing"}
  /\ guard' = LeftBy(t, <<"app", None>>)
  /\ \/ /\ app' = [app EXCEPT ![t] = IF @ = "unsubscribing" THEN "none" ELSE "owned"]
        /\ UNCHANGED broker
     \/ /\ app[t] = "subscribing"
        /\ app' = [app EXCEPT ![t] = "none"]
        /\ broker' = IF t \in observers THEN broker ELSE broker \ {t}
  /\ UNCHANGED <<caller, sem, waits, claims, interests, task, observers, life>>

-----------------------------------------------------------------------------
(* Connections: the run loop and disconnect().                             *)

\* The protocol dies: every operation on it fails when its task runs next.  The
\* broker does not keep the session, which is what restore() is for.
Down(where) ==
  /\ alive' = FALSE
  /\ loop' = where
  /\ guard' = [t \in Topics |-> << >>]
  /\ observers' = {} /\ broker' = {}
  /\ app' = [t \in Topics |->
               IF app[t] \in {"owned", "requeued", "resubscribing"} THEN "owned" ELSE "none"]
  /\ toRestore' = {} /\ restoring' = None

\* The run loop reconnects, or gives up and ends.
ConnectionLost ==
  /\ alive
  /\ Down("down") \/ Down("ended")
  /\ UNCHANGED <<caller, sem, waits, claims, interests, task, generation, bound, conn, exiting>>

\* The delay and the round trips of a new connection outlast the few turns of
\* the event loop in which the operations on the dead protocol fail.
Settled ==
  /\ \A i \in Requests : ~Running(i)
  /\ \A r \in Requests :
       pc[r] \notin {"subscribing", "publishing", "unready", "removing", "unsubscribing"}

\* Mutant: bind() leaves the claims of the old connection.
ConnectKeepsClaims ==
  /\ ~alive /\ conn < MaxConnections /\ Settled
  /\ loop = "down" \/ (loop = "off" /\ ~exiting)
  /\ conn' = conn + 1 /\ alive' = TRUE
  /\ bound' = TRUE
  /\ generation' = generation + 1
  /\ claimed' = claimed
  /\ task' = [i \in Requests |-> "none"]
  /\ app' = [t \in Topics |-> IF app[t] = "owned" THEN "requeued" ELSE app[t]]
  /\ guard' = [t \in Topics |-> IF app[t] = "owned" THEN <<<<"app", None>>>> ELSE << >>]
  /\ loop' = "subs"
  /\ UNCHANGED <<caller, sem, pending, future, claims, topics, refcount, observers, broker,
                 toRestore, restoring, exiting>>

\* _connect() and bind(), by the run loop or by connect() after disconnect().
Connect ==
  /\ ~alive /\ conn < MaxConnections /\ Settled
  /\ loop = "down" \/ (loop = "off" /\ ~exiting)
  /\ conn' = conn + 1 /\ alive' = TRUE
  /\ bound' = TRUE
  /\ generation' = generation + 1
  /\ claimed' = [r \in Requests |-> claimed[r] /\ pending[Key(r)] # r]
  /\ task' = [i \in Requests |-> "none"]
  /\ app' = [t \in Topics |-> IF app[t] = "owned" THEN "requeued" ELSE app[t]]
  /\ guard' = [t \in Topics |-> IF app[t] = "owned" THEN <<<<"app", None>>>> ELSE << >>]
  /\ loop' = "subs"
  /\ UNCHANGED <<caller, sem, pending, future, claims, topics, refcount, observers, broker,
                 toRestore, restoring, exiting>>

\* restore() takes its snapshot once the subscriptions are restored.
RestoreTopics ==
  /\ alive /\ loop = "subs"
  /\ \A t \in Topics : app[t] \notin {"requeued", "resubscribing"}
  /\ loop' = "topics"
  /\ toRestore' = {topics[t] : t \in Topics} \ {None}
  /\ UNCHANGED <<caller, sem, waits, claims, interests, proto, generation, bound, conn, alive,
                 restoring, exiting>>

RestoreTopic(i) ==
  /\ alive /\ loop = "topics" /\ restoring = None /\ i \in toRestore
  /\ \/ /\ refcount[i] = 0
        /\ toRestore' = toRestore \ {i}
        /\ UNCHANGED <<task, guard, observers, app, broker, alive, loop, restoring>>
     \/ /\ refcount[i] > 0 /\ (task[i] # "none" \/ bound)
        /\ toRestore' = toRestore \ {i}
        /\ EnsureTopicReady(TopicOf[i], i)
        /\ restoring' = i
        /\ UNCHANGED <<observers, app, broker, alive, loop>>
     \/ /\ refcount[i] > 0 /\ task[i] = "none" /\ ~bound
        /\ Down("down")
        /\ UNCHANGED task
  /\ UNCHANGED <<caller, sem, waits, claims, topics, refcount, generation, bound, conn,
                 exiting>>

\* The awaited task ends.  A rejected filter and a cancellation end the run loop.
TopicRestored ==
  /\ alive /\ restoring # None /\ ~Running(restoring)
  /\ CASE task[restoring] = "ok" ->
            restoring' = None /\ UNCHANGED <<alive, loop, guard, observers, app, broker, toRestore>>
       [] task[restoring] = "failed" -> Down("down")
       [] OTHER -> Down("ended")
  /\ UNCHANGED <<caller, sem, waits, claims, interests, task, generation, bound, conn,
                 exiting>>

RestoreEnds ==
  /\ alive /\ loop = "topics" /\ restoring = None /\ toRestore = {}
  /\ loop' = "run"
  /\ UNCHANGED <<caller, sem, waits, claims, interests, proto, generation, bound, conn, alive,
                 toRestore, restoring, exiting>>

\* cancel_pending(), the first thing disconnect() does.
CancelPending ==
  LET gone == {r \in Requests : pending[Key(r)] = r}
      stopped == {i \in Requests : topics[TopicOf[i]] = i /\ Running(i)}
      woken == IF Cardinality(gone) < Len(waiters) THEN Cardinality(gone) ELSE Len(waiters) IN
  /\ Disconnects /\ ~exiting /\ loop # "off"
  /\ exiting' = TRUE
  /\ pending' = [k \in Keys |-> None]
  /\ topics' = [t \in Topics |-> None]
  /\ bound' = FALSE
  /\ generation' = generation + 1
  /\ future' = [r \in Requests |->
                  IF r \in gone /\ future[r] = "waiting" THEN "failed" ELSE future[r]]
  /\ capacity' = capacity + Cardinality(gone) - woken
  /\ pc' = [r \in Requests |->
              IF r \in {waiters[j] : j \in 1 .. woken} THEN "granted" ELSE pc[r]]
  /\ waiters' = SubSeq(waiters, woken + 1, Len(waiters))
  /\ task' = [i \in Requests |-> IF i \in stopped THEN "cancelled" ELSE task[i]]
  /\ guard' = [t \in Topics |-> IF topics[t] \in stopped
                                 THEN RemoveFirst(guard[t], <<"add", topics[t]>>) ELSE guard[t]]
  /\ observers' = observers \ {TopicOf[i] : i \in {j \in stopped : task[j] = "suback"}}
  /\ UNCHANGED <<joined, claimed, claims, refcount, app, broker, conn, alive,
                 loop, toRestore, restoring>>

\* Then it stops the run loop and closes the connection.
Disconnect ==
  /\ exiting
  /\ exiting' = FALSE
  /\ alive' = FALSE /\ loop' = "off"
  /\ guard' = [t \in Topics |-> << >>]
  /\ observers' = {} /\ broker' = {}
  /\ app' = [t \in Topics |-> "none"]
  /\ toRestore' = {} /\ restoring' = None
  /\ UNCHANGED <<caller, sem, waits, claims, interests, task, generation, bound, conn>>

-----------------------------------------------------------------------------
RequestStep(r) ==
  \/ RegisterFails(r) \/ Register(r)
  \/ TopicReady(r) \/ TopicNotReady(r)
  \/ Publish(r) \/ Reply(r) \/ Timeout(r)
  \/ UnregisterResumes(r) \/ RemoveObserver(r) \/ ObserverRemoved(r)

Observer(i) ==
  \/ AddObserver(i) \/ ObserverAnswered(i)
  \/ ObserverFails(i)

App(t) == AppSends(t) \/ AppLeaves(t) \/ AppAnswered(t)

RunLoop ==
  \/ RestoreTopics
  \/ \E i \in Requests : RestoreTopic(i)
  \/ TopicRestored \/ RestoreEnds

Next ==
  \/ \E r \in Requests : Request(r)
  \/ \E r \in Requests : RegisterFails(r)
  \/ \E r \in Requests : Register(r)
  \/ \E r \in Requests : TopicReady(r)
  \/ \E r \in Requests : TopicNotReady(r)
  \/ \E r \in Requests : Publish(r)
  \/ \E r \in Requests : Reply(r)
  \/ \E r \in Requests : Timeout(r)
  \/ \E r \in Requests : UnregisterResumes(r)
  \/ \E r \in Requests : RemoveObserver(r)
  \/ \E r \in Requests : ObserverRemoved(r)
  \/ \E r \in Requests : CancelBeforeRegistering(r)
  \/ \E r \in Requests : Cancel(r)
  \/ \E r \in Requests : CancelCleanup(r)
  \/ \E r \in Requests : Claim(r)
  \/ \E c \in claims : Complete(c[1], c[2])
  \/ \E i \in Requests : AddObserver(i)
  \/ \E i \in Requests : ObserverAnswered(i)
  \/ \E i \in Requests : ObserverFails(i)
  \/ \E t \in Topics : AppSubscribe(t)
  \/ \E t \in Topics : AppUnsubscribe(t)
  \/ \E t \in Topics : AppSends(t)
  \/ \E t \in Topics : AppLeaves(t)
  \/ \E t \in Topics : AppAnswered(t)
  \/ ConnectionLost \/ Connect
  \/ RestoreTopics
  \/ \E i \in Requests : RestoreTopic(i)
  \/ TopicRestored \/ RestoreEnds
  \/ CancelPending \/ Disconnect

\* The tasks of the event loop run, the broker answers what it is sent unless
\* the connection is lost, and disconnect() does not stop half-way.
Fairness ==
  /\ \A r \in Requests : WF_vars(RequestStep(r)) /\ WF_vars(Observer(r))
  /\ \A t \in Topics : WF_vars(App(t))
  /\ WF_vars(RunLoop) /\ WF_vars(Disconnect)

Spec == Init /\ [][Next]_vars /\ Fairness

-----------------------------------------------------------------------------
(* Properties                                                              *)

Waiting == {r \in Requests : pending[Key(r)] = r}
Cleaning == {r \in Requests : pc[r] \in {"unready", "removing", "unsubscribing"}}
Over == {"done", "interrupted"}

\* max_pending_requests is neither exceeded nor eroded: at every moment each
\* unit of the semaphore is free or belongs to exactly one call, however the
\* calls end: by a reply, a timeout, a cancellation at any point of their
\* cleanup, or disconnect() in the middle of it.
CapacityAccounting ==
  /\ capacity + Cardinality({r \in Requests : pc[r] = "granted"} \union Waiting \union Cleaning)
       = MaxPending
  /\ waiters # << >> => capacity = 0

\* An interest is in _topics as long as some waiter needs it and counts its
\* waiters exactly, also when one joins while the last one is waiting for the
\* SUBACK before it lets go.
InterestAccounting ==
  \A t \in Topics :
    LET users == {r \in Waiting : TopicOf[r] = t} IN
    IF topics[t] = None
    THEN users = {}
    ELSE /\ refcount[topics[t]] = Cardinality(users)
         /\ users = {} => \E r \in Cleaning : pc[r] = "unready" /\ joined[r] = topics[t]

\* While a topic counts as ready on the live connection the broker delivers it:
\* no unregistering request, no application that unsubscribes and no rejected
\* subscription of one takes the response topic away from the waiters.
ResponseTopicHeld ==
  \A t \in Topics :
    (alive /\ topics[t] # None /\ task[topics[t]] = "ok")
      => t \in observers /\ t \in broker

\* The other way round, an observer does not outlive its waiters: without an
\* interest or a task at work on it, it is left behind only by a call whose
\* cleanup was itself cancelled, and until disconnect() closes the connection.
ObserverReleased ==
  \A t \in observers :
    \/ topics[t] # None
    \/ exiting
    \/ \E j \in 1 .. Len(guard[t]) : guard[t][j][1] \in {"add", "remove"}
    \/ \E r \in Requests : TopicOf[r] = t /\ pc[r] = "interrupted"

\* A waiter that is claimed ignores every other response: so there always is
\* a response claimed on the current connection that will be delivered to it.
ClaimIsDeliverable ==
  \A r \in Waiting :
    (alive /\ claimed[r] /\ future[r] = "waiting") => <<r, generation>> \in claims

\* Every call of request() ends: no call waits for ever for a unit, a guard or
\* a topic, through lost connections and disconnect().
RequestsEnd == \A r \in Requests : (pc[r] # "idle") ~> (pc[r] \in Over)

=============================================================================
