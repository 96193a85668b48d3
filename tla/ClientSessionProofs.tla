-------------------------- MODULE ClientSessionProofs --------------------------
(***************************************************************************)
(* What the reconnecting client guarantees: the subscriptions that are     *)
(* active are subscribed again on every connection, detached ones stay     *)
(* silent, the broker has no filter that nobody owns, and a connection     *)
(* that cannot be restored is reported once.                               *)
(***************************************************************************)
EXTENDS ClientSession, QueueLemmas

-----------------------------------------------------------------------------
(* on_connection_recovery_failed                                           *)

\* The callback has not been awaited before the run loop gives up, and has been once
\* while it runs; there has been a connection as soon as there is a run loop.
ReportInv ==
  /\ conns \in Nat /\ callbacks \in Nat
  /\ rl \in {"initial", "start", "restore", "run", "backoff"} => callbacks = 0
  /\ rl \in {"start", "restore", "run", "backoff", "callback"} => conns > 0
  /\ rl = "initial" => conns = 0
  /\ restore # "none" => rl = "restore" /\ todo # << >>
  /\ rl = "callback" => callbacks = 1 /\ cause \in {"lost", "exhausted", "refused"}
  /\ signal => rl \in {"ended", "off"}
  /\ RecoveryReported

\* Every step keeps the account of the callback.
LEMMA ReportStep == ReportInv /\ [Next]_vars => ReportInv'
<1> SUFFICES ASSUME ReportInv, [Next]_vars PROVE ReportInv'
  OBVIOUS
<1> USE DEF ReportInv, RecoveryReported
<1>1. CASE Attempt
  BY <1>1 DEF Attempt, Connecting
<1>2. CASE AttemptFails
  BY <1>2 DEF AttemptFails, Connecting, ConnectFails, Report
<1>3. CASE AttemptRefused
  BY <1>3 DEF AttemptRefused, Connecting, ConnectFails, Report
<1>4. CASE AttemptDropped
  BY <1>4 DEF AttemptDropped, Connecting, ConnectFails, Fail
<1>5. CASE Started \/ RestoreEnds
  BY <1>5 DEF Started, RestoreEnds, link
<1>6. CASE RestoreRejected
  BY <1>6 DEF RestoreRejected, Fail, Answerable
<1>7. CASE LoopSeesDeath
  BY <1>7 DEF LoopSeesDeath, Fail, Report
<1>8. CASE CallbackReturns
  BY <1>8 DEF CallbackReturns, Fail
<1>9. CASE Exit
  BY <1>9 DEF Exit
<1>10. CASE UNCHANGED <<rl, cause, callbacks, conns, todo, restore, signal>>
  BY <1>10
<1>11. ASSUME NEW s \in Subs, Start(s) \/ StartSends(s) \/ StartAcked(s) \/ StartFails(s) \/ Stop(s)
                           \/ StopSends(s) \/ StopEnds(s) \/ StopCancelled(s)
       PROVE  UNCHANGED <<rl, cause, callbacks, conns, todo, restore, signal>>
  BY <1>11 DEF Start, StartSends, StartAcked, StartFails, Stop, StopSends, StopEnds, StopCancelled,
               Subscription, loop, link
<1>12. ASSUME NEW s \in Subs, Detach(s) \/ Wait(s) \/ Wake(s)
       PROVE  UNCHANGED <<rl, cause, callbacks, conns, todo, restore, signal>>
  BY <1>12 DEF Detach, Wait, Wake, loop, link
<1>13. ASSUME Die \/ UNCHANGED vars
       PROVE  UNCHANGED <<rl, cause, callbacks, conns, todo, restore, signal>>
  BY <1>13 DEF Die, vars, loop, link
<1>14. CASE RestoreNext \/ RestoreSends \/ RestoreAcked
  BY <1>14 DEF RestoreNext, RestoreSends, RestoreAcked, link
<1> QED
  BY <1>1, <1>2, <1>3, <1>4, <1>5, <1>6, <1>7, <1>8, <1>9, <1>10, <1>11, <1>12, <1>13, <1>14 DEF Next

\* on_connection_recovery_failed is awaited at most once, before the consumers are woken,
\* never for the first connection, and exactly once when the loop ends because it does not
\* reconnect, its attempts are exhausted, or the broker refuses the reconnection.
THEOREM RecoveryReportedHolds == Spec => []RecoveryReported
<1>1. Init => ReportInv
  BY DEF Init, ReportInv, RecoveryReported
<1>2. ReportInv => RecoveryReported
  BY DEF ReportInv
<1> QED
  BY <1>1, <1>2, ReportStep, PTL DEF Spec

-----------------------------------------------------------------------------
(* The tables.                                                             *)

Loop(s) == <<"loop", s>>
Operations == {"app", "loop"} \X Subs

Typed ==
  /\ todo \in Seq(Subs) /\ subs \in Seq(Subs)
  /\ restore \in {"none", "queued"} \cup Answerable
  /\ starts \in [Subs -> Nat]
  /\ sub \in [Subs -> {"new", "starting", "failed", "active", "stopping", "stopped", "cancelled",
                       "detached"}]
  /\ phase \in [Subs -> {"none", "queued"} \cup Answerable]
  /\ registered \in SUBSET Subs /\ silenced \in SUBSET Filters /\ broker \in SUBSET Filters
  /\ entry \in [Filters -> Subs \cup {None}] /\ kept \in [Filters -> Subs \cup {None}]
  /\ guard \in [Filters -> Seq(Operations)]

\* _subscriptions.remove()
LEMMA RemoveTyped ==
  ASSUME NEW S, NEW q \in Seq(S), NEW e
  PROVE  RemoveFirst(q, e) \in Seq(S)
<1> DEFINE I == {i \in 1 .. Len(q) : q[i] = e}
<1>1. CASE I = {}
  BY <1>1, RemoveFirstAbsent
<1>2. CASE I # {}
  <2>1. I \in SUBSET Nat
    OBVIOUS
  <2>2. PICK k \in I : \A j \in I : k <= j
    BY <1>2, <2>1, LeastNatural
  <2>3. k \in 1 .. Len(q) /\ q[k] = e /\ \A i \in 1 .. Len(q) : q[i] = q[k] => k <= i
    BY <2>2
  <2> QED
    BY <2>3, RemoveFirstFacts
<1> QED
  BY <1>1, <1>2

\* The queue of a guard with one operation more or less.
LEMMA GuardTyped ==
  ASSUME guard \in [Filters -> Seq(Operations)], NEW f \in Filters, NEW op \in Operations
  PROVE  /\ Joined(f, op) \in [Filters -> Seq(Operations)]
         /\ Left(f, op) \in [Filters -> Seq(Operations)]
<1>1. guard[f] \in Seq(Operations)
  OBVIOUS
<1>2. Append(guard[f], op) \in Seq(Operations) /\ RemoveFirst(guard[f], op) \in Seq(Operations)
  BY <1>1, RemoveTyped
<1> QED
  BY <1>2 DEF Joined, Left

\* The operations of a subscription and its restoring.
LEMMA OperationTypes ==
  ASSUME NEW s \in Subs
  PROVE  FilterOf[s] \in Filters /\ App(s) \in Operations /\ Loop(s) \in Operations /\ s # None
BY SessionAssumption DEF Filters, App, Loop, Operations

\* What SUBSCRIBE and UNSUBSCRIBE leave of the types.
LEMMA SendTyped ==
  ASSUME Typed, NEW s \in Subs
  PROVE  /\ SendSubscribe(s) => entry' \in [Filters -> Subs \cup {None}]
         /\ SendUnsubscribe(s) =>
              entry' \in [Filters -> Subs \cup {None}] /\ silenced' \in SUBSET Filters
         /\ \A step : DropEntry(s, step) => entry' \in [Filters -> Subs \cup {None}]
         /\ SentAs(s) \in Answerable
<1>1. FilterOf[s] \in Filters /\ entry \in [Filters -> Subs \cup {None}]
  BY OperationTypes DEF Typed
<1>2. SendSubscribe(s) => entry' \in [Filters -> Subs \cup {None}]
  BY <1>1 DEF SendSubscribe, Typed
<1>3. SendUnsubscribe(s) =>
        entry' \in [Filters -> Subs \cup {None}] /\ silenced' \in SUBSET Filters
  BY <1>1 DEF SendUnsubscribe, Typed
<1>4. ASSUME NEW step, DropEntry(s, step) PROVE entry' \in [Filters -> Subs \cup {None}]
  BY <1>1, <1>4 DEF DropEntry
<1>5. SentAs(s) \in Answerable
  BY DEF SentAs, Answerable
<1> QED
  BY <1>2, <1>3, <1>4, <1>5

\* Every step keeps the types.
LEMMA TypedStep == ReportInv /\ Typed /\ [Next]_vars => Typed'
<1> SUFFICES ASSUME ReportInv, Typed, [Next]_vars PROVE Typed'
  OBVIOUS
<1>0. todo # << >> => Head(todo) \in Subs /\ Tail(todo) \in Seq(Subs)
  BY DEF Typed
<1>h. restore # "none" => todo # << >>
  BY DEF ReportInv
<1>e. << >> \in Seq(Subs)
  OBVIOUS
<1>1. CASE Attempt
  BY <1>1 DEF Attempt, Typed, holders
<1>2. CASE AttemptFails \/ AttemptRefused \/ AttemptDropped \/ CallbackReturns \/ Die
  <2>1. /\ UNCHANGED <<subs, starts, sub, phase, registered, entry, silenced, kept, guard>>
        /\ broker' = broker \/ broker' \in SUBSET Filters
    BY <1>2 DEF AttemptFails, AttemptRefused, AttemptDropped, CallbackReturns, Die, holders, table
  <2>2. UNCHANGED <<todo, restore>> \/ (todo' = << >> /\ restore' = "none")
    BY <1>2 DEF AttemptFails, AttemptRefused, AttemptDropped, CallbackReturns, Die, ConnectFails,
                Report, Fail, loop
  <2> QED
    BY <1>e, <2>1, <2>2 DEF Typed
<1>3. CASE Started \/ RestoreEnds
  BY <1>3 DEF Started, RestoreEnds, Typed, holders, table
<1>4. CASE RestoreNext
  <2> DEFINE s == Head(todo)
             f == FilterOf[s]
  <2>1. s \in Subs /\ Tail(todo) \in Seq(Subs)
    BY <1>0, <1>4 DEF RestoreNext
  <2>2. f \in Filters /\ Joined(f, Loop(s)) \in [Filters -> Seq(Operations)]
    BY <2>1, OperationTypes, GuardTyped DEF Typed
  <2> HIDE DEF s
  <2>3. CASE sub[s] = "detached"
    BY <1>4, <2>1, <2>3 DEF RestoreNext, Typed, holders, s
  <2>4. CASE sub[s] # "detached" /\ Free(f)
    BY <1>4, <2>1, <2>2, <2>4, SendTyped DEF RestoreNext, Typed, holders, Loop, s
  <2>5. CASE sub[s] # "detached" /\ ~Free(f)
    BY <1>4, <2>1, <2>2, <2>5 DEF RestoreNext, Typed, holders, Loop, s
  <2> QED
    BY <2>3, <2>4, <2>5
<1>5. CASE RestoreSends
  <2>1. Head(todo) \in Subs
    BY <1>0, <1>h, <1>5 DEF RestoreSends
  <2> QED
    BY <1>5, <2>1, SendTyped DEF RestoreSends, Typed, holders
<1>6. CASE RestoreAcked
  <2> DEFINE s == Head(todo)
             f == FilterOf[s]
  <2>1. s \in Subs /\ Tail(todo) \in Seq(Subs)
    BY <1>0, <1>h, <1>6 DEF RestoreAcked, Answerable
  <2>2. f \in Filters /\ Left(f, Loop(s)) \in [Filters -> Seq(Operations)]
    BY <2>1, OperationTypes, GuardTyped DEF Typed
  <2> QED
    BY <1>6, <2>1, <2>2 DEF RestoreAcked, RegisteredBy, Loop, Typed
<1>7. CASE RestoreRejected
  <2>1. Head(todo) \in Subs
    BY <1>0, <1>h, <1>7 DEF RestoreRejected, Answerable
  <2> QED
    BY <1>7, <2>1, SendTyped DEF RestoreRejected, Fail, Typed, holders
<1>8. CASE LoopSeesDeath
  <2>1. entry' \in [Filters -> Subs \cup {None}]
    <3>1. CASE restore = "none"
      BY <1>8, <3>1 DEF LoopSeesDeath, Typed
    <3>2. CASE restore # "none"
      BY <1>0, <1>h, <1>8, <3>2, SendTyped DEF LoopSeesDeath
    <3> QED
      BY <3>1, <3>2
  <2>2. todo' \in Seq(Subs) /\ restore' = "none"
    BY <1>8, <1>e DEF LoopSeesDeath, Fail, Report, Typed
  <2> QED
    BY <1>8, <2>1, <2>2 DEF LoopSeesDeath, Typed, holders
<1>9. CASE Exit
  <2>1. << >> \in Seq(Subs) /\ << >> \in Seq(Operations)
    OBVIOUS
  <2> QED
    BY <1>9, <2>1 DEF Exit, Typed, holders
<1>10. ASSUME NEW s \in Subs, Start(s) PROVE Typed'
  <2>1. FilterOf[s] \in Filters /\ Joined(FilterOf[s], App(s)) \in [Filters -> Seq(Operations)]
    BY OperationTypes, GuardTyped DEF Typed
  <2>2. Append(subs, s) \in Seq(Subs)
    BY DEF Typed
  <2>3. UNCHANGED <<todo, restore, registered, silenced, kept>> /\ subs' = Append(subs, s)
    BY <1>10 DEF Start, Subscription, loop
  <2>4. starts' \in [Subs -> Nat]
    BY <1>10 DEF Start, Typed
  <2>5. CASE ~alive
    BY <1>10, <2>2, <2>3, <2>4, <2>5 DEF Start, Typed
  <2>6. CASE alive /\ Free(FilterOf[s])
    BY <1>10, <2>1, <2>2, <2>3, <2>4, <2>6, SendTyped DEF Start, Typed
  <2>7. CASE alive /\ ~Free(FilterOf[s])
    BY <1>10, <2>1, <2>2, <2>3, <2>4, <2>7 DEF Start, Typed
  <2> QED
    BY <2>5, <2>6, <2>7
<1>11. ASSUME NEW s \in Subs, StartSends(s) PROVE Typed'
  BY <1>11, SendTyped DEF StartSends, Subscription, loop, Typed
<1>12. ASSUME NEW s \in Subs, StartAcked(s) PROVE Typed'
  <2>1. FilterOf[s] \in Filters /\ Left(FilterOf[s], App(s)) \in [Filters -> Seq(Operations)]
    BY OperationTypes, GuardTyped DEF Typed
  <2>2. /\ phase' = [phase EXCEPT ![s] = "none"] /\ UNCHANGED <<todo, restore, subs, starts, silenced, kept>>
        /\ guard' = Left(FilterOf[s], App(s))
    BY <1>12 DEF StartAcked, Subscription, loop
  <2>3. sub' \in [Subs -> {"new", "starting", "failed", "active", "stopping", "stopped", "cancelled",
                            "detached"}]
    BY <1>12 DEF StartAcked, Typed
  <2>4. /\ registered' \in SUBSET Subs /\ broker' \in SUBSET Filters
        /\ entry' \in [Filters -> Subs \cup {None}]
    BY <1>12, <2>1, SendTyped DEF StartAcked, Typed, RegisteredBy
  <2> QED
    BY <2>1, <2>2, <2>3, <2>4 DEF Typed
<1>13. ASSUME NEW s \in Subs, StartFails(s) PROVE Typed'
  BY <1>13, SendTyped DEF StartFails, Subscription, loop, Typed
<1>14. ASSUME NEW s \in Subs, Stop(s) PROVE Typed'
  <2>1. FilterOf[s] \in Filters /\ Joined(FilterOf[s], App(s)) \in [Filters -> Seq(Operations)]
    BY OperationTypes, GuardTyped DEF Typed
  <2>2. subs' \in Seq(Subs)
    BY <1>14, RemoveTyped DEF Stop, Without, Typed
  <2>3. UNCHANGED <<todo, restore, starts, registered, kept>>
    BY <1>14 DEF Stop, Subscription, loop
  <2>4. CASE ~alive \/ s \notin registered
    BY <1>14, <2>2, <2>3, <2>4 DEF Stop, Typed
  <2>5. CASE ~(~alive \/ s \notin registered) /\ Free(FilterOf[s])
    BY <1>14, <2>1, <2>2, <2>3, <2>5, SendTyped DEF Stop, Typed, Answerable
  <2>6. CASE ~(~alive \/ s \notin registered) /\ ~Free(FilterOf[s])
    BY <1>14, <2>1, <2>2, <2>3, <2>6 DEF Stop, Typed
  <2> QED
    BY <2>4, <2>5, <2>6
<1>15. ASSUME NEW s \in Subs, StopSends(s) PROVE Typed'
  BY <1>15, SendTyped DEF StopSends, Subscription, loop, Typed, Answerable
<1>16. ASSUME NEW s \in Subs, StopEnds(s) PROVE Typed'
  <2>1. FilterOf[s] \in Filters /\ Left(FilterOf[s], App(s)) \in [Filters -> Seq(Operations)]
    BY OperationTypes, GuardTyped DEF Typed
  <2> QED
    BY <1>16, <2>1 DEF StopEnds, Subscription, loop, Typed
<1>17. ASSUME NEW s \in Subs, StopCancelled(s) PROVE Typed'
  <2>1. subs' \in Seq(Subs)
    BY <1>17, RemoveTyped DEF StopCancelled, Without, Typed
  <2> QED
    BY <1>17, <2>1 DEF StopCancelled, Subscription, loop, Typed
<1>18. ASSUME NEW s \in Subs, Detach(s) PROVE Typed'
  <2>1. subs' \in Seq(Subs)
    BY <1>18, RemoveTyped DEF Detach, Without, Typed
  <2>2. FilterOf[s] \in Filters /\ entry[FilterOf[s]] \in Subs \cup {None}
    BY OperationTypes DEF Typed
  <2>3. silenced' \in SUBSET Filters /\ kept' \in [Filters -> Subs \cup {None}]
    BY <1>18, <2>2 DEF Detach, Typed
  <2>4. /\ UNCHANGED <<todo, restore, starts, phase, registered, entry, guard, broker>>
        /\ sub' = [sub EXCEPT ![s] = "detached"]
    BY <1>18 DEF Detach, loop
  <2> QED
    BY <2>1, <2>3, <2>4 DEF Typed
<1>19. ASSUME NEW s \in Subs, Wait(s) \/ Wake(s) PROVE Typed'
  BY <1>19 DEF Wait, Wake, loop, holders, table, Typed
<1>20. CASE UNCHANGED vars
  BY <1>20 DEF vars, loop, holders, table, Typed
<1> QED
  BY <1>1, <1>2, <1>3, <1>4, <1>5, <1>6, <1>7, <1>8, <1>9, <1>10, <1>11, <1>12, <1>13, <1>14,
     <1>15, <1>16, <1>17, <1>18, <1>19, <1>20 DEF Next

\* The types hold from the start.
LEMMA TypedInit == Init => Typed
<1>1. << >> \in Seq(Subs) /\ << >> \in Seq(Operations)
  OBVIOUS
<1> QED
  BY <1>1, SessionAssumption DEF Init, Typed

\* Types and the accounting of recoveries hold in every reachable state.
LEMMA TypedAlways == Spec => [](ReportInv /\ Typed)
<1>1. Init => ReportInv
  BY DEF Init, ReportInv, RecoveryReported
<1> QED
  BY <1>1, TypedInit, ReportStep, TypedStep, PTL DEF Spec

-----------------------------------------------------------------------------
(* How often a subscription is listed.                                     *)

Once(q, s) == \A i, j \in 1 .. Len(q) : q[i] = s /\ q[j] = s => i = j

\* start() lists a subscription again.
LEMMA AppendListed ==
  ASSUME NEW S, NEW q \in Seq(S), NEW e \in S
  PROVE  /\ e \in ToSet(Append(q, e))
         /\ \A s : s # e => (s \in ToSet(Append(q, e)) <=> s \in ToSet(q))
         /\ \A s : s # e /\ Once(q, s) => Once(Append(q, e), s)
         /\ e \notin ToSet(q) => Once(Append(q, e), e)
<1>1. ToSet(Append(q, e)) = ToSet(q) \cup {e}
  BY AppendQueue
<1>2. /\ Len(Append(q, e)) = Len(q) + 1 /\ Len(q) \in Nat /\ Append(q, e)[Len(q) + 1] = e
      /\ \A i \in 1 .. Len(q) : Append(q, e)[i] = q[i]
  OBVIOUS
<1>3. \A s : s # e /\ Once(q, s) => Once(Append(q, e), s)
  BY <1>2 DEF Once
<1>4. e \notin ToSet(q) => \A i \in 1 .. Len(q) : q[i] # e
  BY DEF ToSet
<1>5. e \notin ToSet(q) => Once(Append(q, e), e)
  BY <1>2, <1>4 DEF Once
<1> QED
  BY <1>1, <1>3, <1>5

\* The run loop is through with the first one.
LEMMA TailListed ==
  ASSUME NEW S, NEW q \in Seq(S), q # << >>
  PROVE  /\ \A s : s # Head(q) => (s \in ToSet(Tail(q)) <=> s \in ToSet(q))
         /\ \A s : s \in ToSet(Tail(q)) => s \in ToSet(q)
         /\ \A s : Once(q, s) => Once(Tail(q), s)
         /\ Once(q, Head(q)) => Head(q) \notin ToSet(Tail(q))
<1>1. ToSet(q) = ToSet(Tail(q)) \cup {Head(q)}
  BY TailQueue
<1>2. /\ Len(Tail(q)) = Len(q) - 1 /\ Len(q) \in Nat \ {0} /\ Head(q) = q[1]
      /\ \A i \in 1 .. Len(q) - 1 : Tail(q)[i] = q[i + 1]
  OBVIOUS
<1>3. ASSUME NEW s, Once(q, s) PROVE Once(Tail(q), s)
  <2> SUFFICES ASSUME NEW i \in 1 .. Len(q) - 1, NEW j \in 1 .. Len(q) - 1,
                      Tail(q)[i] = s, Tail(q)[j] = s
               PROVE  i = j
    BY <1>2 DEF Once
  <2>1. i + 1 \in 1 .. Len(q) /\ j + 1 \in 1 .. Len(q) /\ q[i + 1] = s /\ q[j + 1] = s
    BY <1>2
  <2>2. i + 1 = j + 1
    BY <1>3, <2>1 DEF Once
  <2> QED
    BY <2>2
<1>4. ASSUME Once(q, Head(q)), Head(q) \in ToSet(Tail(q)) PROVE FALSE
  <2>1. Tail(q) \in Seq(S)
    OBVIOUS
  <2>2. PICK i \in 1 .. Len(q) - 1 : Tail(q)[i] = Head(q)
    BY <1>2, <1>4, <2>1 DEF ToSet
  <2>3. i + 1 \in 1 .. Len(q) /\ q[i + 1] = Head(q) /\ 1 \in 1 .. Len(q) /\ q[1] = Head(q)
    BY <1>2, <2>2
  <2>4. i + 1 = 1
    BY <1>4, <2>3 DEF Once
  <2> QED
    BY <2>4
<1> QED
  BY <1>1, <1>3, <1>4

\* stop() and detach() remove one.
LEMMA RemoveListed ==
  ASSUME NEW S, NEW q \in Seq(S), NEW e
  PROVE  /\ \A s : s # e => (s \in ToSet(RemoveFirst(q, e)) <=> s \in ToSet(q))
         /\ \A s : Once(q, s) => Once(RemoveFirst(q, e), s)
<1> DEFINE I == {i \in 1 .. Len(q) : q[i] = e}
           t == RemoveFirst(q, e)
<1>1. CASE I = {}
  <2>1. t = q
    BY <1>1, RemoveFirstAbsent
  <2> QED
    BY <2>1
<1>2. CASE I # {}
  <2>1. I \in SUBSET Nat
    OBVIOUS
  <2>2. PICK k \in I : \A j \in I : k <= j
    BY <1>2, <2>1, LeastNatural
  <2>3. k \in 1 .. Len(q) /\ q[k] = e /\ \A i \in 1 .. Len(q) : q[i] = q[k] => k <= i
    BY <2>2
  <2>4. /\ t \in Seq(S) /\ Len(t) = Len(q) - 1 /\ Len(q) \in Nat \ {0}
        /\ \A i \in 1 .. Len(q) - 1 : t[i] = IF i < k THEN q[i] ELSE q[i + 1]
    BY <2>3, RemoveFirstFacts
  <2> HIDE DEF t, I
  <2> DEFINE old(i) == IF i < k THEN i ELSE i + 1
  <2>5. \A i \in 1 .. Len(q) - 1 : old(i) \in 1 .. Len(q) /\ t[i] = q[old(i)]
    BY <2>3, <2>4
  <2>6. \A i, j \in 1 .. Len(q) - 1 : old(i) = old(j) => i = j
    BY <2>3
  <2>7. \A n \in 1 .. Len(q) : n # k => \E i \in 1 .. Len(q) - 1 : old(i) = n
    <3> SUFFICES ASSUME NEW n \in 1 .. Len(q), n # k PROVE \E i \in 1 .. Len(q) - 1 : old(i) = n
      OBVIOUS
    <3>1. CASE n < k
      BY <2>3, <2>4, <3>1
    <3>2. CASE n > k
      <4>1. n - 1 \in 1 .. Len(q) - 1 /\ old(n - 1) = n
        BY <2>3, <2>4, <3>2
      <4> QED
        BY <4>1
    <3> QED
      BY <2>3, <3>1, <3>2
  <2> HIDE DEF old
  <2>8. ToSet(q) = {q[i] : i \in 1 .. Len(q)} /\ ToSet(t) = {t[i] : i \in 1 .. Len(q) - 1}
    BY <2>4 DEF ToSet
  <2>9. ASSUME NEW s, s # e PROVE s \in ToSet(t) <=> s \in ToSet(q)
    BY <2>3, <2>5, <2>7, <2>8, <2>9
  <2>10. ASSUME NEW s, Once(q, s) PROVE Once(t, s)
    <3> SUFFICES ASSUME NEW i \in 1 .. Len(q) - 1, NEW j \in 1 .. Len(q) - 1, t[i] = s, t[j] = s
                 PROVE  i = j
      BY <2>4 DEF Once
    <3>1. old(i) = old(j)
      BY <2>5, <2>10 DEF Once
    <3> QED
      BY <2>6, <3>1
  <2> QED
    BY <2>9, <2>10 DEF t
<1> QED
  BY <1>1, <1>2

-----------------------------------------------------------------------------
(* The subscriptions, each with a filter of its own.                       *)

\* No two subscriptions share a filter.
DistinctFilters == \A s, t \in Subs : FilterOf[s] = FilterOf[t] => s = t

Restoring(s) == restore # "none" /\ s = Head(todo)
IsSubscribed(s) == entry[FilterOf[s]] = s /\ FilterOf[s] \in broker

\* Where the run loop is when there is a connection, and before the first one.
LoopFits ==
  /\ alive => rl \in {"start", "restore", "run"}
  /\ rl = "initial" => \A s \in Subs : sub[s] = "new"
  /\ conns > 0 => rl # "initial"
  /\ rl = "run" /\ alive => todo = << >>

\* The entries of a filter are its subscription's, and an active subscription is listed.
SubFits(s) ==
  /\ entry[FilterOf[s]] \in {None, s} /\ kept[FilterOf[s]] \in {None, s}
  /\ kept[FilterOf[s]] = s => sub[s] = "detached"
  /\ phase[s] = "none" <=> sub[s] \notin {"starting", "stopping"}
  /\ sub[s] = "new" <=> starts[s] = 0
  /\ sub[s] \in {"starting", "active"} => s \in ToSet(subs)
  /\ sub[s] = "active" /\ rl = "backoff" => s \in ToSet(todo)
  /\ starts[s] = 0 => s \notin ToSet(subs) /\ s \notin ToSet(todo) /\ entry[FilterOf[s]] = None

\* The guard of a filter has only its subscription's operations that are under way.
GuardFits(s) ==
  /\ IsInjective(guard[FilterOf[s]]) /\ ToSet(guard[FilterOf[s]]) \subseteq {App(s), Loop(s)}
  /\ App(s) \in ToSet(guard[FilterOf[s]]) => phase[s] # "none"
  /\ Loop(s) \in ToSet(guard[FilterOf[s]]) => Restoring(s)

\* An active subscription is subscribed, or the run loop still has to restore it.
EntryFits(s) ==
  /\ sub[s] = "active" => IsSubscribed(s) \/ s \in ToSet(todo)
  /\ sub[s] = "starting" /\ phase[s] \in Answerable => entry[FilterOf[s]] = s
  /\ sub[s] = "active" /\ Restoring(s) /\ restore \in Answerable => entry[FilterOf[s]] = s

\* A subscription that was started once is restored at most once on a connection, and
\* never while it is starting: what it registered stays registered.
SingleFits(s) ==
  /\ Once(subs, s) /\ Once(todo, s)
  /\ sub[s] = "active" => s \in registered
  /\ sub[s] \in {"active", "detached"} /\ Restoring(s) => restore # "queued"
  /\ alive /\ sub[s] = "starting" =>
       /\ s \notin ToSet(todo) /\ phase[s] # "resent"
       /\ phase[s] = "queued" => entry[FilterOf[s]] = None
  /\ alive /\ sub[s] = "active" /\ s \in ToSet(todo) =>
       IF Restoring(s) THEN restore = "sent" ELSE entry[FilterOf[s]] = None
  /\ alive /\ sub[s] = "detached" /\ entry[FilterOf[s]] = s => FilterOf[s] \in silenced

Fits(s) ==
  /\ SubFits(s)
  /\ alive => GuardFits(s) /\ EntryFits(s)
  /\ starts[s] = 1 => SingleFits(s)

SessionInv == ReportInv /\ Typed /\ LoopFits /\ \A s \in Subs : Fits(s)

\* A step that leaves a subscription as it is.
Untouched(s) ==
  /\ sub'[s] = sub[s] /\ phase'[s] = phase[s] /\ starts'[s] = starts[s]
  /\ s \in registered' <=> s \in registered
  /\ entry'[FilterOf[s]] = entry[FilterOf[s]] /\ kept'[FilterOf[s]] = kept[FilterOf[s]]
  /\ FilterOf[s] \in silenced' <=> FilterOf[s] \in silenced
  /\ FilterOf[s] \in broker' <=> FilterOf[s] \in broker
  /\ guard'[FilterOf[s]] = guard[FilterOf[s]]
  /\ s \in ToSet(subs') <=> s \in ToSet(subs)
  /\ s \in ToSet(todo') <=> s \in ToSet(todo)
  /\ Once(subs, s) => Once(subs', s)
  /\ Once(todo, s) => Once(todo', s)
  /\ Restoring(s)' <=> Restoring(s)
  /\ Restoring(s) => restore' = restore

\* A subscription that a step does not touch stays where its life allows it to be.
LEMMA UntouchedFits ==
  ASSUME NEW s \in Subs, Fits(s), Untouched(s), alive' => alive, rl' = "backoff" => rl = "backoff"
  PROVE  Fits(s)'
<1> USE DEF Fits, Untouched
<1>1. SubFits(s)'
  BY DEF SubFits
<1>2. alive' => GuardFits(s)'
  BY DEF GuardFits
<1>3. alive' => EntryFits(s)'
  BY DEF EntryFits, IsSubscribed
<1>4. starts'[s] = 1 => SingleFits(s)'
  BY DEF SingleFits
<1> QED
  BY <1>1, <1>2, <1>3, <1>4

\* The connection is gone, or the loop is on its way to the next one.
LEMMA StoppedFits ==
  ASSUME NEW s \in Subs, Fits(s), ~alive', UNCHANGED holders,
         entry'[FilterOf[s]] \in {None, entry[FilterOf[s]]},
         kept'[FilterOf[s]] \in {None, kept[FilterOf[s]]},
         UNCHANGED <<todo, restore>> \/ (restore' = "none" /\ todo' \in {<< >>, subs}),
         rl' = "backoff" => todo' = subs \/ (rl = "backoff" /\ UNCHANGED todo)
  PROVE  Fits(s)'
<1>0. sub' = sub /\ phase' = phase /\ starts' = starts /\ subs' = subs /\ registered' = registered
  BY DEF holders
<1>1. ToSet(<< >>) = {} /\ Once(<< >>, s)
  BY DEF ToSet, Once
<1>2. SubFits(s)'
  BY <1>0, <1>1 DEF SubFits, Fits
<1>3. starts'[s] = 1 => SingleFits(s)'
  BY <1>0, <1>1 DEF SingleFits, Fits, Restoring
<1> QED
  BY <1>2, <1>3 DEF Fits

\* An operation of the application touches its own subscription and filter.
OnlyTouches(t) ==
  /\ \A s \in Subs \ {t} :
       /\ sub'[s] = sub[s] /\ phase'[s] = phase[s] /\ starts'[s] = starts[s]
       /\ s \in registered' <=> s \in registered
  /\ \A f \in Filters \ {FilterOf[t]} :
       /\ entry'[f] = entry[f] /\ kept'[f] = kept[f] /\ guard'[f] = guard[f]
       /\ f \in silenced' <=> f \in silenced
       /\ f \in broker' <=> f \in broker

\* start(), stop() and detach() of one subscription concern no other, since filters are
\* distinct.
LEMMA OthersUntouched ==
  ASSUME SessionInv, DistinctFilters, NEW t \in Subs, OnlyTouches(t),
         subs' = subs \/ subs' = Append(subs, t) \/ subs' = RemoveFirst(subs, t),
         UNCHANGED <<todo, restore>>
  PROVE  \A s \in Subs \ {t} : Untouched(s)
<1> SUFFICES ASSUME NEW s \in Subs, s # t PROVE Untouched(s)
  OBVIOUS
<1>1. FilterOf[s] \in Filters \ {FilterOf[t]}
  BY OperationTypes DEF DistinctFilters
<1>2. (s \in ToSet(subs') <=> s \in ToSet(subs)) /\ (Once(subs, s) => Once(subs', s))
  <2>1. subs \in Seq(Subs)
    BY DEF SessionInv, Typed
  <2>2. CASE subs' = subs
    BY <2>2
  <2>3. CASE subs' = Append(subs, t)
    BY <2>1, <2>3, AppendListed
  <2>4. CASE subs' = RemoveFirst(subs, t)
    BY <2>1, <2>4, RemoveListed
  <2> QED
    BY <2>2, <2>3, <2>4
<1> QED
  BY <1>1, <1>2 DEF OnlyTouches, Untouched, Restoring

\* It is enough to look at the one that moves.
LEMMA OthersFit ==
  ASSUME SessionInv, DistinctFilters, NEW t \in Subs, OnlyTouches(t),
         subs' = subs \/ subs' = Append(subs, t) \/ subs' = RemoveFirst(subs, t),
         UNCHANGED <<todo, restore, alive, rl>>, Fits(t)'
  PROVE  \A s \in Subs : Fits(s)'
<1> SUFFICES ASSUME NEW s \in Subs, s # t PROVE Fits(s)'
  OBVIOUS
<1>1. Untouched(s)
  BY OthersUntouched
<1>2. Fits(s)
  BY DEF SessionInv
<1> QED
  BY <1>1, <1>2, UntouchedFits

\* What the invariant says of one subscription, and of the queue of its guard when an
\* operation joins or leaves it.
LEMMA GuardOf ==
  ASSUME Typed, NEW t \in Subs, GuardFits(t), NEW op \in {App(t), Loop(t)}
  PROVE  /\ Free(FilterOf[t]) <=> ToSet(guard[FilterOf[t]]) = {}
         /\ op \notin ToSet(guard[FilterOf[t]]) =>
              /\ IsInjective(Joined(FilterOf[t], op)[FilterOf[t]])
              /\ ToSet(Joined(FilterOf[t], op)[FilterOf[t]]) = ToSet(guard[FilterOf[t]]) \cup {op}
         /\ IsInjective(Left(FilterOf[t], op)[FilterOf[t]])
         /\ ToSet(Left(FilterOf[t], op)[FilterOf[t]]) = ToSet(guard[FilterOf[t]]) \ {op}
<1> DEFINE f == FilterOf[t]
<1>1. f \in Filters /\ op \in Operations /\ guard[f] \in Seq(Operations) /\ IsInjective(guard[f])
  BY OperationTypes DEF Typed, GuardFits
<1>2. Joined(f, op)[f] = Append(guard[f], op) /\ Left(f, op)[f] = RemoveFirst(guard[f], op)
  BY <1>1 DEF Joined, Left, Typed
<1>3. /\ op \notin ToSet(guard[f]) => IsInjective(Append(guard[f], op))
      /\ ToSet(Append(guard[f], op)) = ToSet(guard[f]) \cup {op}
  BY <1>1, AppendQueue
<1>4. /\ IsInjective(RemoveFirst(guard[f], op))
      /\ ToSet(RemoveFirst(guard[f], op)) = ToSet(guard[f]) \ {op}
  BY <1>1, RemoveQueue
<1>5. Free(f) <=> ToSet(guard[f]) = {}
  <2>1. ToSet(<< >>) = {}
    BY DEF ToSet
  <2>2. guard[f] # << >> => Head(guard[f]) \in ToSet(guard[f])
    BY <1>1, TailQueue
  <2> QED
    BY <2>1, <2>2 DEF Free
<1> QED
  BY <1>2, <1>3, <1>4, <1>5

\* The application's operation on a filter is not the run loop's.
LEMMA OpsDiffer == \A s, t : App(s) # Loop(t)
BY DEF App, Loop

\* start()
LEMMA StartFits ==
  ASSUME SessionInv, DistinctFilters, NEW t \in Subs, Start(t)
  PROVE  \A s \in Subs : Fits(s)'
<1> DEFINE f == FilterOf[t]
<1>1. /\ UNCHANGED <<todo, restore, alive, rl, registered, kept, silenced, broker>>
      /\ subs' = Append(subs, t)
      /\ sub[t] \in {"new", "failed", "stopped", "cancelled"}
      /\ starts' = [starts EXCEPT ![t] = @ + 1]
  BY DEF Start, Subscription, loop, link
<1>2. Typed /\ Fits(t) /\ f \in Filters /\ t # None
  BY OperationTypes DEF SessionInv
<1>3. t \in ToSet(subs') /\ (starts[t] = 0 => Once(subs', t))
  BY <1>1, <1>2, AppendListed DEF Typed, Fits, SubFits
<1>4. starts[t] \in Nat /\ starts'[t] = starts[t] + 1
  BY <1>1, <1>2 DEF Typed
<1>5. phase[t] = "none" /\ entry[f] \in {None, t} /\ kept[f] \in {None, t} /\ kept[f] # t
  BY <1>1, <1>2, SessionAssumption DEF Fits, SubFits
<1>6. starts[t] = 0 => t \notin ToSet(todo) /\ entry[f] = None
  BY <1>2 DEF Fits, SubFits
<1>7. t \notin ToSet(todo) => Once(todo, t)
  BY <1>2 DEF Once, ToSet, Typed
<1>8. CASE ~alive
  <2>1. sub' = [sub EXCEPT ![t] = "failed"] /\ UNCHANGED <<phase, guard, entry>>
    BY <1>8 DEF Start
  <2>2. sub'[t] = "failed"
    BY <1>2, <2>1 DEF Typed
  <2>3. SubFits(t)'
    BY <1>1, <1>2, <1>3, <1>4, <1>5, <2>1, <2>2 DEF SubFits
  <2>4. starts'[t] = 1 => SingleFits(t)'
    BY <1>1, <1>3, <1>4, <1>6, <1>7, <2>2 DEF SingleFits
  <2>5. Fits(t)'
    BY <1>1, <1>8, <2>3, <2>4 DEF Fits
  <2>6. OnlyTouches(t)
    BY <1>1, <1>2, <2>1 DEF OnlyTouches, Typed
  <2> QED
    BY <1>1, <2>5, <2>6, OthersFit
<1>9. CASE alive
  <2>1. /\ sub' = [sub EXCEPT ![t] = "starting"] /\ guard' = Joined(f, App(t))
        /\ \/ Free(f) /\ phase' = [phase EXCEPT ![t] = SentAs(t)] /\ SendSubscribe(t)
           \/ ~Free(f) /\ phase' = [phase EXCEPT ![t] = "queued"] /\ UNCHANGED entry
    BY <1>9 DEF Start
  <2>2. sub'[t] = "starting"
    BY <1>2, <2>1 DEF Typed
  <2>3. \/ phase'[t] = SentAs(t) /\ entry'[f] = t
        \/ phase'[t] = "queued" /\ entry'[f] = entry[f]
    BY <1>2, <1>5, <2>1 DEF SendSubscribe, Typed
  <2>4. phase'[t] # "none"
    BY <2>3 DEF SentAs
  <2>5. SubFits(t)'
    BY <1>1, <1>2, <1>3, <1>4, <1>5, <2>2, <2>3, <2>4 DEF SubFits
  <2>6. GuardFits(t)'
    <3>1. GuardFits(t) /\ App(t) \notin ToSet(guard[f])
      BY <1>2, <1>5, <1>9 DEF Fits, GuardFits
    <3>2. IsInjective(guard'[f]) /\ ToSet(guard'[f]) = ToSet(guard[f]) \cup {App(t)}
      BY <1>2, <2>1, <3>1, GuardOf
    <3> QED
      BY <1>1, <2>4, <3>1, <3>2, OpsDiffer DEF GuardFits, Restoring
  <2>7. EntryFits(t)'
    BY <2>2, <2>3 DEF EntryFits, IsSubscribed, Answerable
  <2>8. starts'[t] = 1 => SingleFits(t)'
    BY <1>1, <1>3, <1>4, <1>6, <1>7, <2>2, <2>3 DEF SingleFits, SentAs
  <2>9. Fits(t)'
    BY <2>5, <2>6, <2>7, <2>8 DEF Fits
  <2>10. OnlyTouches(t)
    BY <1>1, <1>2, <2>1 DEF OnlyTouches, Typed, Joined, SendSubscribe
  <2> QED
    BY <1>1, <2>9, <2>10, OthersFit
<1> QED
  BY <1>8, <1>9

\* start() gets the guard and sends SUBSCRIBE.
LEMMA StartSendsFits ==
  ASSUME SessionInv, DistinctFilters, NEW t \in Subs, StartSends(t)
  PROVE  \A s \in Subs : Fits(s)'
<1> DEFINE f == FilterOf[t]
<1>1. /\ UNCHANGED <<todo, restore, alive, rl, registered, kept, silenced, subs, starts, sub, guard, broker>>
      /\ alive /\ sub[t] = "starting" /\ phase[t] = "queued"
      /\ phase' = [phase EXCEPT ![t] = SentAs(t)] /\ SendSubscribe(t)
  BY DEF StartSends, Subscription, loop, link
<1>2. Typed /\ Fits(t) /\ f \in Filters /\ t # None
  BY OperationTypes DEF SessionInv
<1>3. phase'[t] = SentAs(t) /\ phase'[t] \in Answerable /\ entry'[f] = t
  BY <1>1, <1>2 DEF SendSubscribe, Typed, SentAs, Answerable, Fits, SubFits
<1>4. SubFits(t)'
  BY <1>1, <1>2, <1>3 DEF SubFits, Fits, Answerable
<1>5. GuardFits(t)'
  BY <1>1, <1>2, <1>3 DEF GuardFits, Fits, Restoring, Answerable
<1>6. EntryFits(t)'
  BY <1>1, <1>3 DEF EntryFits, IsSubscribed
<1>7. starts'[t] = 1 => SingleFits(t)'
  BY <1>1, <1>2, <1>3 DEF SingleFits, Fits, SentAs, Restoring, Answerable
<1>8. Fits(t)'
  BY <1>4, <1>5, <1>6, <1>7 DEF Fits
<1>9. OnlyTouches(t)
  BY <1>1, <1>2 DEF OnlyTouches, Typed, SendSubscribe
<1> QED
  BY <1>1, <1>8, <1>9, OthersFit

\* SUBACK of start()
LEMMA StartAckedFits ==
  ASSUME SessionInv, DistinctFilters, NEW t \in Subs, StartAcked(t)
  PROVE  \A s \in Subs : Fits(s)'
<1> DEFINE f == FilterOf[t]
<1>1. /\ UNCHANGED <<todo, restore, alive, rl, kept, silenced, subs, starts>>
      /\ alive /\ sub[t] = "starting" /\ phase[t] \in Answerable
      /\ phase' = [phase EXCEPT ![t] = "none"] /\ guard' = Left(f, App(t))
      /\ \/ /\ sub' = [sub EXCEPT ![t] = "active"] /\ registered' = RegisteredBy(t, phase[t])
            /\ broker' = broker \union {f} /\ UNCHANGED entry
         \/ /\ sub' = [sub EXCEPT ![t] = "failed"] /\ UNCHANGED <<registered, broker>>
            /\ DropEntry(t, phase[t])
  BY DEF StartAcked, Subscription, loop, link
<1>2. Typed /\ Fits(t) /\ f \in Filters /\ t # None
  BY OperationTypes DEF SessionInv
<1>3. /\ phase'[t] = "none" /\ entry'[f] \in {None, t}
      /\ sub'[t] \in {"active", "failed"}
      /\ sub'[t] = "active" => /\ entry' = entry /\ f \in broker'
                               /\ phase[t] = "sent" => t \in registered'
  BY <1>1, <1>2 DEF Typed, RegisteredBy, DropEntry, Fits, SubFits
<1>4. entry[f] = t /\ t \in ToSet(subs)
  <2>1. entry[f] = t
    BY <1>1, <1>2 DEF Fits, EntryFits
  <2> QED
    BY <1>1, <1>2, <2>1 DEF Fits, SubFits
<1>5. SubFits(t)'
  <2>1. starts'[t] # 0 /\ kept'[f] # t /\ kept'[f] \in {None, t} /\ rl' # "backoff"
    BY <1>1, <1>2 DEF SubFits, Fits, SessionInv, LoopFits
  <2> QED
    BY <1>1, <1>2, <1>3, <1>4, <2>1 DEF SubFits, IsSubscribed
<1>6. GuardFits(t)'
  <2>1. GuardFits(t)
    BY <1>1, <1>2 DEF Fits
  <2>2. IsInjective(guard'[f]) /\ ToSet(guard'[f]) = ToSet(guard[f]) \ {App(t)}
    BY <1>1, <1>2, <2>1, GuardOf
  <2> QED
    BY <1>1, <2>1, <2>2 DEF GuardFits, Restoring
<1>7. EntryFits(t)'
  BY <1>1, <1>3, <1>4 DEF EntryFits, IsSubscribed
<1>8. starts'[t] = 1 => SingleFits(t)'
  <2>1. SUFFICES ASSUME starts[t] = 1 PROVE SingleFits(t)'
    BY <1>1
  <2>2. t \notin ToSet(todo) /\ phase[t] = "sent" /\ Once(subs, t) /\ Once(todo, t)
    BY <1>1, <1>2, <2>1 DEF Fits, SingleFits, Answerable
  <2>3. ~Restoring(t)
    <3>1. todo # << >> => Head(todo) \in ToSet(todo)
      BY <1>2, TailQueue DEF Typed
    <3> QED
      BY <2>2, <3>1 DEF Restoring, SessionInv, ReportInv
  <2> QED
    BY <1>1, <1>3, <2>2, <2>3 DEF SingleFits, Restoring
<1>9. Fits(t)'
  BY <1>5, <1>6, <1>7, <1>8 DEF Fits
<1>10. OnlyTouches(t)
  BY <1>1, <1>2 DEF OnlyTouches, Typed, Left, RegisteredBy, DropEntry
<1> QED
  BY <1>1, <1>9, <1>10, OthersFit

\* start() fails with its connection.
LEMMA StartFailsFits ==
  ASSUME SessionInv, DistinctFilters, NEW t \in Subs, StartFails(t)
  PROVE  \A s \in Subs : Fits(s)'
<1> DEFINE f == FilterOf[t]
<1>1. /\ UNCHANGED <<todo, restore, alive, rl, kept, silenced, subs, starts, registered, guard, broker>>
      /\ ~alive /\ sub[t] = "starting" /\ sub' = [sub EXCEPT ![t] = "failed"]
      /\ phase' = [phase EXCEPT ![t] = "none"] /\ DropEntry(t, phase[t])
  BY DEF StartFails, Subscription, loop, link
<1>2. Typed /\ Fits(t) /\ f \in Filters
  BY OperationTypes DEF SessionInv
<1>3. phase'[t] = "none" /\ entry'[f] \in {None, t} /\ sub'[t] = "failed"
  BY <1>1, <1>2 DEF Typed, DropEntry, Fits, SubFits
<1>4. SubFits(t)'
  BY <1>1, <1>2, <1>3 DEF SubFits, Fits
<1>5. starts'[t] = 1 => SingleFits(t)'
  BY <1>1, <1>2, <1>3 DEF SingleFits, Fits
<1>6. Fits(t)'
  BY <1>1, <1>4, <1>5 DEF Fits
<1>7. OnlyTouches(t)
  BY <1>1, <1>2 DEF OnlyTouches, Typed, DropEntry
<1> QED
  BY <1>1, <1>6, <1>7, OthersFit

\* stop()
LEMMA StopFits ==
  ASSUME SessionInv, DistinctFilters, NEW t \in Subs, Stop(t)
  PROVE  \A s \in Subs : Fits(s)'
<1> DEFINE f == FilterOf[t]
<1>1. /\ UNCHANGED <<todo, restore, alive, rl, kept, starts, registered>>
      /\ broker' = broker /\ sub[t] \in {"active", "failed"} /\ subs' = RemoveFirst(subs, t)
  BY DEF Stop, Without, Subscription, loop, link
<1>2. Typed /\ Fits(t) /\ f \in Filters
  BY OperationTypes DEF SessionInv
<1>3. Once(subs, t) => Once(subs', t)
  BY <1>1, <1>2, RemoveListed DEF Typed
<1>4. starts[t] # 0 /\ phase[t] = "none" /\ entry[f] \in {None, t}
  BY <1>1, <1>2 DEF Fits, SubFits
<1>5. CASE ~alive \/ t \notin registered
  <2>1. sub' = [sub EXCEPT ![t] = "stopped"] /\ UNCHANGED <<phase, guard, entry, silenced>>
    BY <1>5 DEF Stop
  <2>2. sub'[t] = "stopped"
    BY <1>2, <2>1 DEF Typed
  <2>3. SubFits(t)'
    BY <1>1, <1>2, <1>4, <2>1, <2>2 DEF SubFits, Fits
  <2>4. alive' => GuardFits(t)' /\ EntryFits(t)'
    BY <1>1, <1>2, <1>4, <2>1, <2>2 DEF GuardFits, EntryFits, Fits, Restoring
  <2>5. starts'[t] = 1 => SingleFits(t)'
    BY <1>1, <1>2, <1>3, <2>2 DEF SingleFits, Fits
  <2>6. Fits(t)'
    BY <2>3, <2>4, <2>5 DEF Fits
  <2>7. OnlyTouches(t)
    BY <1>1, <1>2, <2>1 DEF OnlyTouches, Typed
  <2> QED
    BY <1>1, <2>6, <2>7, OthersFit
<1>6. CASE ~(~alive \/ t \notin registered)
  <2>1. /\ sub' = [sub EXCEPT ![t] = "stopping"] /\ guard' = Joined(f, App(t))
        /\ \/ phase' = [phase EXCEPT ![t] = "sent"] /\ SendUnsubscribe(t)
           \/ phase' = [phase EXCEPT ![t] = "queued"] /\ UNCHANGED <<entry, silenced>>
    BY <1>6 DEF Stop
  <2>2. sub'[t] = "stopping" /\ phase'[t] # "none" /\ entry'[f] \in {None, t}
    BY <1>2, <1>4, <2>1 DEF Typed, SendUnsubscribe
  <2>3. SubFits(t)'
    BY <1>1, <1>2, <1>4, <2>2 DEF SubFits, Fits
  <2>4. GuardFits(t)'
    <3>1. GuardFits(t) /\ App(t) \notin ToSet(guard[f])
      BY <1>2, <1>4, <1>6 DEF Fits, GuardFits
    <3>2. IsInjective(guard'[f]) /\ ToSet(guard'[f]) = ToSet(guard[f]) \cup {App(t)}
      BY <1>2, <2>1, <3>1, GuardOf
    <3> QED
      BY <1>1, <2>2, <3>1, <3>2, OpsDiffer DEF GuardFits, Restoring
  <2>5. EntryFits(t)'
    BY <2>2 DEF EntryFits
  <2>6. starts'[t] = 1 => SingleFits(t)'
    BY <1>1, <1>2, <1>3, <2>2 DEF SingleFits, Fits
  <2>7. Fits(t)'
    BY <2>3, <2>4, <2>5, <2>6 DEF Fits
  <2>8. OnlyTouches(t)
    BY <1>1, <1>2, <2>1 DEF OnlyTouches, Typed, Joined, SendUnsubscribe
  <2> QED
    BY <1>1, <2>7, <2>8, OthersFit
<1> QED
  BY <1>5, <1>6

\* stop() gets the guard and sends UNSUBSCRIBE, or ends.
LEMMA StoppingFits ==
  ASSUME SessionInv, DistinctFilters, NEW t \in Subs, StopSends(t) \/ StopEnds(t)
  PROVE  \A s \in Subs : Fits(s)'
<1> DEFINE f == FilterOf[t]
<1>1. /\ UNCHANGED <<todo, restore, alive, rl, kept, subs, starts, registered>> /\ sub[t] = "stopping"
      /\ \/ /\ UNCHANGED <<sub, guard>>
            /\ phase' = [phase EXCEPT ![t] = "sent"] /\ SendUnsubscribe(t) /\ UNCHANGED broker
         \/ /\ UNCHANGED <<entry, silenced>> /\ guard' = Left(f, App(t))
            /\ broker' \in {broker, broker \ {f}}
            /\ phase' = [phase EXCEPT ![t] = "none"] /\ sub' = [sub EXCEPT ![t] = "stopped"]
  BY DEF StopSends, StopEnds, Subscription, loop, link
<1>2. Typed /\ Fits(t) /\ f \in Filters
  BY OperationTypes DEF SessionInv
<1>3. /\ entry'[f] \in {None, t}
      /\ \/ sub'[t] = "stopping" /\ phase'[t] = "sent" /\ guard'[f] = guard[f]
         \/ sub'[t] = "stopped" /\ phase'[t] = "none" /\ guard' = Left(f, App(t))
  BY <1>1, <1>2 DEF Typed, SendUnsubscribe, Fits, SubFits
<1>4. SubFits(t)'
  BY <1>1, <1>2, <1>3 DEF SubFits, Fits
<1>5. alive' => GuardFits(t)'
  <2>1. SUFFICES ASSUME alive PROVE GuardFits(t)'
    BY <1>1
  <2>2. GuardFits(t)
    BY <1>2, <2>1 DEF Fits
  <2>3. CASE phase'[t] = "sent" /\ guard'[f] = guard[f]
    BY <1>1, <2>2, <2>3 DEF GuardFits, Restoring
  <2>4. CASE guard' = Left(f, App(t))
    <3>1. IsInjective(guard'[f]) /\ ToSet(guard'[f]) = ToSet(guard[f]) \ {App(t)}
      BY <1>2, <2>2, <2>4, GuardOf
    <3> QED
      BY <1>1, <2>2, <3>1 DEF GuardFits, Restoring
  <2> QED
    BY <1>3, <2>3, <2>4
<1>6. EntryFits(t)'
  BY <1>3 DEF EntryFits
<1>7. starts'[t] = 1 => SingleFits(t)'
  BY <1>1, <1>2, <1>3 DEF SingleFits, Fits
<1>8. Fits(t)'
  BY <1>4, <1>5, <1>6, <1>7 DEF Fits
<1>9. OnlyTouches(t)
  BY <1>1, <1>2 DEF OnlyTouches, Typed, Left, SendUnsubscribe
<1> QED
  BY <1>1, <1>8, <1>9, OthersFit

\* The body of `async with' was cancelled, or detach().
LEMMA LeftFits ==
  ASSUME SessionInv, DistinctFilters, NEW t \in Subs, StopCancelled(t) \/ Detach(t)
  PROVE  \A s \in Subs : Fits(s)'
<1> DEFINE f == FilterOf[t]
<1>1. /\ UNCHANGED <<todo, restore, alive, rl, starts, phase, registered, entry, guard, broker>>
      /\ sub[t] = "active" /\ subs' = RemoveFirst(subs, t)
      /\ \/ UNCHANGED <<kept, silenced>> /\ sub' = [sub EXCEPT ![t] = "cancelled"]
         \/ /\ sub' = [sub EXCEPT ![t] = "detached"]
            /\ IF t \in registered /\ entry[f] # None
               THEN silenced' = silenced \union {f} /\ kept' = [kept EXCEPT ![f] = entry[f]]
               ELSE UNCHANGED <<silenced, kept>>
  BY DEF StopCancelled, Detach, Without, Subscription, loop, link
<1>2. Typed /\ Fits(t) /\ f \in Filters /\ t # None
  BY OperationTypes DEF SessionInv
<1>3. Once(subs, t) => Once(subs', t)
  BY <1>1, <1>2, RemoveListed DEF Typed
<1>4. /\ entry[f] \in {None, t} /\ kept[f] = None /\ phase[t] = "none" /\ starts[t] # 0
      /\ starts[t] = 1 => t \in registered /\ (Restoring(t) => restore # "queued")
  BY <1>1, <1>2 DEF Fits, SubFits, SingleFits
<1>5. /\ sub'[t] \in {"cancelled", "detached"} /\ kept'[f] \in {None, t}
      /\ kept'[f] = t => sub'[t] = "detached"
      /\ sub'[t] = "detached" /\ t \in registered /\ entry[f] = t => f \in silenced'
  BY <1>1, <1>2, <1>4 DEF Typed
<1>6. SubFits(t)'
  BY <1>1, <1>4, <1>5 DEF SubFits
<1>7. alive' => GuardFits(t)' /\ EntryFits(t)'
  BY <1>1, <1>2, <1>4, <1>5 DEF GuardFits, EntryFits, Fits, Restoring
<1>8. starts'[t] = 1 => SingleFits(t)'
  <2>1. starts[t] = 1 => Once(subs, t) /\ Once(todo, t)
    BY <1>2 DEF Fits, SingleFits
  <2> QED
    BY <1>1, <1>3, <1>4, <1>5, <2>1 DEF SingleFits, Restoring
<1>9. Fits(t)'
  BY <1>6, <1>7, <1>8 DEF Fits
<1>10. OnlyTouches(t)
  BY <1>1, <1>2 DEF OnlyTouches, Typed
<1> QED
  BY <1>1, <1>9, <1>10, OthersFit

\* A new connection, with the entries that were detached.
LEMMA AttemptFits ==
  ASSUME SessionInv, NEW s \in Subs, Attempt
  PROVE  Fits(s)'
<1> DEFINE f == FilterOf[s]
<1>1. /\ UNCHANGED <<todo, restore, kept, subs, starts, sub, phase, registered>>
      /\ rl \in {"initial", "backoff"} /\ phase[s] = "none"
      /\ rl' = "start" /\ entry' = kept /\ silenced' = {g \in Filters : kept[g] # None}
      /\ guard' = [g \in Filters |-> << >>]
  BY DEF Attempt, Connecting, Settled, holders
<1>2. Typed /\ Fits(s) /\ f \in Filters /\ s # None
  BY OperationTypes DEF SessionInv
<1>3. restore = "none"
  BY <1>1 DEF SessionInv, ReportInv
<1>4. sub[s] = "active" => s \in ToSet(todo)
  BY <1>1, <1>2 DEF SessionInv, LoopFits, Fits, SubFits
<1>5. sub[s] \notin {"starting", "stopping"} /\ kept[f] \in {None, s} /\ (kept[f] = s => sub[s] = "detached")
  BY <1>1, <1>2 DEF Fits, SubFits
<1>6. SubFits(s)'
  BY <1>1, <1>2, <1>5 DEF Fits, SubFits
<1>7. GuardFits(s)'
  BY <1>1, <1>2 DEF GuardFits, ToSet, IsInjective
<1>8. EntryFits(s)'
  BY <1>1, <1>3, <1>4, <1>5 DEF EntryFits, Restoring
<1>9. starts'[s] = 1 => SingleFits(s)'
  <2>1. starts[s] = 1 => Once(subs, s) /\ Once(todo, s) /\ (sub[s] = "active" => s \in registered)
    BY <1>2 DEF Fits, SingleFits
  <2>2. kept[f] = s => f \in silenced'
    BY <1>1, <1>2
  <2> QED
    BY <1>1, <1>3, <1>5, <2>1, <2>2 DEF SingleFits, Restoring
<1> QED
  BY <1>6, <1>7, <1>8, <1>9 DEF Fits

\* The run loop restores a subscription: the others are untouched.
LEMMA OthersNotRestored ==
  ASSUME SessionInv, DistinctFilters, todo # << >>, NEW t \in Subs, t = Head(todo), OnlyTouches(t),
         UNCHANGED subs, todo' = todo \/ (todo' = Tail(todo) /\ restore' = "none")
  PROVE  \A s \in Subs \ {t} : Untouched(s)
<1> SUFFICES ASSUME NEW s \in Subs, s # t PROVE Untouched(s)
  OBVIOUS
<1>1. FilterOf[s] \in Filters \ {FilterOf[t]}
  BY OperationTypes DEF DistinctFilters
<1>2. (s \in ToSet(todo') <=> s \in ToSet(todo)) /\ (Once(todo, s) => Once(todo', s))
  <2>1. todo \in Seq(Subs)
    BY DEF SessionInv, Typed
  <2>2. CASE todo' = todo
    BY <2>2
  <2>3. CASE todo' = Tail(todo)
    BY <2>1, <2>3, TailListed
  <2> QED
    BY <2>2, <2>3
<1>3. ~Restoring(s) /\ ~Restoring(s)'
  BY DEF Restoring
<1> QED
  BY <1>1, <1>2, <1>3 DEF OnlyTouches, Untouched

LEMMA OthersRestored ==
  ASSUME SessionInv, DistinctFilters, todo # << >>, NEW t \in Subs, t = Head(todo), OnlyTouches(t),
         UNCHANGED <<alive, rl, subs>>,
         todo' = todo \/ (todo' = Tail(todo) /\ restore' = "none"), Fits(t)'
  PROVE  \A s \in Subs : Fits(s)'
<1> SUFFICES ASSUME NEW s \in Subs, s # t PROVE Fits(s)'
  OBVIOUS
<1>1. Untouched(s)
  BY OthersNotRestored
<1>2. Fits(s)
  BY DEF SessionInv
<1> QED
  BY <1>1, <1>2, UntouchedFits

\* The run loop comes to the next subscription.
LEMMA RestoreNextFits ==
  ASSUME SessionInv, DistinctFilters, NEW t, t = Head(todo), RestoreNext
  PROVE  \A s \in Subs : Fits(s)'
<1> DEFINE f == FilterOf[t]
<1>1. /\ UNCHANGED <<alive, rl, kept, silenced, subs, starts, sub, phase, registered, broker>>
      /\ rl = "restore" /\ todo # << >> /\ restore = "none"
  BY DEF RestoreNext, holders, link
<1>2. Typed /\ t \in Subs /\ t \in ToSet(todo)
  BY <1>1, TailQueue DEF SessionInv, Typed
<1>3. CASE sub[t] = "detached"
  <2>1. todo' = Tail(todo) /\ UNCHANGED <<restore, entry, guard>>
    BY <1>3 DEF RestoreNext
  <2>2. Fits(t) /\ ~Restoring(t)
    BY <1>1, <1>2 DEF SessionInv, Restoring
  <2>3. /\ t \in ToSet(todo') => t \in ToSet(todo)
        /\ Once(todo, t) => Once(todo', t)
    BY <1>1, <1>2, <2>1, TailListed DEF Typed
  <2>4. ~Restoring(t)'
    BY <1>1, <2>1 DEF Restoring
  <2>5. SubFits(t)'
    BY <1>1, <1>3, <2>1, <2>2, <2>3 DEF Fits, SubFits
  <2>6. alive' => GuardFits(t)' /\ EntryFits(t)'
    BY <1>1, <1>3, <2>1, <2>2 DEF Fits, GuardFits, EntryFits
  <2>7. starts'[t] = 1 => SingleFits(t)'
    BY <1>1, <1>3, <2>1, <2>2, <2>3, <2>4 DEF Fits, SingleFits
  <2>8. Fits(t)'
    BY <2>5, <2>6, <2>7 DEF Fits
  <2>9. OnlyTouches(t)
    BY <1>1, <2>1 DEF OnlyTouches
  <2> QED
    BY <1>1, <1>2, <2>1, <2>8, <2>9, OthersRestored
<1>4. CASE sub[t] # "detached"
  <2>1. /\ alive /\ UNCHANGED todo /\ guard' = Joined(f, Loop(t))
        /\ \/ Free(f) /\ restore' = SentAs(t) /\ SendSubscribe(t)
           \/ ~Free(f) /\ restore' = "queued" /\ UNCHANGED entry
    BY <1>4 DEF RestoreNext, Loop
  <2>2. Restoring(t)'
    BY <2>1 DEF Restoring, SentAs
  <2>3. Fits(t) /\ ~Restoring(t) /\ f \in Filters /\ t # None
    BY <1>1, <1>2, OperationTypes DEF SessionInv, Restoring
  <2>4. GuardFits(t) /\ EntryFits(t) /\ SubFits(t) /\ Loop(t) \notin ToSet(guard[f])
    BY <2>1, <2>3 DEF Fits, GuardFits
  <2>5. sub[t] \in {"active", "detached"} => Free(f)
    <3>1. sub[t] \in {"active", "detached"} => ToSet(guard[f]) = {}
      BY <2>4 DEF GuardFits, SubFits
    <3> QED
      BY <1>2, <2>4, <3>1, GuardOf
  <2>6. /\ entry'[f] \in {entry[f], t}
        /\ \/ Free(f) /\ restore' = SentAs(t) /\ entry'[f] = t
           \/ ~Free(f) /\ restore' = "queued" /\ entry'[f] = entry[f]
    BY <1>2, <2>1, <2>3, <2>4 DEF SendSubscribe, Typed, SubFits
  <2>7. /\ IsInjective(guard'[f]) /\ ToSet(guard'[f]) = ToSet(guard[f]) \cup {Loop(t)}
    BY <1>2, <2>1, <2>4, GuardOf
  <2>8. starts[t] # 0
    BY <1>2, <2>4 DEF SubFits
  <2>9. SubFits(t)'
    BY <1>1, <2>1, <2>4, <2>6, <2>8 DEF SubFits
  <2>10. GuardFits(t)'
    BY <1>1, <2>2, <2>4, <2>7, OpsDiffer DEF GuardFits
  <2>11. EntryFits(t)'
    BY <1>1, <1>2, <2>1, <2>4, <2>5, <2>6 DEF EntryFits, IsSubscribed
  <2>12. starts'[t] = 1 => SingleFits(t)'
    <3>1. SUFFICES ASSUME starts[t] = 1 PROVE SingleFits(t)'
      BY <1>1
    <3>2. SingleFits(t) /\ sub[t] # "starting"
      BY <1>2, <2>1, <2>3, <3>1 DEF Fits, SingleFits
    <3>3. sub[t] = "active" => restore' = "sent"
      BY <1>2, <2>1, <2>3, <2>5, <2>6, <3>2 DEF SingleFits, SentAs
    <3> QED
      BY <1>1, <1>4, <2>1, <2>2, <3>2, <3>3 DEF SingleFits
  <2>13. Fits(t)'
    BY <2>9, <2>10, <2>11, <2>12 DEF Fits
  <2>14. OnlyTouches(t)
    BY <1>1, <1>2, <2>1, <2>3 DEF OnlyTouches, Typed, Joined, SendSubscribe
  <2> QED
    BY <1>1, <1>2, <2>1, <2>13, <2>14, OthersRestored
<1> QED
  BY <1>3, <1>4

\* The restoring of a subscription gets the guard and sends SUBSCRIBE.
LEMMA RestoreSendsFits ==
  ASSUME SessionInv, DistinctFilters, NEW t, t = Head(todo), RestoreSends
  PROVE  \A s \in Subs : Fits(s)'
<1> DEFINE f == FilterOf[t]
<1>1. /\ UNCHANGED <<alive, rl, todo, kept, silenced, guard, subs, starts, sub, phase, registered, broker>>
      /\ alive /\ restore = "queued" /\ restore' = SentAs(t) /\ SendSubscribe(t)
  BY DEF RestoreSends, holders, link
<1>2. Typed /\ todo # << >> /\ t \in Subs /\ t \in ToSet(todo)
  BY <1>1, TailQueue DEF SessionInv, Typed, ReportInv
<1>3. Restoring(t) /\ Restoring(t)'
  BY <1>1 DEF Restoring, SentAs
<1>4. Fits(t) /\ f \in Filters /\ t # None
  BY <1>2, OperationTypes DEF SessionInv
<1>5. GuardFits(t) /\ EntryFits(t) /\ SubFits(t)
  BY <1>1, <1>4 DEF Fits
<1>6. entry'[f] = t /\ starts[t] # 0
  BY <1>1, <1>2, <1>4, <1>5 DEF SendSubscribe, Typed, SubFits
<1>7. SubFits(t)'
  BY <1>1, <1>5, <1>6 DEF SubFits
<1>8. GuardFits(t)'
  BY <1>1, <1>3, <1>5 DEF GuardFits
<1>9. EntryFits(t)'
  BY <1>1, <1>2, <1>6 DEF EntryFits, IsSubscribed
<1>10. starts'[t] = 1 => SingleFits(t)'
  <2>1. SUFFICES ASSUME starts[t] = 1 PROVE SingleFits(t)'
    BY <1>1
  <2>2. SingleFits(t) /\ sub[t] \notin {"active", "detached", "starting"}
    BY <1>1, <1>2, <1>3, <1>4, <2>1 DEF Fits, SingleFits
  <2> QED
    BY <1>1, <2>2 DEF SingleFits
<1>11. Fits(t)'
  BY <1>7, <1>8, <1>9, <1>10 DEF Fits
<1>12. OnlyTouches(t)
  BY <1>1, <1>2, <1>4 DEF OnlyTouches, Typed, SendSubscribe
<1> QED
  BY <1>1, <1>2, <1>11, <1>12, OthersRestored

\* SUBACK of a restored subscription.
LEMMA RestoreAckedFits ==
  ASSUME SessionInv, DistinctFilters, NEW t, t = Head(todo), RestoreAcked
  PROVE  \A s \in Subs : Fits(s)'
<1> DEFINE f == FilterOf[t]
<1>1. /\ UNCHANGED <<alive, rl, kept, silenced, entry, subs, starts, sub, phase>> /\ broker' = broker \union {f}
      /\ alive /\ restore \in Answerable /\ restore' = "none" /\ todo' = Tail(todo)
      /\ registered' = RegisteredBy(t, restore) /\ guard' = Left(f, Loop(t))
  BY DEF RestoreAcked, link, Loop
<1>2. Typed /\ todo # << >> /\ t \in Subs /\ t \in ToSet(todo) /\ rl = "restore"
  BY <1>1, TailQueue DEF SessionInv, Typed, ReportInv, Answerable
<1>3. Restoring(t) /\ ~Restoring(t)'
  BY <1>1 DEF Restoring, Answerable
<1>4. /\ t \in ToSet(todo') => t \in ToSet(todo)
      /\ Once(todo, t) => Once(todo', t) /\ t \notin ToSet(todo')
  BY <1>1, <1>2, TailListed DEF Typed
<1>5. Fits(t) /\ f \in Filters /\ t # None
  BY <1>2, OperationTypes DEF SessionInv
<1>6. GuardFits(t) /\ EntryFits(t) /\ SubFits(t)
  BY <1>1, <1>5 DEF Fits
<1>7. SubFits(t)'
  BY <1>1, <1>2, <1>4, <1>6 DEF SubFits
<1>8. GuardFits(t)'
  <2>1. IsInjective(guard'[f]) /\ ToSet(guard'[f]) = ToSet(guard[f]) \ {Loop(t)}
    BY <1>1, <1>2, <1>6, GuardOf
  <2> QED
    BY <1>1, <1>6, <2>1 DEF GuardFits
<1>9. EntryFits(t)'
  BY <1>1, <1>3, <1>6 DEF EntryFits, IsSubscribed
<1>10. starts'[t] = 1 => SingleFits(t)'
  <2>1. SUFFICES ASSUME starts[t] = 1 PROVE SingleFits(t)'
    BY <1>1
  <2>2. SingleFits(t)
    BY <1>5, <2>1 DEF Fits
  <2>3. sub[t] = "active" => t \in registered'
    BY <1>1, <1>2, <1>3, <2>2 DEF SingleFits, RegisteredBy
  <2> QED
    BY <1>1, <1>3, <1>4, <2>2, <2>3 DEF SingleFits
<1>11. Fits(t)'
  BY <1>7, <1>8, <1>9, <1>10 DEF Fits
<1>12. OnlyTouches(t)
  BY <1>1, <1>2, <1>5 DEF OnlyTouches, Typed, Left, RegisteredBy
<1> QED
  BY <1>1, <1>2, <1>11, <1>12, OthersRestored

\* Every step keeps what is known of the run loop.
LEMMA LoopStep ==
  ASSUME SessionInv, [Next]_vars
  PROVE  LoopFits'
<1> USE DEF LoopFits
<1>0. LoopFits /\ conns \in Nat
  BY DEF SessionInv, ReportInv
<1>1. CASE Attempt
  BY <1>0, <1>1 DEF Attempt
<1>2. CASE AttemptFails \/ AttemptRefused \/ AttemptDropped \/ CallbackReturns
  BY <1>0, <1>2 DEF AttemptFails, AttemptRefused, AttemptDropped, CallbackReturns, Connecting,
                    ConnectFails, Report, Fail, holders
<1>3. CASE Die \/ Started \/ RestoreEnds
  BY <1>0, <1>3 DEF Die, Started, RestoreEnds, loop, holders, link
<1>4. CASE RestoreNext \/ RestoreSends \/ RestoreAcked
  <2>1. UNCHANGED <<rl, conns, alive, sub>>
    BY <1>4 DEF RestoreNext, RestoreSends, RestoreAcked, holders, link
  <2>2. rl = "restore"
    BY <1>4 DEF RestoreNext, RestoreSends, RestoreAcked, Answerable, SessionInv, ReportInv
  <2> QED
    BY <1>0, <2>1, <2>2
<1>5. CASE RestoreRejected \/ LoopSeesDeath \/ Exit
  <2>1. rl' \notin {"initial", "run"} /\ ~alive'
    BY <1>5 DEF RestoreRejected, LoopSeesDeath, Exit, Fail, Report
  <2> QED
    BY <2>1
<1>6. ASSUME NEW s \in Subs, Start(s) PROVE LoopFits'
  <2>1. conns > 0 /\ UNCHANGED <<rl, conns, alive, todo>>
    BY <1>6 DEF Start, HasProtocol, Subscription, loop, link
  <2> QED
    BY <1>0, <2>1
<1>7. ASSUME NEW s \in Subs, StartSends(s) \/ StartAcked(s) \/ StartFails(s) \/ Stop(s) \/ StopSends(s)
                          \/ StopEnds(s) \/ StopCancelled(s) \/ Detach(s)
      PROVE  LoopFits'
  <2>1. sub[s] # "new" /\ UNCHANGED <<rl, conns, alive, todo>>
    BY <1>7 DEF StartSends, StartAcked, StartFails, Stop, StopSends, StopEnds, StopCancelled, Detach,
                Subscription, loop, link
  <2> QED
    BY <1>0, <2>1
<1>8. ASSUME NEW s \in Subs, Wait(s) \/ Wake(s) PROVE LoopFits'
  BY <1>0, <1>8 DEF Wait, Wake, loop, link, holders
<1>9. CASE UNCHANGED vars
  BY <1>0, <1>9 DEF vars, loop, link, holders
<1> QED
  BY <1>1, <1>2, <1>3, <1>4, <1>5, <1>6, <1>7, <1>8, <1>9 DEF Next

\* Every step keeps what is known of each subscription.
LEMMA FitsStep ==
  ASSUME SessionInv, DistinctFilters, [Next]_vars
  PROVE  \A s \in Subs : Fits(s)'
<1>1. CASE Attempt
  BY <1>1, AttemptFits
<1>2. CASE AttemptFails \/ AttemptRefused \/ AttemptDropped \/ CallbackReturns \/ Die
  <2>1. /\ UNCHANGED holders /\ UNCHANGED <<entry, kept>> /\ ~alive'
        /\ UNCHANGED <<todo, restore>> \/ (restore' = "none" /\ todo' = << >>)
        /\ rl' = "backoff" => rl = "backoff" /\ UNCHANGED todo
    BY <1>2 DEF AttemptFails, AttemptRefused, AttemptDropped, CallbackReturns, Die, Connecting,
                ConnectFails, Report, Fail, loop, table, SessionInv, LoopFits
  <2> QED
    BY <2>1, StoppedFits DEF SessionInv
<1>3. CASE RestoreRejected \/ LoopSeesDeath \/ Exit
  <2>1. /\ UNCHANGED holders /\ ~alive'
        /\ restore' = "none" /\ todo' \in {<< >>, subs} /\ (rl' = "backoff" => todo' = subs)
    BY <1>3 DEF RestoreRejected, LoopSeesDeath, Exit, Report, Fail
  <2>2. ASSUME NEW s \in Subs
        PROVE  /\ entry'[FilterOf[s]] \in {None, entry[FilterOf[s]]}
               /\ kept'[FilterOf[s]] \in {None, kept[FilterOf[s]]}
    <3>1. Typed /\ FilterOf[s] \in Filters
      BY OperationTypes DEF SessionInv
    <3>2. CASE Exit
      BY <3>1, <3>2 DEF Exit
    <3>3. CASE RestoreRejected
      BY <3>1, <3>3 DEF RestoreRejected, DropEntry, Typed
    <3>4. CASE LoopSeesDeath
      BY <3>1, <3>4 DEF LoopSeesDeath, DropEntry, Typed
    <3> QED
      BY <1>3, <3>2, <3>3, <3>4
  <2> QED
    BY <2>1, <2>2, StoppedFits DEF SessionInv
<1>4. ASSUME UNCHANGED holders, UNCHANGED table, UNCHANGED <<todo, restore, alive>>,
             rl' = "backoff" => rl = "backoff"
      PROVE  \A s \in Subs : Fits(s)'
  <2> SUFFICES ASSUME NEW s \in Subs PROVE Fits(s)'
    OBVIOUS
  <2>1. Untouched(s)
    BY <1>4 DEF Untouched, holders, table, Restoring
  <2>2. Fits(s)
    BY DEF SessionInv
  <2> QED
    BY <1>4, <2>1, <2>2, UntouchedFits
<1>5. CASE Started \/ RestoreEnds \/ UNCHANGED vars
  BY <1>4, <1>5 DEF Started, RestoreEnds, vars, loop, link
<1>6. CASE RestoreNext
  BY <1>6, RestoreNextFits
<1>7. CASE RestoreSends
  BY <1>7, RestoreSendsFits
<1>8. CASE RestoreAcked
  BY <1>8, RestoreAckedFits
<1>9. ASSUME NEW t \in Subs, Start(t) PROVE \A s \in Subs : Fits(s)'
  BY <1>9, StartFits
<1>10. ASSUME NEW t \in Subs, StartSends(t) PROVE \A s \in Subs : Fits(s)'
  BY <1>10, StartSendsFits
<1>11. ASSUME NEW t \in Subs, StartAcked(t) PROVE \A s \in Subs : Fits(s)'
  BY <1>11, StartAckedFits
<1>12. ASSUME NEW t \in Subs, StartFails(t) PROVE \A s \in Subs : Fits(s)'
  BY <1>12, StartFailsFits
<1>13. ASSUME NEW t \in Subs, Stop(t) PROVE \A s \in Subs : Fits(s)'
  BY <1>13, StopFits
<1>14. ASSUME NEW t \in Subs, StopSends(t) \/ StopEnds(t) PROVE \A s \in Subs : Fits(s)'
  BY <1>14, StoppingFits
<1>15. ASSUME NEW t \in Subs, StopCancelled(t) \/ Detach(t) PROVE \A s \in Subs : Fits(s)'
  BY <1>15, LeftFits
<1>16. ASSUME NEW t \in Subs, Wait(t) \/ Wake(t) PROVE \A s \in Subs : Fits(s)'
  BY <1>4, <1>16 DEF Wait, Wake, loop, link
<1> QED
  BY <1>1, <1>2, <1>3, <1>5, <1>6, <1>7, <1>8, <1>9, <1>10, <1>11, <1>12, <1>13, <1>14, <1>15, <1>16
     DEF Next

\* The session holds from the start.
LEMMA SessionInit == Init => SessionInv
<1> SUFFICES ASSUME Init PROVE SessionInv
  OBVIOUS
<1>1. ReportInv /\ Typed
  BY TypedInit DEF Init, ReportInv, RecoveryReported
<1>2. LoopFits
  BY DEF Init, LoopFits
<1>3. ASSUME NEW s \in Subs PROVE Fits(s)
  <2>1. FilterOf[s] \in Filters /\ s # None
    BY OperationTypes
  <2>2. /\ entry[FilterOf[s]] = None /\ kept[FilterOf[s]] = None /\ phase[s] = "none" /\ sub[s] = "new"
        /\ starts[s] = 0 /\ subs = << >> /\ todo = << >> /\ ~alive
    BY <2>1 DEF Init
  <2>3. ToSet(<< >>) = {}
    BY DEF ToSet
  <2> QED
    BY <2>1, <2>2, <2>3 DEF Fits, SubFits
<1> QED
  BY <1>1, <1>2, <1>3 DEF SessionInv

\* The invariant of the session holds in every reachable state.
LEMMA SessionAlways ==
  ASSUME DistinctFilters
  PROVE  Spec => []SessionInv
<1>1. SessionInv /\ [Next]_vars => SessionInv'
  BY ReportStep, TypedStep, LoopStep, FitsStep DEF SessionInv
<1> QED
  BY <1>1, SessionInit, PTL DEF Spec

\* Whenever the run loop waits on a live connection, every active subscription has its
\* entry and the broker its filter, on every connection, if no two share a filter.
THEOREM ActiveIsSubscribedHolds ==
  ASSUME DistinctFilters
  PROVE  Spec => []ActiveIsSubscribed
<1>1. ASSUME SessionInv PROVE ActiveIsSubscribed
  <2> SUFFICES ASSUME rl = "run", alive, NEW s \in Subs, sub[s] = "active"
               PROVE  /\ entry[FilterOf[s]] = s /\ FilterOf[s] \in broker
                      /\ starts[s] = 1 => s \in registered
    BY DEF ActiveIsSubscribed
  <2>1. s \notin ToSet(todo)
    BY <1>1 DEF SessionInv, LoopFits, ToSet
  <2>2. Fits(s)
    BY <1>1 DEF SessionInv
  <2> QED
    BY <2>1, <2>2 DEF Fits, EntryFits, IsSubscribed, SingleFits
<1> QED
  BY <1>1, SessionAlways, PTL

\* A detached subscription never gets a live entry back, if no two share a filter.
THEOREM DetachedStaysSilentHolds ==
  ASSUME DistinctFilters
  PROVE  Spec => []DetachedStaysSilent
<1>1. ASSUME SessionInv PROVE DetachedStaysSilent
  BY <1>1 DEF SessionInv, DetachedStaysSilent, Fits, SingleFits
<1> QED
  BY <1>1, SessionAlways, PTL

-----------------------------------------------------------------------------
(* The filters of the broker's session.                                    *)

\* Who waits for an answer of the broker holds the guard of its filter, so nobody else
\* does, and a kept entry is in the table of the connection.
Heads(s) ==
  LET q == guard[FilterOf[s]] IN
  alive =>
    /\ phase[s] \in Answerable => q # << >> /\ Head(q) = App(s)
    /\ Restoring(s) /\ restore \in Answerable =>
         q # << >> /\ Head(q) = Loop(s) /\ entry[FilterOf[s]] = s
    /\ kept[FilterOf[s]] # None => entry[FilterOf[s]] # None

\* A filter the broker has, and that was not given up, has an owner that is listed or
\* whose entry is kept; where there is no entry that will stay, one that will be restored.
Owners(s) ==
  LET f == FilterOf[s]
      leaving == sub[s] = "stopping"
      restored == s \in ToSet(todo) /\ sub[s] # "detached" IN
  f \in broker \ leftover =>
    /\ kept[f] # None \/ (s \in ToSet(subs) /\ sub[s] # "detached") \/ leaving
    /\ alive /\ (entry[f] = None \/ (sub[s] = "starting" /\ phase[s] = "sent"))
         => restored \/ leaving
    /\ rl = "backoff" => kept[f] # None \/ restored \/ leaving

Owned == \A s \in Subs : Heads(s) /\ Owners(s)

LEMMA UntouchedOwned ==
  ASSUME NEW s \in Subs, Heads(s), Owners(s), Untouched(s),
         FilterOf[s] \in leftover => FilterOf[s] \in leftover',
         alive' => alive, rl' = "backoff" => rl = "backoff"
  PROVE  Heads(s)' /\ Owners(s)'
<1>1. Heads(s)'
  BY DEF Heads, Untouched
<1>2. Owners(s)'
  BY DEF Owners, Untouched
<1> QED
  BY <1>1, <1>2

\* A step of one subscription, or of its restoring, changes only its filter.
LeavesOthers(t) == \A f \in Filters \ {FilterOf[t]} : f \in leftover => f \in leftover'

LEMMA OthersOwned ==
  ASSUME SessionInv, DistinctFilters, Owned, NEW t \in Subs, LeavesOthers(t),
         UNCHANGED <<alive, rl>>, \A s \in Subs \ {t} : Untouched(s), Heads(t)', Owners(t)'
  PROVE  Owned'
<1> SUFFICES ASSUME NEW s \in Subs, s # t PROVE Heads(s)' /\ Owners(s)'
  BY DEF Owned
<1>1. FilterOf[s] \in Filters \ {FilterOf[t]}
  BY OperationTypes DEF DistinctFilters
<1> QED
  BY <1>1, UntouchedOwned DEF LeavesOthers, Owned

\* An operation that joins the queue of the guard leaves its head, or is the head.
LEMMA JoinedHead ==
  ASSUME Typed, NEW t \in Subs, NEW op \in {App(t), Loop(t)}
  PROVE  LET q == Joined(FilterOf[t], op)[FilterOf[t]] IN
         q # << >> /\ Head(q) = IF Free(FilterOf[t]) THEN op ELSE Head(guard[FilterOf[t]])
<1>1. FilterOf[t] \in Filters /\ op \in Operations /\ guard[FilterOf[t]] \in Seq(Operations)
  BY OperationTypes DEF Typed
<1> QED
  <2>1. Joined(FilterOf[t], op)[FilterOf[t]] = Append(guard[FilterOf[t]], op)
    BY <1>1 DEF Joined, Typed
  <2> QED
    BY <1>1, <2>1, AppendQueue DEF Free

\* start()
LEMMA StartOwned ==
  ASSUME SessionInv, DistinctFilters, Owned, NEW t \in Subs, Start(t)
  PROVE  Owned'
<1> DEFINE f == FilterOf[t]
<1>1. /\ UNCHANGED <<todo, restore, alive, rl, registered, kept, silenced, broker, leftover>>
      /\ subs' = Append(subs, t)
      /\ sub[t] \in {"new", "failed", "stopped", "cancelled"} /\ starts' = [starts EXCEPT ![t] = @ + 1]
  BY DEF Start, Subscription, loop, link
<1>2. /\ Typed /\ Fits(t) /\ f \in Filters /\ t # None /\ Heads(t) /\ Owners(t)
      /\ (alive => rl # "backoff")
  BY OperationTypes DEF SessionInv, Owned, LoopFits
<1>3. t \in ToSet(subs')
  BY <1>1, <1>2, AppendListed DEF Typed
<1>4. phase[t] = "none" /\ kept[f] = None
  BY <1>1, <1>2 DEF Fits, SubFits
<1>5. CASE ~alive
  <2>1. sub' = [sub EXCEPT ![t] = "failed"] /\ UNCHANGED <<phase, guard, entry>>
    BY <1>5 DEF Start
  <2>2. sub'[t] = "failed"
    BY <1>2, <2>1 DEF Typed
  <2>3. Heads(t)' /\ Owners(t)'
    BY <1>1, <1>2, <1>3, <1>5, <2>1, <2>2 DEF Heads, Owners
  <2>4. OnlyTouches(t) /\ LeavesOthers(t)
    BY <1>1, <1>2, <2>1 DEF OnlyTouches, LeavesOthers, Typed
  <2> QED
    BY <1>1, <2>3, <2>4, OthersUntouched, OthersOwned
<1>6. CASE alive
  <2>1. /\ sub' = [sub EXCEPT ![t] = "starting"] /\ guard' = Joined(f, App(t))
        /\ \/ Free(f) /\ phase' = [phase EXCEPT ![t] = SentAs(t)] /\ SendSubscribe(t)
           \/ ~Free(f) /\ phase' = [phase EXCEPT ![t] = "queued"] /\ UNCHANGED entry
    BY <1>6 DEF Start
  <2>2. sub'[t] = "starting"
    BY <1>2, <2>1 DEF Typed
  <2>3. guard'[f] # << >> /\ Head(guard'[f]) = IF Free(f) THEN App(t) ELSE Head(guard[f])
    BY <1>2, <2>1, JoinedHead
  <2>4. \/ Free(f) /\ phase'[t] = SentAs(t) /\ entry'[f] # None
        \/ ~Free(f) /\ phase'[t] = "queued" /\ entry'[f] = entry[f]
    BY <1>2, <2>1 DEF SendSubscribe, Typed
  <2>5. Restoring(t)' <=> Restoring(t)
    BY <1>1 DEF Restoring
  <2>6. Heads(t)'
    BY <1>1, <1>2, <1>4, <1>6, <2>3, <2>4, <2>5 DEF Heads, Free, Answerable
  <2>7. Owners(t)'
    BY <1>1, <1>2, <1>3, <1>6, <2>2, <2>4 DEF Owners, SentAs
  <2>8. OnlyTouches(t) /\ LeavesOthers(t)
    BY <1>1, <1>2, <2>1 DEF OnlyTouches, LeavesOthers, Typed, Joined, SendSubscribe
  <2> QED
    BY <1>1, <2>6, <2>7, <2>8, OthersUntouched, OthersOwned
<1> QED
  BY <1>5, <1>6

\* start() gets the guard and sends SUBSCRIBE.
LEMMA StartSendsOwned ==
  ASSUME SessionInv, DistinctFilters, Owned, NEW t \in Subs, StartSends(t)
  PROVE  Owned'
<1> DEFINE f == FilterOf[t]
<1>1. /\ UNCHANGED <<todo, restore, alive, rl, registered, kept, silenced, subs, starts, sub, guard,
                     broker, leftover>>
      /\ alive /\ sub[t] = "starting" /\ phase[t] = "queued" /\ guard[f] # << >> /\ Head(guard[f]) = App(t)
      /\ phase' = [phase EXCEPT ![t] = SentAs(t)] /\ SendSubscribe(t)
  BY DEF StartSends, Subscription, loop, link, Holds, Free
<1>2. /\ Typed /\ Fits(t) /\ f \in Filters /\ t # None /\ Heads(t) /\ Owners(t)
      /\ (alive => rl # "backoff")
  BY OperationTypes DEF SessionInv, Owned, LoopFits
<1>3. phase'[t] = SentAs(t) /\ entry'[f] # None
  BY <1>1, <1>2 DEF SendSubscribe, Typed
<1>4. Restoring(t)' <=> Restoring(t)
  BY <1>1 DEF Restoring
<1>5. Heads(t)'
  BY <1>1, <1>2, <1>3, <1>4, OpsDiffer DEF Heads
<1>6. Owners(t)'
  BY <1>1, <1>2, <1>3 DEF Owners, SentAs
<1>7. OnlyTouches(t) /\ LeavesOthers(t)
  BY <1>1, <1>2 DEF OnlyTouches, LeavesOthers, Typed, SendSubscribe
<1> QED
  BY <1>1, <1>5, <1>6, <1>7, OthersUntouched, OthersOwned

\* SUBACK of start(), or its failure with the connection.
LEMMA StartEndsOwned ==
  ASSUME SessionInv, DistinctFilters, Owned, NEW t \in Subs, StartAcked(t) \/ StartFails(t)
  PROVE  Owned'
<1> DEFINE f == FilterOf[t]
<1>1. /\ UNCHANGED <<todo, restore, alive, rl, kept, silenced, subs, starts>> /\ sub[t] = "starting"
      /\ phase' = [phase EXCEPT ![t] = "none"]
      /\ alive => phase[t] \in Answerable
      /\ \/ /\ alive /\ sub' = [sub EXCEPT ![t] = "active"] /\ registered' = RegisteredBy(t, phase[t])
            /\ broker' = broker \union {f} /\ leftover' = leftover \ {f} /\ UNCHANGED entry
            /\ guard' = Left(f, App(t))
         \/ /\ sub' = [sub EXCEPT ![t] = "failed"] /\ UNCHANGED <<registered, broker, leftover>>
            /\ DropEntry(t, phase[t]) /\ guard' \in {guard, Left(f, App(t))}
  BY DEF StartAcked, StartFails, Subscription, loop, link
<1>2. /\ Typed /\ Fits(t) /\ f \in Filters /\ t # None /\ Heads(t) /\ Owners(t)
      /\ (alive => rl # "backoff")
  BY OperationTypes DEF SessionInv, Owned, LoopFits
<1>3. /\ phase'[t] = "none" /\ sub'[t] \in {"active", "failed"}
      /\ sub'[t] = "active" => entry'[f] = entry[f] /\ alive
      /\ sub'[t] = "failed" => /\ entry'[f] = IF phase[t] = "sent" THEN None ELSE entry[f]
                               /\ broker' = broker /\ leftover' = leftover
  BY <1>1, <1>2 DEF Typed, DropEntry
<1>4. t \in ToSet(subs) /\ kept[f] = None /\ (alive => entry[f] = t)
  BY <1>1, <1>2 DEF Fits, SubFits, EntryFits
<1>5. alive => ~(Restoring(t)' /\ restore \in Answerable)
  BY <1>1, <1>2, OpsDiffer DEF Heads, Restoring
<1>6. Heads(t)'
  BY <1>1, <1>3, <1>4, <1>5 DEF Heads, Answerable
<1>7. Owners(t)'
  BY <1>1, <1>2, <1>3, <1>4 DEF Owners
<1>8. OnlyTouches(t) /\ LeavesOthers(t)
  BY <1>1, <1>2 DEF OnlyTouches, LeavesOthers, Typed, Left, RegisteredBy, DropEntry
<1> QED
  BY <1>1, <1>6, <1>7, <1>8, OthersUntouched, OthersOwned

\* stop()
LEMMA StopOwned ==
  ASSUME SessionInv, DistinctFilters, Owned, NEW t \in Subs, Stop(t)
  PROVE  Owned'
<1> DEFINE f == FilterOf[t]
<1>1. /\ UNCHANGED <<todo, restore, alive, rl, kept, starts, registered, broker>>
      /\ sub[t] \in {"active", "failed"} /\ subs' = RemoveFirst(subs, t)
  BY DEF Stop, Without, Subscription, loop, link
<1>2. Typed /\ Fits(t) /\ f \in Filters /\ Heads(t) /\ Owners(t)
  BY OperationTypes DEF SessionInv, Owned
<1>3. phase[t] = "none" /\ kept[f] = None
  BY <1>1, <1>2 DEF Fits, SubFits
<1>4. Restoring(t)' <=> Restoring(t)
  BY <1>1 DEF Restoring
<1>5. CASE ~alive \/ t \notin registered
  <2>1. /\ sub' = [sub EXCEPT ![t] = "stopped"] /\ UNCHANGED <<phase, guard, entry, silenced>>
        /\ leftover' = leftover \union {f}
    BY <1>5 DEF Stop
  <2>2. Heads(t)' /\ Owners(t)'
    BY <1>1, <1>2, <1>4, <2>1 DEF Heads, Owners
  <2>3. OnlyTouches(t) /\ LeavesOthers(t)
    BY <1>1, <1>2, <2>1 DEF OnlyTouches, LeavesOthers, Typed
  <2> QED
    BY <1>1, <2>2, <2>3, OthersUntouched, OthersOwned
<1>6. CASE ~(~alive \/ t \notin registered)
  <2>1. /\ sub' = [sub EXCEPT ![t] = "stopping"] /\ guard' = Joined(f, App(t)) /\ UNCHANGED leftover
        /\ \/ Free(f) /\ phase' = [phase EXCEPT ![t] = "sent"] /\ SendUnsubscribe(t)
           \/ ~Free(f) /\ phase' = [phase EXCEPT ![t] = "queued"] /\ UNCHANGED <<entry, silenced>>
    BY <1>6 DEF Stop
  <2>2. /\ sub'[t] = "stopping"
        /\ \/ Free(f) /\ phase'[t] = "sent"
           \/ ~Free(f) /\ phase'[t] = "queued" /\ entry'[f] = entry[f]
    BY <1>2, <2>1 DEF Typed
  <2>3. guard'[f] # << >> /\ Head(guard'[f]) = IF Free(f) THEN App(t) ELSE Head(guard[f])
    BY <1>2, <2>1, JoinedHead
  <2>4. Heads(t)'
    BY <1>1, <1>2, <1>3, <1>4, <1>6, <2>2, <2>3 DEF Heads, Free, Answerable
  <2>5. Owners(t)'
    BY <2>2 DEF Owners
  <2>6. OnlyTouches(t) /\ LeavesOthers(t)
    BY <1>1, <1>2, <2>1 DEF OnlyTouches, LeavesOthers, Typed, Joined, SendUnsubscribe
  <2> QED
    BY <1>1, <2>4, <2>5, <2>6, OthersUntouched, OthersOwned
<1> QED
  BY <1>5, <1>6

\* stop() gets the guard and sends UNSUBSCRIBE, or ends.
LEMMA StoppingOwned ==
  ASSUME SessionInv, DistinctFilters, Owned, NEW t \in Subs, StopSends(t) \/ StopEnds(t)
  PROVE  Owned'
<1> DEFINE f == FilterOf[t]
<1>1. /\ UNCHANGED <<todo, restore, alive, rl, kept, subs, starts, registered>> /\ sub[t] = "stopping"
      /\ \/ /\ UNCHANGED <<sub, guard, broker, leftover>> /\ guard[f] # << >> /\ Head(guard[f]) = App(t)
            /\ phase' = [phase EXCEPT ![t] = "sent"] /\ SendUnsubscribe(t)
         \/ /\ UNCHANGED <<entry, silenced>> /\ guard' = Left(f, App(t))
            /\ alive => phase[t] = "sent"
            /\ \/ broker' = broker \ {f} /\ leftover' = leftover \ {f}
               \/ broker' = broker /\ leftover' = leftover \union {f}
            /\ phase' = [phase EXCEPT ![t] = "none"] /\ sub' = [sub EXCEPT ![t] = "stopped"]
  BY DEF StopSends, StopEnds, Subscription, loop, link, Holds, Free
<1>2. Typed /\ Fits(t) /\ f \in Filters /\ Heads(t) /\ Owners(t) /\ kept[f] = None
  BY <1>1, OperationTypes DEF SessionInv, Owned, Fits, SubFits
<1>3. alive => ~(Restoring(t)' /\ restore \in Answerable)
  BY <1>1, <1>2, OpsDiffer DEF Heads, Restoring, Answerable
<1>4. \/ phase'[t] = "sent" /\ guard'[f] = guard[f] /\ Head(guard[f]) = App(t) /\ guard[f] # << >>
      \/ phase'[t] = "none"
  BY <1>1, <1>2 DEF Typed
<1>5. Heads(t)'
  BY <1>1, <1>2, <1>3, <1>4 DEF Heads, Answerable
<1>6. Owners(t)'
  BY <1>1, <1>2 DEF Owners
<1>7. OnlyTouches(t) /\ LeavesOthers(t)
  BY <1>1, <1>2 DEF OnlyTouches, LeavesOthers, Typed, Left, SendUnsubscribe
<1> QED
  BY <1>1, <1>5, <1>6, <1>7, OthersUntouched, OthersOwned

\* The body of `async with' was cancelled, or detach().
LEMMA LeftOwned ==
  ASSUME SessionInv, DistinctFilters, Owned, NEW t \in Subs, StopCancelled(t) \/ Detach(t)
  PROVE  Owned'
<1> DEFINE f == FilterOf[t]
<1>1. /\ UNCHANGED <<todo, restore, alive, rl, starts, phase, registered, entry, guard, broker>>
      /\ sub[t] = "active" /\ subs' = RemoveFirst(subs, t)
      /\ \/ /\ UNCHANGED <<kept, silenced>> /\ leftover' = leftover \union {f}
            /\ sub' = [sub EXCEPT ![t] = "cancelled"] \/ sub' = [sub EXCEPT ![t] = "detached"]
         \/ /\ sub' = [sub EXCEPT ![t] = "detached"] /\ entry[f] # None /\ UNCHANGED leftover
            /\ silenced' = silenced \union {f} /\ kept' = [kept EXCEPT ![f] = entry[f]]
  BY DEF StopCancelled, Detach, Without, Subscription, loop, link
<1>2. Typed /\ Fits(t) /\ f \in Filters /\ t # None /\ Heads(t) /\ Owners(t)
  BY OperationTypes DEF SessionInv, Owned
<1>3. \/ kept' = kept /\ f \in leftover'
      \/ sub'[t] = "detached" /\ entry[f] # None /\ kept'[f] # None
  BY <1>1, <1>2 DEF Typed
<1>4. Heads(t)'
  BY <1>1, <1>2, <1>3 DEF Heads, Restoring
<1>5. Owners(t)'
  BY <1>1, <1>3 DEF Owners
<1>6. OnlyTouches(t) /\ LeavesOthers(t)
  BY <1>1, <1>2 DEF OnlyTouches, LeavesOthers, Typed
<1> QED
  BY <1>1, <1>4, <1>5, <1>6, OthersUntouched, OthersOwned

\* A new connection, with the session of the last one or a new one.
LEMMA AttemptOwned ==
  ASSUME SessionInv, Owned, Attempt
  PROVE  Owned'
<1> SUFFICES ASSUME NEW s \in Subs PROVE Heads(s)' /\ Owners(s)'
  BY DEF Owned
<1> DEFINE f == FilterOf[s]
<1>1. /\ UNCHANGED <<todo, restore, kept, subs, sub, phase>>
      /\ rl \in {"initial", "backoff"} /\ phase[s] = "none" /\ rl' = "start" /\ entry' = kept
      /\ (broker' = broker /\ leftover' = leftover) \/ (broker' = {} /\ leftover' = {})
  BY DEF Attempt, Connecting, Settled, holders
<1>2. Fits(s) /\ Owners(s) /\ restore = "none"
  BY <1>1 DEF SessionInv, Owned, ReportInv
<1>3. sub[s] \notin {"starting", "stopping"} /\ (kept[f] # None => sub[s] = "detached")
  BY <1>1, <1>2 DEF Fits, SubFits
<1>4. rl = "initial" => f \notin broker \ leftover
  <2>1. rl = "initial" => sub[s] = "new" /\ s \notin ToSet(subs)
    BY <1>2 DEF SessionInv, LoopFits, Fits, SubFits
  <2> QED
    BY <1>2, <1>3, <2>1 DEF Owners
<1>5. Heads(s)'
  BY <1>1, <1>2 DEF Heads, Answerable
<1>6. Owners(s)'
  BY <1>1, <1>2, <1>3, <1>4 DEF Owners
<1> QED
  BY <1>5, <1>6

\* The connection is gone, or the loop is on its way to the next one.
LEMMA DeadOwned ==
  ASSUME Owned, ~alive', UNCHANGED <<holders, kept>>, broker' \ leftover' \subseteq broker \ leftover,
         rl' = "backoff" => todo' = subs \/ (rl = "backoff" /\ UNCHANGED todo)
  PROVE  Owned'
<1> SUFFICES ASSUME NEW s \in Subs PROVE Heads(s)' /\ Owners(s)'
  BY DEF Owned
<1>1. UNCHANGED <<subs, sub>> /\ Owners(s)
  BY DEF holders, Owned
<1> QED
  BY <1>1 DEF Heads, Owners

\* The run loop comes to the next subscription.
LEMMA RestoreNextOwned ==
  ASSUME SessionInv, DistinctFilters, Owned, NEW t, t = Head(todo), RestoreNext
  PROVE  Owned'
<1> DEFINE f == FilterOf[t]
<1>1. /\ UNCHANGED <<alive, rl, kept, silenced, subs, starts, sub, phase, registered, broker, leftover>>
      /\ rl = "restore" /\ todo # << >> /\ restore = "none"
  BY DEF RestoreNext, holders, link
<1>2. /\ Typed /\ t \in Subs /\ t \in ToSet(todo) /\ t # None /\ f \in Filters
      /\ Heads(t) /\ Owners(t) /\ Fits(t)
  BY <1>1, TailQueue, OperationTypes DEF SessionInv, Typed, Owned
<1>3. CASE sub[t] = "detached"
  <2>1. todo' = Tail(todo) /\ UNCHANGED <<restore, entry, guard>>
    BY <1>3 DEF RestoreNext
  <2>2. Heads(t)' /\ Owners(t)'
    BY <1>1, <1>2, <1>3, <2>1 DEF Heads, Owners, Restoring
  <2>3. OnlyTouches(t) /\ LeavesOthers(t)
    BY <1>1, <2>1 DEF OnlyTouches, LeavesOthers
  <2>4. \A s \in Subs \ {t} : Untouched(s)
    BY <1>1, <1>2, <2>1, <2>3, OthersNotRestored
  <2> QED
    BY <1>1, <1>2, <2>2, <2>3, <2>4, OthersOwned
<1>4. CASE sub[t] # "detached"
  <2>1. /\ alive /\ UNCHANGED todo /\ guard' = Joined(f, Loop(t))
        /\ \/ Free(f) /\ restore' = SentAs(t) /\ SendSubscribe(t)
           \/ ~Free(f) /\ restore' = "queued" /\ UNCHANGED entry
    BY <1>4 DEF RestoreNext, Loop
  <2>2. guard'[f] # << >> /\ Head(guard'[f]) = IF Free(f) THEN Loop(t) ELSE Head(guard[f])
    BY <1>2, <2>1, JoinedHead
  <2>3. \/ Free(f) /\ entry'[f] = t
        \/ ~Free(f) /\ restore' = "queued" /\ entry'[f] = entry[f]
    BY <1>2, <2>1 DEF SendSubscribe, Typed, Fits, SubFits
  <2>4. Heads(t)'
    BY <1>1, <1>2, <2>1, <2>2, <2>3 DEF Heads, Free, Answerable
  <2>5. Owners(t)'
    BY <1>1, <1>2, <1>4, <2>1, <2>3 DEF Owners
  <2>6. OnlyTouches(t) /\ LeavesOthers(t)
    BY <1>1, <1>2, <2>1 DEF OnlyTouches, LeavesOthers, Typed, Joined, SendSubscribe
  <2>7. \A s \in Subs \ {t} : Untouched(s)
    BY <1>1, <1>2, <2>1, <2>6, OthersNotRestored
  <2> QED
    BY <1>1, <1>2, <2>4, <2>5, <2>6, <2>7, OthersOwned
<1> QED
  BY <1>3, <1>4

\* The restoring of a subscription gets the guard and sends SUBSCRIBE.
LEMMA RestoreSendsOwned ==
  ASSUME SessionInv, DistinctFilters, Owned, NEW t, t = Head(todo), RestoreSends
  PROVE  Owned'
<1> DEFINE f == FilterOf[t]
<1>1. /\ UNCHANGED <<alive, rl, todo, kept, silenced, guard, subs, starts, sub, phase, registered,
                     broker, leftover>>
      /\ alive /\ restore = "queued" /\ guard[f] # << >> /\ Head(guard[f]) = Loop(t)
      /\ restore' = SentAs(t) /\ SendSubscribe(t)
  BY DEF RestoreSends, holders, link, Holds, Free, Loop
<1>2. /\ Typed /\ todo # << >> /\ t \in Subs /\ t \in ToSet(todo) /\ t # None /\ f \in Filters
      /\ Heads(t) /\ Owners(t) /\ Fits(t)
  BY <1>1, TailQueue, OperationTypes DEF SessionInv, Typed, Owned, ReportInv
<1>3. entry'[f] = t
  BY <1>1, <1>2 DEF SendSubscribe, Typed, Fits, SubFits
<1>4. Heads(t)'
  BY <1>1, <1>2, <1>3 DEF Heads
<1>5. Owners(t)'
  BY <1>1, <1>2, <1>3 DEF Owners
<1>6. OnlyTouches(t) /\ LeavesOthers(t)
  BY <1>1, <1>2 DEF OnlyTouches, LeavesOthers, Typed, SendSubscribe
<1>7. \A s \in Subs \ {t} : Untouched(s)
  BY <1>1, <1>2, <1>6, OthersNotRestored
<1> QED
  BY <1>1, <1>2, <1>4, <1>5, <1>6, <1>7, OthersOwned

\* SUBACK of a restored subscription: it holds the guard, so no start() waits for one.
LEMMA RestoreAckedOwned ==
  ASSUME SessionInv, DistinctFilters, Owned, NEW t, t = Head(todo), RestoreAcked
  PROVE  Owned'
<1> DEFINE f == FilterOf[t]
<1>1. /\ UNCHANGED <<alive, rl, kept, silenced, entry, subs, starts, sub, phase>> /\ alive
      /\ restore \in Answerable /\ restore' = "none" /\ todo' = Tail(todo)
      /\ registered' = RegisteredBy(t, restore) /\ guard' = Left(f, Loop(t))
      /\ broker' = broker \union {f}
      /\ leftover' = IF Contains(subs, t) /\ sub[t] # "detached" THEN leftover \ {f}
                     ELSE leftover \union {f}
  BY DEF RestoreAcked, link, Loop
<1>2. /\ Typed /\ todo # << >> /\ t \in Subs /\ t # None /\ f \in Filters
      /\ Heads(t) /\ rl = "restore"
  BY <1>1, TailQueue, OperationTypes DEF SessionInv, Typed, Owned, ReportInv, Answerable
<1>3. entry[f] = t /\ phase[t] \notin Answerable
  BY <1>1, <1>2, OpsDiffer DEF Heads, Restoring, Answerable
<1>4. Contains(subs, t) => t \in ToSet(subs)
  BY <1>2 DEF Contains, ToSet, Typed
<1>5. Heads(t)'
  BY <1>1, <1>2, <1>3 DEF Heads, Answerable
<1>6. Owners(t)'
  BY <1>1, <1>2, <1>3, <1>4 DEF Owners, Answerable
<1>7. OnlyTouches(t) /\ LeavesOthers(t)
  BY <1>1, <1>2 DEF OnlyTouches, LeavesOthers, Typed, Left, RegisteredBy
<1>8. \A s \in Subs \ {t} : Untouched(s)
  BY <1>1, <1>2, <1>7, OthersNotRestored
<1> QED
  BY <1>1, <1>2, <1>5, <1>6, <1>7, <1>8, OthersOwned

\* Every step keeps an owner for what the broker has.
LEMMA OwnedStep ==
  ASSUME SessionInv, DistinctFilters, Owned, [Next]_vars
  PROVE  Owned'
<1>1. CASE Attempt
  BY <1>1, AttemptOwned
<1>2. CASE AttemptFails \/ AttemptRefused \/ AttemptDropped \/ CallbackReturns
  <2>1. /\ UNCHANGED <<holders, kept, broker, leftover>> /\ ~alive'
        /\ rl' = "backoff" => rl = "backoff" /\ UNCHANGED todo
    BY <1>2 DEF AttemptFails, AttemptRefused, AttemptDropped, CallbackReturns, Connecting,
                ConnectFails, Report, Fail, table, SessionInv, LoopFits
  <2> QED
    BY <2>1, DeadOwned
<1>3. CASE Die
  <2>1. /\ UNCHANGED <<holders, kept>> /\ ~alive' /\ rl' # "backoff"
        /\ broker' \ leftover' \subseteq broker \ leftover
    BY <1>3 DEF Die, loop, SessionInv, LoopFits
  <2> QED
    BY <2>1, DeadOwned
<1>4. CASE RestoreRejected \/ LoopSeesDeath
  <2>1. /\ UNCHANGED <<holders, kept, broker, leftover>> /\ ~alive'
        /\ rl' = "backoff" => todo' = subs
    BY <1>4 DEF RestoreRejected, LoopSeesDeath, Report, Fail
  <2> QED
    BY <2>1, DeadOwned
<1>5. CASE Exit
  <2>1. ~alive' /\ broker' = {}
    BY <1>5 DEF Exit
  <2> QED
    BY <2>1 DEF Owned, Heads, Owners
<1>6. ASSUME UNCHANGED holders, UNCHANGED table, UNCHANGED <<todo, restore, alive>>,
             rl' = "backoff" => rl = "backoff"
      PROVE  Owned'
  <2> SUFFICES ASSUME NEW s \in Subs PROVE Heads(s)' /\ Owners(s)'
    BY DEF Owned
  <2>1. Untouched(s) /\ UNCHANGED leftover
    BY <1>6 DEF Untouched, holders, table, Restoring
  <2> QED
    BY <1>6, <2>1, UntouchedOwned DEF Owned
<1>7. CASE Started \/ RestoreEnds \/ UNCHANGED vars
  BY <1>6, <1>7 DEF Started, RestoreEnds, vars, loop, link
<1>8. CASE RestoreNext
  BY <1>8, RestoreNextOwned
<1>9. CASE RestoreSends
  BY <1>9, RestoreSendsOwned
<1>10. CASE RestoreAcked
  BY <1>10, RestoreAckedOwned
<1>11. ASSUME NEW t \in Subs, Start(t) PROVE Owned'
  BY <1>11, StartOwned
<1>12. ASSUME NEW t \in Subs, StartSends(t) PROVE Owned'
  BY <1>12, StartSendsOwned
<1>13. ASSUME NEW t \in Subs, StartAcked(t) \/ StartFails(t) PROVE Owned'
  BY <1>13, StartEndsOwned
<1>14. ASSUME NEW t \in Subs, Stop(t) PROVE Owned'
  BY <1>14, StopOwned
<1>15. ASSUME NEW t \in Subs, StopSends(t) \/ StopEnds(t) PROVE Owned'
  BY <1>15, StoppingOwned
<1>16. ASSUME NEW t \in Subs, StopCancelled(t) \/ Detach(t) PROVE Owned'
  BY <1>16, LeftOwned
<1>17. ASSUME NEW t \in Subs, Wait(t) \/ Wake(t) PROVE Owned'
  BY <1>6, <1>17 DEF Wait, Wake, loop, link
<1> QED
  BY <1>1, <1>2, <1>3, <1>4, <1>5, <1>7, <1>8, <1>9, <1>10, <1>11, <1>12, <1>13, <1>14, <1>15, <1>16,
     <1>17 DEF Next

\* Whenever the run loop waits on a live connection, the broker has no filter without an
\* entry or a stop() that unsubscribes it, but those given up without its agreement: over
\* resumed and new sessions, refused UNSUBSCRIBEs and answers lost with the connection, if
\* no two subscriptions share a filter.
THEOREM NoOrphanFilterHolds ==
  ASSUME DistinctFilters
  PROVE  Spec => []NoOrphanFilter
<1>1. Init => Owned
  <2> SUFFICES ASSUME Init, NEW s \in Subs PROVE Heads(s) /\ Owners(s)
    BY DEF Owned
  <2>1. ~alive /\ broker = leftover
    BY DEF Init
  <2> QED
    BY <2>1 DEF Heads, Owners
<1>2. ASSUME SessionInv, Owned PROVE NoOrphanFilter
  <2> SUFFICES ASSUME rl = "run", alive, NEW f \in broker \ leftover
               PROVE  entry[f] # None \/ \E s \in Subs : FilterOf[s] = f /\ sub[s] = "stopping"
    BY DEF NoOrphanFilter
  <2>1. PICK s \in Subs : FilterOf[s] = f
    BY <1>2 DEF SessionInv, Typed, Filters
  <2>2. s \notin ToSet(todo)
    BY <1>2 DEF SessionInv, LoopFits, ToSet
  <2> QED
    BY <1>2, <2>1, <2>2 DEF Owned, Owners
<1>3. SessionInv /\ Owned /\ [Next]_vars => Owned'
  BY OwnedStep
<1> QED
  BY <1>1, <1>2, <1>3, SessionAlways, PTL DEF Spec

=============================================================================
